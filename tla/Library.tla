------------------------------- MODULE Library -------------------------------
(***************************************************************************)
(* LibraryManager: exported models, variants cloned from them that may     *)
(* share a parent's weights through a symbolic link, and variants in       *)
(* training.  The methods are synchronous and therefore one action each,   *)
(* except train, whose actions are the stretches between its awaits, as    *)
(* are those of the export node of a pipeline run.  What an awaited write  *)
(* puts in a file is there when the await ends.                            *)
(*                                                                         *)
(* Weights are abstracted to a shape (the parameter count) and a version,  *)
(* one for every set of weights that was ever computed.                    *)
(***************************************************************************)
EXTENDS Naturals, FiniteSets

CONSTANTS Names,       (* base names of exported checkpoints               *)
          Clones,      (* ids of variants, each used once                  *)
          Shapes,      (* parameter counts                                 *)
          None,
          SharedTok,   (* the tokenizer in the tokens directory            *)
          MaxVersion,  (* bound on the weights ever computed               *)
          Scenes       (* what may happen, see scene                       *)

Ids == Names \cup Clones

ASSUME LibraryAssumption ==
  /\ Names \cap Clones = {} /\ IsFiniteSet(Ids)
  /\ None \notin Ids \cup Shapes /\ SharedTok \notin Names \cup {None}
  /\ MaxVersion \in Nat
  /\ Scenes \subseteq [ops : SUBSET {"tokenizer", "accept", "rename", "delete", "throw"},
                       names : SUBSET Names, shapes : SUBSET Shapes, versions : 0..MaxVersion]

VARIABLES
  config,    (* shape in the export's header or in model.json, if any       *)
  parent,    (* parentId of a variant                                       *)
  tokRef,    (* tokenizerPath of a variant                                  *)
  file,      (* weights.bin of an export or a variant                       *)
  adam,      (* adam.bin of a variant                                       *)
  tokens,    (* exports whose tokenizer file exists                         *)
  job,       (* the training of a variant: the await it stands at, what it  *)
             (* read from model.json and the files, what it will write      *)
  stopping,  (* variants whose AbortController is aborted                   *)
  export,    (* the export under way: the await its node stands at, the     *)
             (* name, the weights and whether a tokenizer is connected      *)
  fresh,     (* ids no variant has had yet                                  *)
  version,   (* versions computed so far                                    *)
  torn,      (* history: variants whose weights or optimizer state were     *)
             (* replaced alone, by an accepted result or a failed write     *)
  renamed,   (* history: an export was renamed                              *)
  scene      (* bounds: the operations besides cloning and training, the    *)
             (* names, shapes and number of weights that are exported       *)

meta  == <<config, parent, tokRef>>
files == <<file, adam, tokens>>
train == <<job, stopping, export>>
past  == <<torn, renamed, scene>>
vars  == <<meta, files, train, fresh, version, past>>

NoFile      == [link |-> None, shape |-> None, version |-> 0]
Link(i)     == [link |-> i, shape |-> None, version |-> 0]
Bytes(s, v) == [link |-> None, shape |-> s, version |-> v]
NoJob == [pc |-> "off", shape |-> None, parent |-> None, tok |-> None,
          warm |-> 0, moments |-> 0, out |-> NoFile]
NoExport == [pc |-> "off", name |-> None, out |-> NoFile, tok |-> FALSE]

(* Where opening f[i] leads: links to links are followed to their end (a    *)
(* circle has none).  What is reached lies in every set that holds i and     *)
(* whatever the links of its members name.                                   *)
Closed(f, i)  == { S \in SUBSET Ids : i \in S /\ \A k \in S : f[k].link # None => f[k].link \in S }
Reached(f, i) == LET closed == Closed(f, i) IN { j \in Ids : \A S \in closed : j \in S }
Ends(f, i)    == { j \in Reached(f, i) : f[j].link = None }
Follow(f, i)  == LET ends == Ends(f, i) IN IF ends = {} THEN i ELSE CHOOSE j \in ends : TRUE

Read(f, i)   == f[Follow(f, i)]
Exists(f, i) == Read(f, i).version # 0
Training(c)  == job[c].pc # "off"
IsLink(f, i) == f[i].link # None

Init ==
  /\ config = [i \in Ids |-> None]
  /\ parent = [c \in Clones |-> None] /\ tokRef = [c \in Clones |-> None]
  /\ file = [i \in Ids |-> NoFile] /\ adam = [c \in Clones |-> NoFile] /\ tokens = {}
  /\ job = [c \in Clones |-> NoJob] /\ stopping = {} /\ export = NoExport
  /\ fresh = Clones /\ version = 0
  /\ torn = {} /\ renamed = FALSE /\ scene \in Scenes

(* The bound: every training keeps a version in reserve for its result.    *)
NewVersion == version' = version + 1
Spare == version + Cardinality({ c \in Clones : Training(c) }) < scene.versions

-----------------------------------------------------------------------------
(* ExportNode of a pipeline run, which overwrites in place: the header,    *)
(* then the weights, then, when its input is connected, the tokenizer.     *)
(* The formats that the library does not list (adapters alone, or no       *)
(* weights.bin) are left out.                                              *)
ExportHeader(n, s) ==
  /\ export.pc = "off"
  /\ Spare /\ NewVersion
  /\ config' = [config EXCEPT ![n] = s]
  /\ export' = [pc |-> "weights", name |-> n, out |-> Bytes(s, version'), tok |-> "tokenizer" \in scene.ops]
  /\ UNCHANGED <<parent, tokRef, files, job, stopping, fresh, past>>

ExportWeights ==
  /\ export.pc = "weights"
  /\ file' = [file EXCEPT ![export.name] = export.out]
  /\ export' = IF export.tok THEN [export EXCEPT !.pc = "tokenizer"] ELSE NoExport
  /\ UNCHANGED <<meta, adam, tokens, job, stopping, fresh, version, past>>

ExportTokenizer ==
  /\ export.pc = "tokenizer"
  /\ tokens' = tokens \cup {export.name}
  /\ export' = NoExport
  /\ UNCHANGED <<meta, file, adam, job, stopping, fresh, version, past>>

(* A write fails; weights that were half written have nobody's shape.      *)
HalfWritten == Bytes(None, export.out.version)
ExportThrows ==
  /\ "throw" \in scene.ops
  /\ export.pc # "off"
  /\ file' = IF export.pc = "weights" THEN [file EXCEPT ![export.name] = HalfWritten] ELSE file
  /\ export' = NoExport
  /\ UNCHANGED <<meta, adam, tokens, job, stopping, fresh, version, past>>

(* create(): no weights before the first training. *)
Create(c, s) ==
  /\ c \in fresh /\ fresh' = fresh \ {c}
  /\ config' = [config EXCEPT ![c] = s]
  /\ tokRef' = [tokRef EXCEPT ![c] = SharedTok]
  /\ UNCHANGED <<parent, files, train, version, past>>

(* list(): an export without a tokenizer file falls back to the shared one. *)
TokenizerOf(i) ==
  IF i \in Clones THEN tokRef[i] ELSE IF i \in tokens THEN i ELSE SharedTok

(* Same shape and weights to share: a link; otherwise nothing yet. *)
ClonedWeights(src, s) ==
  IF s = config[src] /\ Exists(file, src) THEN Link(src) ELSE NoFile

Clone(c, src, s) ==
  /\ c \in fresh /\ fresh' = fresh \ {c}
  /\ config[src] # None
  /\ config' = [config EXCEPT ![c] = s]
  /\ parent' = [parent EXCEPT ![c] = src]
  /\ tokRef' = [tokRef EXCEPT ![c] = TokenizerOf(src)]
  /\ file' = [file EXCEPT ![c] = ClonedWeights(src, s)]
  /\ UNCHANGED <<adam, tokens, train, version, past>>

(* Mutant: nothing is copied. *)
NotMaterialized(id) == file

(* delete(), first part: the children's links become copies. *)
Materialized(id) ==
  [i \in Ids |->
     IF /\ i \in Clones /\ config[i] # None /\ parent[i] = id
        /\ IsLink(file, i) /\ Exists(file, i) /\ Exists(file, id)
     THEN Read(file, id) ELSE file[i]]

(* What delete and rename ask for. *)
Idle(id) == config[id] # None /\ (id \in Clones => ~Training(id))

Delete(id) ==
  /\ "delete" \in scene.ops
  /\ Idle(id)
  /\ file' = [Materialized(id) EXCEPT ![id] = NoFile]
  /\ config' = [config EXCEPT ![id] = None]
  /\ IF id \in Clones
     THEN /\ parent' = [parent EXCEPT ![id] = None]
          /\ tokRef' = [tokRef EXCEPT ![id] = None]
          /\ adam' = [adam EXCEPT ![id] = NoFile]
          /\ UNCHANGED tokens
     ELSE tokens' = tokens \ {id} /\ UNCHANGED <<parent, tokRef, adam>>
  /\ UNCHANGED <<train, fresh, version, past>>

(* rename() of an export: its files move, then the clones are re-pointed;  *)
(* existsSync follows the link, to the place the file has just left.       *)
Rename(n, m) ==
  LET moved == [file EXCEPT ![m] = IF file[n] = NoFile THEN @ ELSE file[n], ![n] = NoFile]
  IN  /\ "rename" \in scene.ops
      /\ Idle(n) /\ n # m /\ config[m] = None
      /\ config' = [config EXCEPT ![m] = config[n], ![n] = None]
      /\ tokens' = IF n \in tokens THEN (tokens \ {n}) \cup {m} ELSE tokens
      /\ parent' = [c \in Clones |-> IF parent[c] = n THEN m ELSE parent[c]]
      /\ tokRef' = [c \in Clones |-> IF tokRef[c] = n THEN m ELSE tokRef[c]]
      /\ file' = [i \in Ids |->
           IF i \in Clones /\ config[i] # None /\ Exists(moved, i) /\ moved[i].link = n
           THEN Link(m) ELSE moved[i]]
      /\ renamed' = TRUE
      /\ UNCHANGED <<adam, train, fresh, version, torn, scene>>

(* persistPipelineResult(): an accepted run replaces shape and weights of  *)
(* any variant, one in training included; adam.bin stays.                  *)
Accept(id, s) ==
  /\ "accept" \in scene.ops
  /\ config[id] # None
  /\ Spare /\ NewVersion
  /\ config' = [config EXCEPT ![id] = s]
  /\ file' = [file EXCEPT ![id] = Bytes(s, version')]
  /\ torn' = torn \cup ({id} \cap Clones)
  /\ UNCHANGED <<parent, tokRef, adam, tokens, train, fresh, renamed, scene>>

-----------------------------------------------------------------------------
(* train()                                                                 *)

StartTrain(c) ==
  /\ config[c] # None /\ ~Training(c) /\ Spare
  /\ job' = [job EXCEPT ![c] = [NoJob EXCEPT !.pc = "data", !.shape = config[c],
                                             !.parent = parent[c], !.tok = tokRef[c]]]
  /\ stopping' = stopping \ {c}
  /\ UNCHANGED <<meta, files, export, fresh, version, past>>

Stop(c) ==
  /\ Training(c)
  /\ stopping' = stopping \cup {c}
  /\ UNCHANGED <<meta, files, job, export, fresh, version, past>>

At(c, pc) == job[c].pc = pc
(* The finally block. *)
Finish(c) == job' = [job EXCEPT ![c] = NoJob] /\ stopping' = stopping \ {c} /\ UNCHANGED export
Go(c, changes) == job' = [job EXCEPT ![c] = changes] /\ UNCHANGED <<stopping, export>>

(* The shard is read; without weights the model is initialised at random.  *)
ReadData(c) ==
  /\ At(c, "data")
  /\ Go(c, [job[c] EXCEPT !.pc = IF Exists(file, c) THEN "weights" ELSE "loop"])
  /\ UNCHANGED <<meta, files, fresh, version, past>>

(* The weights went away after existsSync: readFile rejects. *)
WeightsGone(c) == ~Exists(file, c) /\ Finish(c)

(* The weights are kept when they have the captured shape, and then the    *)
(* optimizer state is read, if there is one.                               *)
ReadWeights(c) ==
  /\ At(c, "weights")
  /\ \/ WeightsGone(c)
     \/ LET w == Read(file, c)
        IN  /\ w.version # 0
            /\ Go(c, IF w.shape # job[c].shape THEN [job[c] EXCEPT !.pc = "loop"]
                     ELSE [job[c] EXCEPT !.warm = w.version,
                             !.pc = IF adam[c] # NoFile THEN "moments" ELSE "loop"])
  /\ UNCHANGED <<meta, files, fresh, version, past>>

(* restoreTrainerState ignores a state of another length. *)
ReadMoments(c) ==
  /\ At(c, "moments")
  /\ Go(c, [job[c] EXCEPT !.pc = "loop",
              !.moments = IF adam[c].shape = job[c].shape THEN adam[c].version ELSE 0])
  /\ UNCHANGED <<meta, files, fresh, version, past>>

(* Mutant: a training that is stopped is not brought to its end. *)
LoopAbandoned(c) ==
  /\ At(c, "loop") /\ c \notin stopping
  /\ NewVersion
  /\ Go(c, [job[c] EXCEPT !.pc = "save", !.moments = version',
              !.out = Bytes(job[c].shape, version')])
  /\ UNCHANGED <<meta, files, fresh, past>>

(* The loop ends after its steps or when stopped; without a step the       *)
(* model is the one it started from.                                       *)
LoopEnds(c) ==
  /\ At(c, "loop")
  /\ \/ /\ NewVersion
        /\ Go(c, [job[c] EXCEPT !.pc = "save", !.moments = version',
                    !.out = Bytes(job[c].shape, version')])
     \/ /\ c \in stopping /\ job[c].warm # 0
        /\ UNCHANGED version
        /\ Go(c, [job[c] EXCEPT !.pc = "save", !.out = Bytes(job[c].shape, job[c].warm),
                    !.moments = IF @ = 0 THEN job[c].warm ELSE @])
  /\ UNCHANGED <<meta, files, fresh, past>>

(* The rename over weights.bin replaces a link, not its target.            *)
SaveWeights(c) ==
  /\ At(c, "save")
  /\ file' = [file EXCEPT ![c] = job[c].out]
  /\ Go(c, [job[c] EXCEPT !.pc = "saveAdam"])
  /\ torn' = IF job[c].moments = job[c].out.version THEN torn \ {c} ELSE torn
  /\ UNCHANGED <<meta, adam, tokens, fresh, version, renamed, scene>>

(* Mutant: the moments the run started from are written back. *)
StaleMoments(c) == Bytes(job[c].shape, job[c].warm)

BestMoments(c) == Bytes(job[c].shape, job[c].moments)

(* adam.bin, then model.json as it was captured at the start. *)
SaveMoments(c) ==
  /\ At(c, "saveAdam")
  /\ adam' = [adam EXCEPT ![c] = BestMoments(c)]
  /\ config' = [config EXCEPT ![c] = job[c].shape]
  /\ parent' = [parent EXCEPT ![c] = job[c].parent]
  /\ tokRef' = [tokRef EXCEPT ![c] = job[c].tok]
  /\ Finish(c)
  /\ UNCHANGED <<file, tokens, fresh, version, past>>

(* An await rejects (no shard, a full disk). *)
TrainThrows(c) ==
  /\ "throw" \in scene.ops
  /\ Training(c)
  /\ Finish(c)
  /\ torn' = IF At(c, "saveAdam") THEN torn \cup {c} ELSE torn
  /\ UNCHANGED <<meta, files, fresh, version, renamed, scene>>

TrainStep(c) ==
  \/ ReadData(c) \/ ReadWeights(c) \/ ReadMoments(c)
  \/ LoopEnds(c) \/ SaveWeights(c) \/ SaveMoments(c)

Next ==
  \/ \E n \in scene.names, s \in scene.shapes : ExportHeader(n, s)
  \/ ExportWeights \/ ExportTokenizer \/ ExportThrows
  \/ \E c \in Clones, s \in scene.shapes : Create(c, s)
  \/ \E c \in Clones, i \in Ids, s \in scene.shapes : Clone(c, i, s)
  \/ \E i \in Ids : Delete(i) \/ \E s \in scene.shapes : Accept(i, s)
  \/ \E n, m \in Names : Rename(n, m)
  \/ \E c \in Clones : StartTrain(c) \/ Stop(c) \/ TrainStep(c) \/ TrainThrows(c)

(* The awaits of a training resolve. *)
Spec == Init /\ [][Next]_vars /\ \A c \in Clones : WF_vars(TrainStep(c))

-----------------------------------------------------------------------------
Files == [link : Ids \cup {None}, shape : Shapes \cup {None}, version : 0..MaxVersion]

Jobs == [pc : {"off", "data", "weights", "moments", "loop", "save", "saveAdam"},
         shape : Shapes \cup {None}, parent : Ids \cup {None},
         tok : Names \cup {SharedTok, None},
         warm : 0..MaxVersion, moments : 0..MaxVersion, out : Files]

(* Types of the library's files and trainings. *)
TypeOK ==
  /\ config \in [Ids -> Shapes \cup {None}]
  /\ parent \in [Clones -> Ids \cup {None}]
  /\ tokRef \in [Clones -> Names \cup {SharedTok, None}]
  /\ file \in [Ids -> Files] /\ adam \in [Clones -> Files] /\ tokens \subseteq Names
  /\ job \in [Clones -> Jobs]
  /\ stopping \subseteq Clones /\ fresh \subseteq Clones /\ version \in 0..MaxVersion
  /\ torn \subseteq Clones /\ renamed \in BOOLEAN

(* A variant in training stays in the library until it has written its     *)
(* result, whatever is deleted, renamed or accepted meanwhile.             *)
TrainedVariantExists ==
  \A c \in Clones : Training(c) => config[c] # None /\ c \notin fresh

(* Every symbolic link leads, perhaps over other links, to weights, until  *)
(* an export is renamed (RenameKeepsWeights below fails).                  *)
LinksResolve == ~renamed => \A c \in Clones : IsLink(file, c) => Exists(file, c)

(* A step that takes i out of the library and puts nothing in (a rename    *)
(* does both).                                                             *)
Removed(i) ==
  /\ config[i] # None /\ config'[i] = None
  /\ \A j \in Ids : config[j] = None => config'[j] = None

(* Deleting a model changes what no variant reads, however long the chains *)
(* of links through it are, until an export is renamed.                    *)
DeleteKeepsWeights ==
  [][~renamed => \A i \in Ids : Removed(i) =>
       \A c \in Clones \ {i} : Exists(file, c) => Read(file', c) = Read(file, c)]_vars

(* The optimizer state beside the weights is the one those weights were    *)
(* reached with, unless a result is being written or the pair was torn: a  *)
(* training that wrote through its link, or read a file between two writes *)
(* of another, would leave a variant with moments of other weights.        *)
PairedOptimum ==
  \A c \in Clones \ torn : adam[c] # NoFile /\ ~At(c, "saveAdam") => file[c] = adam[c]

(* What is in the library, in training or linked to is there, and weights  *)
(* lie beside the optimizer state they were reached with.                  *)
Inv == TypeOK /\ TrainedVariantExists /\ LinksResolve /\ PairedOptimum

(* An id no variant has had yet names nothing, and nothing is linked to it.  *)
NeverMade ==
  \A c \in fresh : /\ config[c] = None /\ file[c] = NoFile /\ adam[c] = NoFile
                   /\ \A i \in Ids : file[i].link # c

(* Only variants are links, which have no bytes of their own; until an export*)
(* is renamed, a link is a variant's in the library and leads to its parent, *)
(* and a training writes back the parent there is.                           *)
LinksOwned ==
  /\ \A n \in Names : ~IsLink(file, n)
  /\ \A c \in Clones : ~IsLink(adam, c) /\ (IsLink(file, c) => file[c].version = 0)
  /\ ~renamed => \A c \in Clones :
       /\ IsLink(file, c) => config[c] # None /\ file[c].link = parent[c]
       /\ Training(c) => job[c].parent = parent[c]

(* What a training holds; unless its pair was torn, the optimizer state it   *)
(* writes is the one its weights were reached with.                          *)
Holds(c, j) ==
  /\ j.pc \in {"data", "weights"} => j.moments = 0
  /\ j.pc = "save" => j.out = Bytes(j.shape, j.out.version) /\ j.out.version # 0
  /\ c \notin torn =>
       /\ j.pc = "moments" => adam[c] # NoFile /\ j.warm = adam[c].version
       /\ j.pc = "loop" => j.moments \in {0, j.warm}
       /\ j.pc = "save" => j.moments = j.out.version
       /\ j.pc = "saveAdam" => file[c] = Bytes(j.shape, j.moments)
Trainings == \A c \in Clones : Training(c) => job[c].shape \in Shapes /\ Holds(c, job[c])

(* Every training that has not ended its loop keeps a version in reserve.    *)
Pending == { c \in Clones : job[c].pc \in {"data", "weights", "moments", "loop"} }
Reserve == version + Cardinality(Pending) <= MaxVersion

(* An export under way has a name and the weights it is to write.            *)
Exporting ==
  /\ export \in [pc : {"off", "weights", "tokenizer"}, name : Names \cup {None},
                 out : Files, tok : BOOLEAN]
  /\ export.pc # "off" =>
       export.name # None /\ export.out.link = None /\ export.out.version # 0
  /\ scene \in Scenes

(* The inductive invariant of Inv (LibraryProofs).                           *)
Stored == Inv /\ NeverMade /\ LinksOwned /\ Trainings /\ Reserve
IInv == Stored /\ Exporting

(* A training ends. *)
TrainingEnds == \A c \in Clones : Training(c) ~> ~Training(c)

(* "Re-point clones: parentId, tokenizerPath, and weight symlinks"         *)
(* (LibraryManager.ts): a rename leaves no clone without its weights.      *)
RenameKeepsWeights ==
  [][\A n \in Names : config[n] # None /\ config'[n] = None =>
       \A c \in Clones : Exists(file, c) => Exists(file', c)]_vars
=============================================================================
