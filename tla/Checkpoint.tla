------------------------------ MODULE Checkpoint ------------------------------
(***************************************************************************)
(* A checkpoint slot over several runs of the trainer (PoCTrainer.ts): a   *)
(* run warm-starts from the slot, steps the model (TinyLM, ml/model.ts),   *)
(* explores mutations, keeps a snapshot of its best step in memory and in  *)
(* the best.* files, and leaves the snapshot in the slot.  It may be cut   *)
(* short at any file it writes, by a kill or by a rename or write that     *)
(* fails.                                                                  *)
(*                                                                         *)
(* Weights, adapters and moments are versions: a number for every set that *)
(* was ever computed.  A file holds what a state of the model puts in it.  *)
(***************************************************************************)
EXTENDS Layout, FiniteSets

CONSTANTS Configs,    (* records of Layout with a flag es, the exploration *)
          Losses,     (* losses a batch may have                           *)
          PopulationSize,  (* esPopulationSize, the candidates of adapters *)
          MaxRuns, MaxSteps, None

NaN == -1
Infinity == 1000
Kinds == {"slot", "best"}
Idle == <<"idle">>
Loop == <<"loop">>

ASSUME CheckpointAssumption ==
  /\ Losses \subseteq 0..(Infinity - 1) /\ PopulationSize \in Nat \ {0}
  /\ MaxRuns \in Nat /\ MaxSteps \in Nat
  /\ None \notin [params : Nat, lora : Nat, moments : Nat, adamT : Nat]

ASSUME ConfigsAssumption == \A c \in Configs : IsConfig(c)

VARIABLES
  weights, adam,   (* per kind: <name>.weights.bin, <name>.adam.bin        *)
  pc,      (* Idle, Loop, or <<kind, file>>: about to rename that file     *)
  cfg,     (* the config of the run                                        *)
  model,   (* the TinyLM of the run: params, lora, moments, adamT, and dev,*)
           (* the version mirrored to the device                           *)
  best,    (* bestWeights and bestState, a state of the model, or None     *)
  low,     (* lowestRecordLoss                                             *)
  handle,  (* the result of the last run that ended                        *)
  started, trail,  (* history: the model at the start; loss and state of   *)
                   (* every step                                           *)
  torn,    (* history: kinds cut short between their two renames           *)
  runs, made       (* bounds: runs started, versions made                  *)

disk == <<weights, adam>>
run  == <<cfg, model, best, low, started, trail>>
vars == <<disk, pc, run, handle, torn, runs, made>>

NoModel == [params |-> 0, dev |-> 0, lora |-> 0, moments |-> 0, adamT |-> 0]

Init ==
  /\ weights = [k \in Kinds |-> None] /\ adam = [k \in Kinds |-> None]
  /\ pc = Idle /\ cfg = None /\ model = NoModel /\ best = None /\ low = Infinity
  /\ handle = None /\ started = NoModel /\ trail = <<>> /\ torn = {}
  /\ runs = 0 /\ made = 0

-----------------------------------------------------------------------------
(* TinyLM.  Every operator takes the model to the model after it.           *)
SyncLayerWeights(x) == [x EXCEPT !.dev = x.params]
LoadWeights(x, w) == SyncLayerWeights([x EXCEPT !.params = w])
LoadLora(x, l) == [x EXCEPT !.lora = l]

(* step: the optimizer makes version v of the adapters, or of the weights,  *)
(* which are then mirrored; at rate 0 it only moves the moments.  (A gradient*)
(* of NaN makes NaN of the mirrored weights even then, until the weights are *)
(* put back at the end of the step.)                                         *)
Step(x, rate, v) ==
  LET new(old) == IF rate = 0 THEN old ELSE v
      counted == [x EXCEPT !.moments = v, !.adamT = @ + 1] IN
  IF cfg.lora THEN LoadLora(counted, new(x.lora)) ELSE LoadWeights(counted, new(x.params))

(* Mutant: the step counter is not put back. *)
EvalLossCounts(x, v) ==
  [Step(x, 0, v) EXCEPT !.params = x.params, !.lora = x.lora, !.moments = x.moments]

(* evalLoss: a step at rate 0, and everything put back but the device.      *)
EvalLoss(x, v) ==
  [Step(x, 0, v) EXCEPT !.params = x.params, !.lora = x.lora, !.moments = x.moments,
                        !.adamT = x.adamT]
EvalLossWithWeights(x, w, v) == LoadWeights(EvalLoss(LoadWeights(x, w), v), x.params)
EvalLossWithLora(x, l, v) == LoadLora(EvalLoss(LoadLora(x, l), v), x.lora)

(* The exploration evaluates the candidates of a population: adapters, or   *)
(* one set of weights.                                                      *)
Population == 1..IF cfg.lora THEN PopulationSize ELSE 1

(* A candidate is no worse than the baseline; a NaN is not compared.        *)
NoWorse(losses, baseline) ==
  baseline # NaN /\ \E i \in Population : losses[i] # NaN /\ losses[i] <= baseline

(* The candidates the reduction may put first: the native kernel or a sort  *)
(* by a - b, which leaves the order to the engine as soon as one is NaN.    *)
Fittest(losses) ==
  IF \E i \in Population : losses[i] = NaN THEN Population
  ELSE { i \in Population : \A j \in Population : losses[i] <= losses[j] }

(* The fittest is blended into the adapters, or loaded, if keep.  v is      *)
(* fresh, as is v + 1.                                                      *)
Explored(x, keep, v) ==
  IF cfg.lora
  THEN LET y == EvalLossWithLora(EvalLoss(x, v), v, v) IN
       IF keep THEN LoadLora(y, v + 1) ELSE y
  ELSE LET y == EvalLossWithWeights(EvalLoss(x, v), v, v) IN
       LoadWeights(y, IF keep THEN v ELSE x.params)

(* What the two files of a snapshot hold. *)
State(x) == [params |-> x.params, lora |-> x.lora, moments |-> x.moments, adamT |-> x.adamT]

-----------------------------------------------------------------------------
Below(a, b) == a # NaN /\ b # NaN /\ a < b
MinLoss(a, b) == IF a = NaN \/ b = NaN THEN NaN ELSE IF a < b THEN a ELSE b

(* Both files exist and have the lengths the config asks for. *)
Resumable(c) ==
  /\ weights["slot"] # None /\ adam["slot"] # None
  /\ ParamCountFor(weights["slot"].cfg) = ParamCountFor(c)
  /\ TrainerStateLengthFor(adam["slot"].cfg) = TrainerStateLengthFor(c)

(* restoreTrainerState *)
Restore(x, s) == [x EXCEPT !.moments = s.moments, !.lora = s.lora, !.adamT = s.adamT]

WarmStart(c) ==
  IF Resumable(c)
  THEN Restore(LoadWeights(NoModel, weights["slot"].at.params), adam["slot"].at)
  ELSE [LoadWeights(NoModel, made + 1) EXCEPT !.lora = IF c.lora THEN made + 1 ELSE 0]

Start(c) ==
  /\ pc = Idle /\ runs < MaxRuns
  /\ cfg' = c /\ model' = WarmStart(c) /\ started' = model'
  /\ best' = None /\ low' = Infinity /\ trail' = <<>> /\ handle' = None
  /\ pc' = Loop /\ runs' = runs + 1 /\ made' = made + 1
  /\ UNCHANGED <<disk, torn>>

(* The loss the step is judged by: with adapters the loss of the fittest    *)
(* counts whether it was blended in or not.                                 *)
RecordLoss(loss, fittest, keep) ==
  IF cfg.es /\ (cfg.lora \/ keep) THEN MinLoss(loss, fittest) ELSE loss

(* Mutant: the record is the last loss. *)
TrainStepForgets ==
  /\ pc = Loop /\ Len(trail) < MaxSteps
  /\ \E loss \in Losses \cup {NaN} :
       LET stepped == Step(model, 1, made + 1) IN
       /\ low' = loss /\ model' = stepped
       /\ trail' = Append(trail, [loss |-> loss, at |-> State(stepped)])
       /\ best' = IF Below(loss, low) THEN State(stepped) ELSE best
       /\ pc' = IF Below(loss, low) THEN <<"best", "weights">> ELSE Loop
  /\ made' = made + 1
  /\ UNCHANGED <<disk, cfg, started, handle, torn, runs>>

(* One iteration up to persistBest: the loss is that of the model before    *)
(* the update, the snapshot the one after it.                               *)
TrainStep ==
  /\ pc = Loop /\ Len(trail) < MaxSteps
  /\ \E loss, baseline \in Losses \cup {NaN}, losses \in [Population -> Losses \cup {NaN}] :
     \E fittest \in Fittest(losses) :
       LET keep == NoWorse(losses, baseline)
           stepped == Step(model, 1, made + 1)
           after == IF cfg.es THEN Explored(stepped, keep, made + 2) ELSE stepped
           record == RecordLoss(loss, losses[fittest], keep)
           better == Below(record, low) IN
       /\ ~cfg.es => baseline = loss /\ losses = [i \in Population |-> loss]
       /\ model' = after
       /\ trail' = Append(trail, [loss |-> record, at |-> State(after)])
       /\ low'  = IF better THEN record ELSE low
       /\ best' = IF better THEN State(after) ELSE best
       /\ pc'   = IF better THEN <<"best", "weights">> ELSE Loop
  /\ made' = made + 3
  /\ UNCHANGED <<disk, cfg, started, handle, torn, runs>>

(* The steps are done, or a cancellation or a commit ends the loop.         *)
EndLoop ==
  /\ pc = Loop /\ pc' = <<"slot", "weights">>
  /\ UNCHANGED <<disk, run, handle, torn, runs, made>>

(* Mutant: the optimizer state is that of the last step. *)
LastState == State(model)

Final == IF best # None THEN best ELSE State(model)
FinalWeights == Final
FinalState == Final

(* The adapters are cut out of the best state.                              *)
FinalLora == IF best # None THEN best.lora ELSE model.lora

Written(k, final) == [cfg |-> cfg, at |-> IF k = "best" THEN best ELSE final]

(* The temporary files are complete, and the first is renamed.              *)
RenameWeights(k) ==
  /\ pc = <<k, "weights">> /\ pc' = <<k, "adam">>
  /\ weights' = [weights EXCEPT ![k] = Written(k, FinalWeights)]
  /\ UNCHANGED <<adam, run, handle, torn, runs, made>>

(* Then the second: the loop goes on, or the run ends with its handle.      *)
RenameAdam(k) ==
  /\ pc = <<k, "adam">>
  /\ adam' = [adam EXCEPT ![k] = Written(k, FinalState)]
  /\ torn' = torn \ {k}
  /\ IF k = "best" THEN pc' = Loop /\ UNCHANGED handle
     ELSE /\ pc' = Idle
          /\ handle' = [cfg |-> cfg, params |-> FinalWeights.params, lora |-> FinalLora]
  /\ UNCHANGED <<weights, run, runs, made>>

(* A kill at any time, or a write or a rename that rejects: the run is over *)
(* and what it had not renamed is lost.                                     *)
CutShort ==
  /\ pc # Idle /\ pc' = Idle
  /\ torn' = torn \cup { k \in Kinds : pc = <<k, "adam">> }
  /\ model' = NoModel /\ best' = None
  /\ UNCHANGED <<disk, cfg, low, started, trail, handle, runs, made>>

(* resetTrainerCheckpoint: the files are unlinked one by one, all of them   *)
(* unless it is cut short after the first n.                                *)
Reset ==
  /\ pc = Idle /\ handle' = None
  /\ \E n \in 1..4 :
       /\ weights' = [k \in Kinds |-> IF k = "slot" \/ n >= 3 THEN None ELSE weights[k]]
       /\ adam' = [k \in Kinds |-> IF (k = "slot" /\ n >= 2) \/ n = 4 THEN None ELSE adam[k]]
       /\ torn' = torn \ (IF n >= 3 THEN Kinds ELSE {"slot"})
  /\ UNCHANGED <<pc, run, runs, made>>

Next ==
  \/ \E c \in Configs : Start(c)
  \/ TrainStep \/ EndLoop \/ CutShort \/ Reset
  \/ \E k \in Kinds : RenameWeights(k) \/ RenameAdam(k)

Spec == Init /\ [][Next]_vars

-----------------------------------------------------------------------------
(* Weights and optimizer state that lie beside each other come from one     *)
(* snapshot of one run, whatever is cancelled, committed, reset or fails,   *)
(* unless a run was cut short exactly between the two renames.              *)
PairsMatch ==
  \A k \in Kinds \ torn :
    weights[k] # None /\ adam[k] # None /\ pc # <<k, "adam">> => weights[k] = adam[k]

(* A run that ended leaves in the slot, in the best.* pair and in its handle*)
(* (which is what is exported) its state after the step that recorded the   *)
(* lowest loss; without a finite loss, its last state.                      *)
BestIsShipped ==
  pc = Idle /\ handle # None =>
    LET finite == { i \in DOMAIN trail : trail[i].loss # NaN }
        saved == weights["slot"].at IN
    /\ handle.params = saved.params /\ handle.lora = adam["slot"].at.lora
    /\ finite = {} /\ trail # <<>> => saved = trail[Len(trail)].at
    /\ trail = <<>> => saved = State(started)
    /\ finite # {} => \E i \in finite :
         /\ saved = trail[i].at /\ weights["best"] = weights["slot"]
         /\ \A j \in finite : trail[i].loss <= trail[j].loss

(* While a run goes on, the device has the weights of the host, evaluations *)
(* and candidates leave no trace in the optimizer (one count a step), and   *)
(* adapters are trained on a base that stays as it was.                     *)
ModelCoherent ==
  model # NoModel =>
    /\ model.dev = model.params
    /\ model.adamT = started.adamT + Len(trail)
    /\ cfg.lora => model.params = started.params

(* Configs whose layout table, adapters and files agree with the model.     *)
Addressable ==
  { c \in Configs :
      /\ LayoutIsConstructors(c) /\ AdaptersAreConstructors(c)
      /\ FilesAddressTensors([i \in DOMAIN TensorLayout(c) |-> TensorLayout(c)[i].slice])
      /\ c.lora => FilesAddressTensors(AdapterTensors(c)) }

(* What is exported of a run is found again by a reader: the tensor table,  *)
(* the adapters' targets and slices and the offsets in the files are those  *)
(* the model trained with, padding and biases of odd sizes included.        *)
ExportsAddressTensors == handle # None => handle.cfg \in Addressable

(***************************************************************************)
(* The inductive invariant behind the safety properties (CheckpointProofs).*)
(***************************************************************************)
States == [params : Nat, lora : Nat, moments : Nat, adamT : Nat]
Models == [params : Nat, dev : Nat, lora : Nat, moments : Nat, adamT : Nat]
File   == [cfg : Configs, at : States]
Losing == Losses \cup {NaN}

(* Types of the files, of the run and of its history. *)
TypeOK ==
  /\ weights \in [Kinds -> File \cup {None}] /\ adam \in [Kinds -> File \cup {None}]
  /\ pc \in {Idle, Loop} \cup (Kinds \X {"weights", "adam"})
  /\ pc # Idle => cfg \in Configs
  /\ model \in Models /\ started \in Models
  /\ best \in States \cup {None} /\ low \in 0..Infinity
  /\ trail \in Seq([loss : Losing, at : States])
  /\ handle # None => handle.cfg \in Configs
  /\ torn \subseteq Kinds /\ runs \in 0..MaxRuns /\ made \in Nat

(* Between the two renames the first file is already the run's.            *)
HalfRenamed == \A k \in Kinds : pc = <<k, "adam">> => weights[k] = Written(k, Final)

(* The model of a run that is going on is coherent, whatever it is.        *)
RunCoherent ==
  pc # Idle \/ model # NoModel =>
    /\ model.dev = model.params
    /\ model.adamT = started.adamT + Len(trail)
    /\ cfg.lora => model.params = started.params

(* While a run goes on, its model is that of the last step, and what it    *)
(* keeps as its best is a step with the lowest loss recorded so far.       *)
FiniteSteps == { i \in DOMAIN trail : trail[i].loss # NaN }
BestSoFar ==
  pc # Idle =>
    /\ handle = None
    /\ trail = <<>> => State(model) = State(started)
    /\ trail # <<>> => trail[Len(trail)].at = State(model)
    /\ FiniteSteps = {} => best = None /\ low = Infinity
    /\ FiniteSteps # {} => \E i \in FiniteSteps :
         /\ best = trail[i].at /\ low = trail[i].loss
         /\ \A j \in FiniteSteps : trail[i].loss <= trail[j].loss

(* A best that is kept in memory is in the best.* files before the loop    *)
(* goes on, and only a best is written there.                              *)
BestPersisted ==
  /\ \A f \in {"weights", "adam"} : pc = <<"best", f>> => best # None
  /\ best # None /\ (pc = Loop \/ \E f \in {"weights", "adam"} : pc = <<"slot", f>>) =>
       weights["best"] = [cfg |-> cfg, at |-> best]

(* The files, the model and the record of a run hang together at every await.*)
IInv ==
  /\ TypeOK /\ PairsMatch /\ HalfRenamed /\ RunCoherent
  /\ BestSoFar /\ BestPersisted /\ BestIsShipped
=============================================================================
