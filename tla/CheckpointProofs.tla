--------------------------- MODULE CheckpointProofs ---------------------------
(***************************************************************************)
(* Proofs about Checkpoint, for every set of configs and losses, any size  *)
(* of a population and any number of runs and steps.                       *)
(***************************************************************************)
EXTENDS Checkpoint, SequenceTheorems, WellFoundedInduction, TLAPS

-----------------------------------------------------------------------------
(* What an optimizer step does to the model: it counts, mirrors what it      *)
(* computed, and leaves the base of adapters alone.                          *)
LEMMA StepProperties ==
  ASSUME NEW x \in Models, NEW rate \in {0, 1}, NEW v \in Nat
  PROVE  LET y == Step(x, rate, v) IN
         /\ y \in Models
         /\ y.adamT = x.adamT + 1
         /\ cfg.lora \/ rate = 0 => y.params = x.params
         /\ x.dev = x.params => y.dev = y.params
<1>. DEFINE new(old) == IF rate = 0 THEN old ELSE v
            counted == [x EXCEPT !.moments = v, !.adamT = @ + 1]
<1>1. /\ counted \in Models /\ counted.adamT = x.adamT + 1
      /\ counted.params = x.params /\ counted.dev = x.dev
  <2>1. PICK n \in Nat : n = x.adamT + 1
    BY DEF Models
  <2>2. counted = [x EXCEPT !.moments = v, !.adamT = n]
    BY <2>1
  <2>3. /\ [x EXCEPT !.moments = v, !.adamT = n] \in Models
        /\ [x EXCEPT !.moments = v, !.adamT = n].adamT = n
        /\ [x EXCEPT !.moments = v, !.adamT = n].params = x.params
        /\ [x EXCEPT !.moments = v, !.adamT = n].dev = x.dev
    BY DEF Models
  <2>. QED
    BY <2>1, <2>2, <2>3
<1>2. new(x.lora) \in Nat /\ new(x.params) \in Nat /\ (rate = 0 => new(x.params) = x.params)
  BY DEF Models
<1>3. CASE cfg.lora
  <2>1. Step(x, rate, v) = LoadLora(counted, new(x.lora))
    BY <1>3 DEF Step
  <2>. HIDE DEF counted, new
  <2>. QED
    BY <1>1, <1>2, <2>1 DEF LoadLora, Models
<1>4. CASE ~cfg.lora
  <2>1. Step(x, rate, v) = LoadWeights(counted, new(x.params))
    BY <1>4 DEF Step
  <2>. HIDE DEF counted, new
  <2>. QED
    BY <1>1, <1>2, <1>4, <2>1 DEF LoadWeights, SyncLayerWeights, Models
<1>. QED
  BY <1>3, <1>4

(* An evaluation leaves the model as it was, but for the mirror.             *)
LEMMA EvalLossProperties ==
  ASSUME NEW x \in Models, NEW v \in Nat
  PROVE  LET y == EvalLoss(x, v) IN
         /\ y \in Models
         /\ y.adamT = x.adamT /\ y.params = x.params /\ y.lora = x.lora
         /\ x.dev = x.params => y.dev = y.params
<1>1. Step(x, 0, v) \in Models /\ (x.dev = x.params => Step(x, 0, v).dev = x.params)
  BY StepProperties
<1>. QED
  BY <1>1 DEF EvalLoss, Models

(* So does an exploration, except for the weights, or the adapters, it keeps.*)
LEMMA ExploredProperties ==
  ASSUME NEW x \in Models, NEW keep \in BOOLEAN, NEW v \in Nat
  PROVE  LET y == Explored(x, keep, v) IN
         /\ y \in Models
         /\ y.adamT = x.adamT
         /\ cfg.lora => y.params = x.params
         /\ x.dev = x.params => y.dev = y.params
<1>. DEFINE e == EvalLoss(x, v)
<1>1. /\ e \in Models /\ e.adamT = x.adamT /\ e.params = x.params
      /\ x.dev = x.params => e.dev = e.params
  BY EvalLossProperties
<1>2. CASE cfg.lora
  <2>. DEFINE f == EvalLoss(LoadLora(e, v), v)
              g == LoadLora(f, e.lora)
  <2>1. /\ LoadLora(e, v) \in Models /\ LoadLora(e, v).adamT = e.adamT
        /\ LoadLora(e, v).params = e.params /\ LoadLora(e, v).dev = e.dev
    BY <1>1 DEF LoadLora, Models
  <2>2. /\ f \in Models /\ f.adamT = e.adamT /\ f.params = e.params
        /\ e.dev = e.params => f.dev = f.params
    BY <2>1, EvalLossProperties
  <2>3. /\ g \in Models /\ g.adamT = e.adamT /\ g.params = e.params
        /\ e.dev = e.params => g.dev = g.params
    BY <1>1, <2>2 DEF LoadLora, Models
  <2>4. Explored(x, keep, v) = IF keep THEN LoadLora(g, v + 1) ELSE g
    BY <1>2 DEF Explored, EvalLossWithLora
  <2>. HIDE DEF e, f, g
  <2>5. CASE keep
    BY <1>1, <2>3, <2>4, <2>5 DEF LoadLora, Models
  <2>. QED
    BY <1>1, <2>3, <2>4, <2>5
<1>3. CASE ~cfg.lora
  <2>. DEFINE f == EvalLoss(LoadWeights(e, v), v)
              g == LoadWeights(f, e.params)
  <2>1. LoadWeights(e, v) \in Models /\ LoadWeights(e, v).adamT = e.adamT
    BY <1>1 DEF LoadWeights, SyncLayerWeights, Models
  <2>2. f \in Models /\ f.adamT = e.adamT
    BY <2>1, EvalLossProperties
  <2>3. g \in Models /\ g.adamT = e.adamT
    BY <1>1, <2>2 DEF LoadWeights, SyncLayerWeights, Models
  <2>4. Explored(x, keep, v) = LoadWeights(g, IF keep THEN v ELSE x.params)
    BY <1>3 DEF Explored, EvalLossWithWeights
  <2>5. (IF keep THEN v ELSE x.params) \in Nat
    BY DEF Models
  <2>. HIDE DEF e, f, g
  <2>. QED
    BY <1>1, <1>3, <2>3, <2>4, <2>5 DEF LoadWeights, SyncLayerWeights, Models
<1>. QED
  BY <1>2, <1>3

(* The model a run starts with is mirrored.                                  *)
LEMMA WarmStartProperties ==
  ASSUME TypeOK, NEW c \in Configs
  PROVE  WarmStart(c) \in Models /\ WarmStart(c).dev = WarmStart(c).params
<1>1. CASE Resumable(c)
  <2>1. weights["slot"] \in File /\ adam["slot"] \in File
    BY <1>1 DEF TypeOK, Resumable, Kinds
  <2>2. weights["slot"].at.params \in Nat /\ adam["slot"].at \in States
    BY <2>1 DEF File, States
  <2>3. LoadWeights(NoModel, weights["slot"].at.params) \in Models
    BY <2>2 DEF LoadWeights, SyncLayerWeights, NoModel, Models
  <2>. QED
    BY <1>1, <2>2, <2>3 DEF WarmStart, Restore, States, Models, LoadWeights, SyncLayerWeights
<1>2. CASE ~Resumable(c)
  <2>1. LoadWeights(NoModel, made + 1) \in Models
    <3>1. made + 1 \in Nat
      BY DEF TypeOK
    <3>. QED
      BY <3>1 DEF LoadWeights, SyncLayerWeights, NoModel, Models
  <2>2. (IF c.lora THEN made + 1 ELSE 0) \in Nat
    BY DEF TypeOK
  <2>3. WarmStart(c) = [LoadWeights(NoModel, made + 1) EXCEPT !.lora = IF c.lora THEN made + 1 ELSE 0]
    BY <1>2 DEF WarmStart
  <2>. QED
    BY <2>1, <2>2, <2>3 DEF LoadWeights, SyncLayerWeights, Models
<1>. QED
  BY <1>1, <1>2

(* What a snapshot holds of a model, and what is written of it.              *)
LEMMA SnapshotType ==
  /\ \A x \in Models : State(x) \in States
  /\ TypeOK => Final \in States
  /\ TypeOK /\ pc # Idle /\ (pc[1] = "best" => best # None)
       => \A k \in Kinds : pc[1] = k => Written(k, Final) \in File
<1>1. \A x \in Models : State(x) \in States
  BY DEF State, Models, States
<1>2. TypeOK => Final \in States
  BY <1>1 DEF Final, TypeOK
<1>3. TypeOK /\ pc # Idle /\ (pc[1] = "best" => best # None)
        => \A k \in Kinds : pc[1] = k => Written(k, Final) \in File
  BY <1>2 DEF Written, File, TypeOK, Kinds
<1>. QED
  BY <1>1, <1>2, <1>3

-----------------------------------------------------------------------------
(* The initial state satisfies the inductive invariant.                      *)
LEMMA InitInvariant == Init => IInv
<1>. SUFFICES ASSUME Init PROVE IInv
  OBVIOUS
<1>. USE CheckpointAssumption DEF Init
<1>1. TypeOK
  BY DEF TypeOK, NoModel, Models, Infinity
<1>2. PairsMatch /\ HalfRenamed
  BY DEF PairsMatch, HalfRenamed, Idle
<1>3. RunCoherent /\ BestSoFar /\ BestPersisted /\ BestIsShipped
  BY DEF RunCoherent, BestSoFar, BestPersisted, BestIsShipped, Idle, Loop
<1>. QED
  BY <1>1, <1>2, <1>3 DEF IInv

(* An iteration of the loop: one record of a loss and one model that was     *)
(* stepped once, however the exploration went.                               *)
LEMMA TrainStepProperties ==
  ASSUME TypeOK, TrainStep
  PROVE  \E record \in Losing, after \in Models :
           /\ model' = after /\ trail' = Append(trail, [loss |-> record, at |-> State(after)])
           /\ low' = IF Below(record, low) THEN record ELSE low
           /\ best' = IF Below(record, low) THEN State(after) ELSE best
           /\ pc' = IF Below(record, low) THEN <<"best", "weights">> ELSE Loop
           /\ pc = Loop
           /\ after.adamT = model.adamT + 1
           /\ cfg.lora => after.params = model.params
           /\ model.dev = model.params => after.dev = after.params
           /\ UNCHANGED <<weights, adam, cfg, started, handle, torn, runs>> /\ made' = made + 3
<1>1. PICK loss, baseline \in Losses \cup {NaN}, losses \in [Population -> Losses \cup {NaN}] :
         \E fittest \in Fittest(losses) :
           LET keep == NoWorse(losses, baseline)
               stepped == Step(model, 1, made + 1)
               after == IF cfg.es THEN Explored(stepped, keep, made + 2) ELSE stepped
               record == RecordLoss(loss, losses[fittest], keep)
               better == Below(record, low) IN
           /\ ~cfg.es => baseline = loss /\ losses = [i \in Population |-> loss]
           /\ model' = after
           /\ trail' = Append(trail, [loss |-> record, at |-> State(after)])
           /\ low'  = IF better THEN record ELSE low
           /\ best' = IF better THEN State(after) ELSE best
           /\ pc'   = IF better THEN <<"best", "weights">> ELSE Loop
  BY DEF TrainStep
<1>2. PICK fittest \in Fittest(losses) :
           LET keep == NoWorse(losses, baseline)
               stepped == Step(model, 1, made + 1)
               after == IF cfg.es THEN Explored(stepped, keep, made + 2) ELSE stepped
               record == RecordLoss(loss, losses[fittest], keep)
               better == Below(record, low) IN
           /\ ~cfg.es => baseline = loss /\ losses = [i \in Population |-> loss]
           /\ model' = after
           /\ trail' = Append(trail, [loss |-> record, at |-> State(after)])
           /\ low'  = IF better THEN record ELSE low
           /\ best' = IF better THEN State(after) ELSE best
           /\ pc'   = IF better THEN <<"best", "weights">> ELSE Loop
  BY <1>1
<1>. DEFINE kept == NoWorse(losses, baseline)
            stepped == Step(model, 1, made + 1)
            after == IF cfg.es THEN Explored(stepped, kept, made + 2) ELSE stepped
            recorded == RecordLoss(loss, losses[fittest], kept)
<1>3. recorded \in Losing
  <2>1. losses[fittest] \in Losing
    BY DEF Fittest, Losing
  <2>. QED
    BY <2>1 DEF RecordLoss, MinLoss, Losing
<1>4. kept \in BOOLEAN /\ made + 1 \in Nat /\ made + 2 \in Nat /\ model \in Models
  BY DEF NoWorse, TypeOK
<1>5. /\ stepped \in Models /\ stepped.adamT = model.adamT + 1
      /\ cfg.lora => stepped.params = model.params
      /\ model.dev = model.params => stepped.dev = stepped.params
  BY <1>4, StepProperties
<1>6. /\ after \in Models /\ after.adamT = model.adamT + 1
      /\ cfg.lora => after.params = model.params
      /\ model.dev = model.params => after.dev = after.params
  <2>. DEFINE explored == Explored(stepped, kept, made + 2)
  <2>1. /\ explored \in Models /\ explored.adamT = stepped.adamT
        /\ cfg.lora => explored.params = stepped.params
        /\ stepped.dev = stepped.params => explored.dev = explored.params
    BY SMTT(30), <1>4, <1>5, ExploredProperties
  <2>. HIDE DEF stepped, kept, explored
  <2>. QED
    BY <1>5, <2>1 DEF explored
<1>7. /\ pc = Loop /\ made' = made + 3
      /\ UNCHANGED <<weights, adam, cfg, started, handle, torn, runs>>
  BY DEF TrainStep, disk
<1>8. /\ model' = after
      /\ trail' = Append(trail, [loss |-> recorded, at |-> State(after)])
      /\ low'  = IF Below(recorded, low) THEN recorded ELSE low
      /\ best' = IF Below(recorded, low) THEN State(after) ELSE best
      /\ pc'   = IF Below(recorded, low) THEN <<"best", "weights">> ELSE Loop
  BY <1>2
<1>. HIDE DEF recorded, kept, after
<1>. QED
  BY <1>3, <1>6, <1>7, <1>8

-----------------------------------------------------------------------------
(* Every step keeps files, models, snapshots and records well typed.         *)
LEMMA TypeStep == IInv /\ [Next]_vars => TypeOK'
<1>. SUFFICES ASSUME TypeOK, BestPersisted, [Next]_vars PROVE TypeOK'
  BY DEF IInv
<1>. USE CheckpointAssumption DEF disk, run
<1>1. ASSUME NEW c \in Configs, Start(c) PROVE TypeOK'
  <2>1. model' \in Models /\ started' \in Models
    BY <1>1, WarmStartProperties DEF Start
  <2>2. pc' = Loop /\ runs' \in 0..MaxRuns /\ made' \in Nat
    BY <1>1 DEF Start, TypeOK
  <2>3. best' = None /\ low' \in 0..Infinity /\ trail' = <<>>
    BY <1>1 DEF Start, Infinity
  <2>. QED
    BY <1>1, <2>1, <2>2, <2>3 DEF Start, TypeOK, Loop
<1>2. CASE TrainStep
  <2>1. PICK record \in Losing, after \in Models :
           /\ model' = after /\ trail' = Append(trail, [loss |-> record, at |-> State(after)])
           /\ low' = IF Below(record, low) THEN record ELSE low
           /\ best' = IF Below(record, low) THEN State(after) ELSE best
           /\ pc' = IF Below(record, low) THEN <<"best", "weights">> ELSE Loop
           /\ pc = Loop
           /\ UNCHANGED <<weights, adam, cfg, started, handle, torn, runs>> /\ made' = made + 3
    BY <1>2, TrainStepProperties
  <2>2. State(after) \in States
    BY SnapshotType
  <2>3. trail' \in Seq([loss : Losing, at : States])
    BY <2>1, <2>2, AppendProperties DEF TypeOK
  <2>4. low' \in 0..Infinity /\ best' \in States \cup {None}
    BY <2>1, <2>2 DEF TypeOK, Losing, Below, NaN, Infinity
  <2>5. pc' \in {Idle, Loop} \cup (Kinds \X {"weights", "adam"}) /\ cfg' \in Configs
    BY <2>1 DEF TypeOK, Kinds, Idle, Loop
  <2>6. made' \in Nat /\ runs' \in 0..MaxRuns
    BY <2>1 DEF TypeOK
  <2>. QED
    BY <2>1, <2>3, <2>4, <2>5, <2>6 DEF TypeOK
<1>3. CASE EndLoop
  BY <1>3 DEF EndLoop, TypeOK, Idle, Loop, Kinds
<1>4. CASE CutShort
  BY <1>4 DEF CutShort, TypeOK, Idle, NoModel, Models
<1>5. CASE Reset
  BY <1>5 DEF Reset, TypeOK
<1>6. ASSUME NEW k \in Kinds, RenameWeights(k) PROVE TypeOK'
  <2>1. pc # Idle /\ pc[1] = k /\ FinalWeights = Final
    BY <1>6 DEF RenameWeights, Idle, FinalWeights
  <2>2. Written(k, Final) \in File
    BY <1>6, <2>1, SnapshotType DEF BestPersisted, RenameWeights
  <2>. QED
    BY <1>6, <2>1, <2>2 DEF RenameWeights, TypeOK, Idle
<1>7. ASSUME NEW k \in Kinds, RenameAdam(k) PROVE TypeOK'
  <2>1. pc # Idle /\ pc[1] = k /\ FinalState = Final
    BY <1>7 DEF RenameAdam, Idle, FinalState
  <2>2. Written(k, Final) \in File
    BY <1>7, <2>1, SnapshotType DEF BestPersisted, RenameAdam
  <2>. QED
    BY <1>7, <2>1, <2>2 DEF RenameAdam, TypeOK, Idle
<1>8. CASE UNCHANGED vars
  BY <1>8 DEF vars, TypeOK
<1>. QED
  BY <1>1, <1>2, <1>3, <1>4, <1>5, <1>6, <1>7, <1>8 DEF Next

(* The two files of a name are replaced together, or the name is torn.       *)
LEMMA FilesStep == IInv /\ [Next]_vars => PairsMatch' /\ HalfRenamed'
<1>. SUFFICES ASSUME TypeOK, PairsMatch, HalfRenamed, [Next]_vars
              PROVE  PairsMatch' /\ HalfRenamed'
  BY DEF IInv
<1>. USE DEF disk, run, TypeOK, PairsMatch, HalfRenamed, Idle, Loop, Kinds
<1>1. ASSUME NEW c \in Configs, Start(c) PROVE PairsMatch' /\ HalfRenamed'
  BY <1>1 DEF Start
<1>2. CASE TrainStep
  BY <1>2 DEF TrainStep
<1>3. CASE EndLoop
  BY <1>3 DEF EndLoop
<1>4. CASE CutShort
  BY <1>4 DEF CutShort
<1>5. CASE Reset
  BY <1>5 DEF Reset
<1>6. ASSUME NEW k \in Kinds, RenameWeights(k) PROVE PairsMatch' /\ HalfRenamed'
  BY <1>6 DEF RenameWeights, FinalWeights, Written, Final
<1>7. ASSUME NEW k \in Kinds, RenameAdam(k) PROVE PairsMatch' /\ HalfRenamed'
  BY <1>7 DEF RenameAdam, FinalState, Written
<1>8. CASE UNCHANGED vars
  BY <1>8 DEF vars, Written, Final
<1>. QED
  BY <1>1, <1>2, <1>3, <1>4, <1>5, <1>6, <1>7, <1>8 DEF Next

(* A step of the optimizer is counted once and mirrored, and nothing else    *)
(* touches the model of a run.                                               *)
LEMMA CoherentStep == IInv /\ [Next]_vars => RunCoherent'
<1>. SUFFICES ASSUME TypeOK, RunCoherent, [Next]_vars PROVE RunCoherent'
  BY DEF IInv
<1>. USE DEF run, RunCoherent
<1>1. ASSUME NEW c \in Configs, Start(c) PROVE RunCoherent'
  <2>1. WarmStart(c) \in Models /\ WarmStart(c).dev = WarmStart(c).params
    BY WarmStartProperties
  <2>. QED
    BY <1>1, <2>1 DEF Start, Models
<1>2. CASE TrainStep
  <2>1. PICK record \in Losing, after \in Models :
           /\ model' = after /\ trail' = Append(trail, [loss |-> record, at |-> State(after)])
           /\ low' = IF Below(record, low) THEN record ELSE low
           /\ best' = IF Below(record, low) THEN State(after) ELSE best
           /\ pc' = IF Below(record, low) THEN <<"best", "weights">> ELSE Loop
           /\ pc = Loop
           /\ after.adamT = model.adamT + 1
           /\ cfg.lora => after.params = model.params
           /\ model.dev = model.params => after.dev = after.params
           /\ UNCHANGED <<weights, adam, cfg, started, handle, torn, runs>> /\ made' = made + 3
    BY <1>2, TrainStepProperties
  <2>2. Len(trail') = Len(trail) + 1 /\ Len(trail) \in Nat
    BY <2>1, AppendProperties DEF TypeOK
  <2>3. pc # Idle /\ model.adamT \in Nat /\ started.adamT \in Nat
    BY <2>1 DEF TypeOK, Models, Idle, Loop
  <2>4. model'.dev = model'.params /\ (cfg'.lora => model'.params = started'.params)
    BY <2>1, <2>3, Zenon
  <2>5. model'.adamT = started'.adamT + Len(trail')
    <3>1. model'.adamT = model.adamT + 1 /\ started' = started
      BY <2>1, Zenon
    <3>2. model.adamT = started.adamT + Len(trail)
      BY <2>3
    <3>. QED
      BY <2>2, <2>3, <3>1, <3>2
  <2>. QED
    BY <2>4, <2>5
<1>3. CASE EndLoop
  BY <1>3 DEF EndLoop, Idle, Loop
<1>4. CASE CutShort
  BY <1>4 DEF CutShort
<1>5. CASE Reset
  BY <1>5 DEF Reset
<1>6. ASSUME NEW k \in Kinds, RenameWeights(k) PROVE RunCoherent'
  BY <1>6 DEF RenameWeights, Idle
<1>7. ASSUME NEW k \in Kinds, RenameAdam(k) PROVE RunCoherent'
  BY <1>7 DEF RenameAdam, Idle
<1>8. CASE UNCHANGED vars
  BY <1>8 DEF vars
<1>. QED
  BY <1>1, <1>2, <1>3, <1>4, <1>5, <1>6, <1>7, <1>8 DEF Next

(* What the record of a run gains by a step.                                 *)
LEMMA AppendedStep ==
  ASSUME TypeOK, NEW record \in Losing, NEW at \in States,
         trail' = Append(trail, [loss |-> record, at |-> at])
  PROVE  LET n == Len(trail) + 1 IN
         /\ Len(trail') = n /\ trail' # <<>> /\ trail'[n].at = at /\ trail'[n].loss = record
         /\ n \notin DOMAIN trail /\ n \in DOMAIN trail'
         /\ \A i \in DOMAIN trail : trail'[i] = trail[i]
         /\ FiniteSteps' = IF record = NaN THEN FiniteSteps ELSE FiniteSteps \cup {n}
<1>1. Len(trail) \in Nat /\ DOMAIN trail = 1..Len(trail)
  BY DEF TypeOK
<1>2. /\ Len(trail') = Len(trail) + 1
      /\ \A i \in 1..Len(trail) : trail'[i] = trail[i]
      /\ trail'[Len(trail) + 1] = [loss |-> record, at |-> at]
      /\ DOMAIN trail' = 1..(Len(trail) + 1)
  <2>1. [loss |-> record, at |-> at] \in [loss : Losing, at : States]
    OBVIOUS
  <2>. QED
    BY <2>1, AppendProperties DEF TypeOK
<1>3. DOMAIN trail' = DOMAIN trail \cup {Len(trail) + 1}
  BY <1>1, <1>2
<1>4. FiniteSteps' = { i \in DOMAIN trail \cup {Len(trail) + 1} : trail'[i].loss # NaN }
  BY <1>3 DEF FiniteSteps
<1>. QED
  BY <1>1, <1>2, <1>3, <1>4 DEF FiniteSteps

(* A step with a finite loss has one below Infinity, and a snapshot.          *)
LEMMA RecordedLoss ==
  ASSUME TypeOK
  PROVE  \A i \in FiniteSteps : trail[i].loss \in 0..(Infinity - 1) /\ trail[i].at \in States
<1>. TAKE i \in FiniteSteps
<1>1. trail[i] \in [loss : Losing, at : States] /\ trail[i].loss # NaN
  <2>1. trail \in Seq([loss : Losing, at : States]) /\ i \in DOMAIN trail /\ trail[i].loss # NaN
    BY DEF TypeOK, FiniteSteps
  <2>. QED
    BY <2>1, ElementOfSeq, LenProperties
<1>2. trail[i].loss \in Losses /\ trail[i].at \in States
  BY <1>1 DEF Losing
<1>. QED
  BY <1>2, CheckpointAssumption

(* What a run keeps is a step with the lowest loss recorded so far.          *)
LEMMA BestStep == IInv /\ [Next]_vars => BestSoFar'
<1>. SUFFICES ASSUME TypeOK, BestSoFar, [Next]_vars PROVE BestSoFar'
  BY DEF IInv
<1>1. ASSUME NEW c \in Configs, Start(c) PROVE BestSoFar'
  BY <1>1 DEF BestSoFar, Start, FiniteSteps
<1>2. CASE TrainStep
  <2>1. PICK record \in Losing, after \in Models :
           /\ model' = after /\ trail' = Append(trail, [loss |-> record, at |-> State(after)])
           /\ low' = IF Below(record, low) THEN record ELSE low
           /\ best' = IF Below(record, low) THEN State(after) ELSE best
           /\ pc' = IF Below(record, low) THEN <<"best", "weights">> ELSE Loop
           /\ pc = Loop
           /\ UNCHANGED handle
    BY <1>2, TrainStepProperties
  <2>. DEFINE n == Len(trail) + 1
  <2>2. State(after) \in States
    BY SnapshotType
  <2>3. /\ Len(trail') = n /\ trail' # <<>> /\ trail'[n].at = State(after)
        /\ trail'[n].loss = record /\ n \notin DOMAIN trail
        /\ \A i \in DOMAIN trail : trail'[i] = trail[i]
        /\ FiniteSteps' = IF record = NaN THEN FiniteSteps ELSE FiniteSteps \cup {n}
    BY <2>1, <2>2, AppendedStep
  <2>4. pc # Idle
    BY <2>1 DEF Idle, Loop
  <2>. HIDE DEF n
  <2>5. handle' = None /\ trail'[Len(trail')].at = State(model')
    BY <2>1, <2>3, <2>4 DEF BestSoFar
  <2>6. /\ \A i \in FiniteSteps : trail[i].loss \in 0..(Infinity - 1) /\ trail'[i] = trail[i]
        /\ record # NaN => record \in 0..(Infinity - 1)
        /\ low \in 0..Infinity /\ low \in Int
        /\ record \in Int /\ \A i \in FiniteSteps : trail[i].loss \in Int
    <3>1. Losses \subseteq 0..(Infinity - 1) /\ record \in Losses \cup {NaN}
      BY CheckpointAssumption DEF Losing
    <3>2. (record # NaN => record \in 0..(Infinity - 1)) /\ record \in Int
      BY <3>1 DEF NaN
    <3>3. low \in 0..Infinity /\ low \in Int
      BY DEF TypeOK
    <3>4. \A i \in FiniteSteps : trail[i].loss \in 0..(Infinity - 1) /\ trail[i].loss \in Int
      BY RecordedLoss
    <3>5. \A i \in FiniteSteps : trail'[i] = trail[i]
      BY <2>3 DEF FiniteSteps
    <3>. QED
      BY <3>2, <3>3, <3>4, <3>5
  <2>7. CASE record = NaN
    <3>1. low' = low /\ best' = best /\ FiniteSteps' = FiniteSteps
      BY <2>1, <2>3, <2>7 DEF Below
    <3>. QED
      BY <2>3, <2>4, <2>5, <2>6, <3>1 DEF BestSoFar
  <2>8. CASE record # NaN /\ record < low
    <3>1. low' = record /\ best' = State(after) /\ FiniteSteps' = FiniteSteps \cup {n}
      BY <2>1, <2>3, <2>6, <2>8 DEF Below, NaN
    <3>2. \A j \in FiniteSteps : record <= trail'[j].loss
      <4>1. \A j \in FiniteSteps : low <= trail[j].loss
        BY <2>4 DEF BestSoFar
      <4>. QED
        BY <2>6, <2>8, <4>1
    <3>3. record <= trail'[n].loss
      BY <2>3, <2>6
    <3>4. \E i \in FiniteSteps' :
            /\ best' = trail'[i].at /\ low' = trail'[i].loss
            /\ \A j \in FiniteSteps' : trail'[i].loss <= trail'[j].loss
      <4>1. n \in FiniteSteps' /\ best' = trail'[n].at /\ low' = trail'[n].loss
        BY <2>3, <3>1
      <4>2. \A j \in FiniteSteps' : trail'[n].loss <= trail'[j].loss
        BY <2>3, <3>1, <3>2, <3>3
      <4>. QED
        BY <4>1, <4>2
    <3>. QED
      BY <2>3, <2>5, <3>1, <3>4 DEF BestSoFar
  <2>9. CASE record # NaN /\ ~(record < low)
    <3>1. low' = low /\ best' = best /\ FiniteSteps' = FiniteSteps \cup {n}
      BY <2>1, <2>3, <2>9 DEF Below
    <3>2. low # Infinity
      BY <2>6, <2>9 DEF Infinity
    <3>3. PICK i \in FiniteSteps :
            /\ best = trail[i].at /\ low = trail[i].loss
            /\ \A j \in FiniteSteps : trail[i].loss <= trail[j].loss
      BY <2>4, <3>2 DEF BestSoFar
    <3>4. trail'[i].loss <= trail'[n].loss
      <4>1. trail'[i].loss = low /\ trail'[n].loss = record
        BY <2>3, <2>6, <3>3
      <4>. QED
        BY <2>6, <2>9, <4>1
    <3>5. \E m \in FiniteSteps' :
            /\ best' = trail'[m].at /\ low' = trail'[m].loss
            /\ \A j \in FiniteSteps' : trail'[m].loss <= trail'[j].loss
      <4>1. i \in FiniteSteps' /\ best' = trail'[i].at /\ low' = trail'[i].loss
        BY <2>6, <3>1, <3>3
      <4>2. \A j \in FiniteSteps' : trail'[i].loss <= trail'[j].loss
        BY <2>6, <3>1, <3>3, <3>4
      <4>. QED
        BY <4>1, <4>2
    <3>. QED
      BY <2>3, <2>5, <3>1, <3>5 DEF BestSoFar
  <2>. QED
    BY <2>7, <2>8, <2>9
<1>3. CASE EndLoop
  BY <1>3 DEF BestSoFar, EndLoop, run, FiniteSteps, Idle, Loop
<1>4. CASE CutShort
  BY <1>4 DEF BestSoFar, CutShort
<1>5. CASE Reset
  BY <1>5 DEF BestSoFar, Reset
<1>6. ASSUME NEW k \in Kinds, RenameWeights(k) PROVE BestSoFar'
  BY <1>6 DEF BestSoFar, RenameWeights, run, FiniteSteps, Idle
<1>7. ASSUME NEW k \in Kinds, RenameAdam(k) PROVE BestSoFar'
  BY <1>7 DEF BestSoFar, RenameAdam, run, FiniteSteps, Idle
<1>8. CASE UNCHANGED vars
  BY <1>8 DEF BestSoFar, vars, run, FiniteSteps
<1>. QED
  BY <1>1, <1>2, <1>3, <1>4, <1>5, <1>6, <1>7, <1>8 DEF Next

(* A best that is kept in memory is written to the best.* files.             *)
LEMMA PersistedStep == IInv /\ [Next]_vars => BestPersisted'
<1>. SUFFICES ASSUME TypeOK, HalfRenamed, BestPersisted, [Next]_vars PROVE BestPersisted'
  BY DEF IInv
<1>. USE DEF disk, run, BestPersisted, Idle, Loop, Kinds
<1>1. ASSUME NEW c \in Configs, Start(c) PROVE BestPersisted'
  BY <1>1 DEF Start
<1>2. CASE TrainStep
  <2>1. PICK record \in Losing, after \in Models :
           /\ model' = after /\ trail' = Append(trail, [loss |-> record, at |-> State(after)])
           /\ low' = IF Below(record, low) THEN record ELSE low
           /\ best' = IF Below(record, low) THEN State(after) ELSE best
           /\ pc' = IF Below(record, low) THEN <<"best", "weights">> ELSE Loop
           /\ pc = Loop
           /\ UNCHANGED <<weights, cfg>>
    BY <1>2, TrainStepProperties
  <2>2. State(after) # None
    BY SnapshotType, CheckpointAssumption DEF States
  <2>. QED
    BY <2>1, <2>2
<1>3. CASE EndLoop
  BY <1>3 DEF EndLoop
<1>4. CASE CutShort
  BY <1>4 DEF CutShort
<1>5. CASE Reset
  BY <1>5 DEF Reset
<1>6. ASSUME NEW k \in Kinds, RenameWeights(k) PROVE BestPersisted'
  BY <1>6 DEF RenameWeights, TypeOK
<1>7. ASSUME NEW k \in Kinds, RenameAdam(k) PROVE BestPersisted'
  BY <1>7 DEF RenameAdam, HalfRenamed, Written
<1>8. CASE UNCHANGED vars
  BY <1>8 DEF vars
<1>. QED
  BY <1>1, <1>2, <1>3, <1>4, <1>5, <1>6, <1>7, <1>8 DEF Next

(* A run that ends leaves its best step in the slot, the best.* pair and its *)
(* handle.                                                                   *)
LEMMA ShippedStep == IInv /\ [Next]_vars => BestIsShipped'
<1>. SUFFICES ASSUME IInv, [Next]_vars PROVE BestIsShipped'
  OBVIOUS
<1>1. ASSUME RenameAdam("slot") PROVE BestIsShipped'
  <2>1. /\ pc = <<"slot", "adam">> /\ pc # Idle /\ "slot" \in Kinds
        /\ UNCHANGED <<weights, run>>
        /\ adam'["slot"] = Written("slot", Final)
        /\ handle' = [cfg |-> cfg, params |-> Final.params, lora |-> FinalLora]
    BY <1>1 DEF RenameAdam, FinalWeights, FinalState, Kinds, Idle, IInv, TypeOK
  <2>2. weights["slot"] = [cfg |-> cfg, at |-> Final]
    BY <2>1 DEF IInv, HalfRenamed, Written
  <2>3. FinalLora = Final.lora
    BY DEF FinalLora, Final, State
  <2>4. handle'.params = weights'["slot"].at.params /\ handle'.lora = adam'["slot"].at.lora
    BY <2>1, <2>2, <2>3 DEF Written
  <2>5. FiniteSteps' = FiniteSteps /\ trail' = trail /\ started' = started
    BY <2>1 DEF FiniteSteps, run
  <2>6. ASSUME FiniteSteps = {} PROVE Final = State(model)
    BY <2>1, <2>6 DEF IInv, BestSoFar, Final
  <2>7. ASSUME FiniteSteps # {}
        PROVE  \E i \in FiniteSteps :
                 /\ Final = trail[i].at /\ weights["best"] = weights["slot"]
                 /\ \A j \in FiniteSteps : trail[i].loss <= trail[j].loss
    <3>1. PICK i \in FiniteSteps :
            /\ best = trail[i].at
            /\ \A j \in FiniteSteps : trail[i].loss <= trail[j].loss
      BY <2>1, <2>7 DEF IInv, BestSoFar
    <3>2. best # None
      BY <3>1, RecordedLoss, CheckpointAssumption DEF IInv, States
    <3>3. weights["best"] = [cfg |-> cfg, at |-> best] /\ Final = best
      BY <2>1, <3>2 DEF IInv, BestPersisted, Final
    <3>. QED
      BY <2>2, <3>1, <3>3
  <2>8. /\ FiniteSteps = {} /\ trail # <<>> => Final = trail[Len(trail)].at
        /\ trail = <<>> => Final = State(started)
    <3>1. trail = <<>> => FiniteSteps = {}
      BY DEF FiniteSteps
    <3>. QED
      BY <2>1, <2>6, <3>1 DEF IInv, BestSoFar
  <2>. QED
    BY <2>1, <2>2, <2>4, <2>5, <2>7, <2>8 DEF BestIsShipped, FiniteSteps
<1>2. CASE pc' # Idle \/ handle' = None
  BY <1>2 DEF BestIsShipped
<1>3. CASE UNCHANGED vars
  BY <1>3 DEF BestIsShipped, vars, disk, run, IInv
<1>4. ASSUME NEW c \in Configs, Start(c) PROVE BestIsShipped'
  BY <1>2, <1>4 DEF Start
<1>5. ASSUME TrainStep \/ EndLoop PROVE BestIsShipped'
  <2>1. TrainStep => pc' \in {<<"best", "weights">>, Loop}
    BY TrainStepProperties DEF IInv
  <2>. QED
    BY <1>2, <1>5, <2>1 DEF EndLoop, Idle, Loop
<1>6. ASSUME CutShort \/ Reset PROVE BestIsShipped'
  BY <1>2, <1>6 DEF CutShort, Reset, IInv, BestSoFar
<1>7. ASSUME NEW k \in Kinds, RenameWeights(k) \/ RenameAdam("best") PROVE BestIsShipped'
  BY <1>2, <1>7 DEF RenameWeights, RenameAdam, Idle, Loop
<1>. QED
  BY <1>1, <1>3, <1>4, <1>5, <1>6, <1>7 DEF Next, Kinds

-----------------------------------------------------------------------------
(* What is exported is found again, whatever the sizes: a fact about Layout. *)
(* It goes by induction on the places in a table.                            *)

(* A set of naturals that is not empty has a least element. *)
LEMMA LeastNatural ==
  ASSUME NEW T, T \subseteq Nat, T # {}
  PROVE \E x \in T : \A y \in T : x <= y
<1>1. IsWellFoundedOn(OpToRel(<, Nat), Nat)
  BY NatLessThanWellFounded
<1>2. PICK R : R = OpToRel(<, Nat)
  OBVIOUS
<1>3. \E x \in T : \A y \in T : ~ (<<y, x>> \in R)
  BY <1>1, <1>2, WFMin
<1>4. \A x, y \in Nat : y < x => <<y, x>> \in R
  BY <1>2 DEF OpToRel
<1>5. PICK x \in T : \A y \in T : ~ (<<y, x>> \in R)
  BY <1>3
<1>6. \A y \in T : x <= y
  <2>. TAKE y \in T
  <2>1. ~(y < x)
    BY <1>4, <1>5
  <2>2. x \in Nat /\ y \in Nat
    OBVIOUS
  <2>. QED
    BY <2>1, <2>2
<1>. QED
  BY <1>6

(* Hence what holds of 0 and passes from each number to the next up to n     *)
(* holds up to n.                                                            *)
LEMMA UpTo ==
  ASSUME NEW n \in Nat, NEW S, 0 \in S, \A i \in 0..n : i < n /\ i \in S => i + 1 \in S
  PROVE  0..n \subseteq S
<1>. DEFINE T == { i \in 0..n : i \notin S }
<1>1. SUFFICES ASSUME T # {} PROVE FALSE
  OBVIOUS
<1>2. PICK x \in T : \A y \in T : x <= y
  <2>1. T \subseteq Nat
    OBVIOUS
  <2>. HIDE DEF T
  <2>. QED
    BY <1>1, <2>1, LeastNatural
<1>3. x \in 1..n
  OBVIOUS
<1>4. x - 1 \in 0..n /\ x - 1 < n /\ x - 1 < x
  BY <1>3
<1>5. x - 1 \in S
  BY <1>2, <1>4
<1>6. (x - 1) + 1 \in S
  BY <1>4, <1>5
<1>. QED
  BY <1>3, <1>6

(* Ends(..., k, f): f has the ends of the first k pieces.  There is such an  *)
(* f, so that laying pieces does what its recursive definition says.         *)
Ends(first, sizes, align, k, f) ==
  f = [i \in 0..k |-> IF i = 0 THEN first ELSE RoundUp(f[i-1] + sizes[i], align)]

LEMMA EndsExist ==
  ASSUME NEW n \in Nat, NEW first, NEW sizes, NEW align
  PROVE  \E f : Ends(first, sizes, align, n, f)
<1>. DEFINE S == { k \in 0..n : \E f : Ends(first, sizes, align, k, f) }
<1>1. 0 \in S
  <2>1. Ends(first, sizes, align, 0, [i \in 0..0 |-> first])
    BY DEF Ends
  <2>. QED
    BY <2>1
<1>2. ASSUME NEW k \in 0..n, k < n, k \in S PROVE k + 1 \in S
  <2>1. PICK f : Ends(first, sizes, align, k, f)
    BY <1>2
  <2>2. PICK v : v = RoundUp(f[k] + sizes[k+1], align)
    OBVIOUS
  <2>. DEFINE g == [i \in 0..(k+1) |-> IF i = k + 1 THEN v ELSE f[i]]
  <2>3. \A i \in 0..(k+1) : g[i] = IF i = 0 THEN first ELSE RoundUp(g[i-1] + sizes[i], align)
    <3>. TAKE i \in 0..(k+1)
    <3>1. CASE i = 0
      BY <2>1, <3>1 DEF Ends
    <3>2. CASE i = k + 1
      <4>1. g[i] = v /\ g[k] = f[k] /\ i - 1 = k
        BY <3>2
      <4>. QED
        BY <2>2, <3>2, <4>1
    <3>3. CASE i \in 1..k
      <4>1. g[i] = f[i] /\ g[i-1] = f[i-1] /\ i # 0
        BY <3>3
      <4>2. f[i] = RoundUp(f[i-1] + sizes[i], align)
        BY <2>1, <3>3 DEF Ends
      <4>. QED
        BY <4>1, <4>2
    <3>. QED
      BY <3>1, <3>2, <3>3
  <2>4. Ends(first, sizes, align, k + 1, g)
    BY <2>3, Zenon DEF Ends
  <2>5. k + 1 \in 0..n
    BY <1>2
  <2>. HIDE DEF g
  <2>. QED
    BY <2>4, <2>5
<1>3. n \in S
  <2>. HIDE DEF S
  <2>1. 0..n \subseteq S
    BY <1>1, <1>2, UpTo
  <2>. QED
    BY <2>1
<1>. QED
  BY <1>3

(* Each piece ends where the one before it ends plus its size, rounded up.   *)
LEMMA LaidSteps ==
  ASSUME NEW sizes \in Seq(Nat), NEW first, NEW align
  PROVE  /\ Laid(first, sizes, align)[0] = first
         /\ \A i \in 1..Len(sizes) :
              Laid(first, sizes, align)[i]
                = RoundUp(Laid(first, sizes, align)[i-1] + sizes[i], align)
<1>. DEFINE e == Laid(first, sizes, align)
<1>0. Len(sizes) \in Nat
  OBVIOUS
<1>1. e = CHOOSE f : Ends(first, sizes, align, Len(sizes), f)
  BY Zenon DEF Laid, Ends
<1>2. \E f : Ends(first, sizes, align, Len(sizes), f)
  BY <1>0, EndsExist
<1>3. Ends(first, sizes, align, Len(sizes), e)
  BY <1>1, <1>2, Zenon
<1>. HIDE DEF e
<1>4. /\ e[0] = first
      /\ \A i \in 1..Len(sizes) : e[i] = RoundUp(e[i-1] + sizes[i], align)
  <2>. DEFINE n == Len(sizes)
  <2>1. n \in Nat /\ e = [i \in 0..n |-> IF i = 0 THEN first ELSE RoundUp(e[i-1] + sizes[i], align)]
    BY <1>0, <1>3, Zenon DEF Ends
  <2>. HIDE DEF n
  <2>2. 0 \in 0..n /\ \A i \in 1..n : i \in 0..n /\ i # 0
    BY <2>1
  <2>3. e[0] = first /\ \A i \in 1..n : e[i] = RoundUp(e[i-1] + sizes[i], align)
    BY <2>1, <2>2, Zenon
  <2>. QED
    BY <2>3 DEF n
<1>. QED
  BY <1>4 DEF e

-----------------------------------------------------------------------------
(* Rounding: to one is nothing, and a multiple can be taken out of it.       *)
LEMMA RoundUpToOne ==
  ASSUME NEW n \in Nat
  PROVE  RoundUp(n, 1) = n
BY DEF RoundUp

LEMMA RoundUpAdds ==
  ASSUME NEW a \in Nat, NEW b \in Nat
  PROVE  /\ RoundUp(a, Alignment) \in Nat
         /\ RoundUp(RoundUp(a, Alignment) + b, Alignment)
              = RoundUp(a, Alignment) + RoundUp(b, Alignment)
<1>1. PICK q \in Nat : q = (a + 32 - 1) \div 32
  OBVIOUS
<1>2. RoundUp(a, Alignment) = q * 32
  BY <1>1 DEF RoundUp, Alignment
<1>3. RoundUp(q * 32 + b, Alignment) = q * 32 + RoundUp(b, Alignment)
  <2>1. (q * 32 + b + 32 - 1) \div 32 = q + ((b + 32 - 1) \div 32)
    OBVIOUS
  <2>2. PICK p \in Nat : p = (b + 32 - 1) \div 32
    OBVIOUS
  <2>. QED
    BY <2>1, <2>2 DEF RoundUp, Alignment
<1>. QED
  BY <1>2, <1>3

(* Without padding the ends are the sums of the sizes. *)
LEMMA LaidSums ==
  ASSUME NEW sizes \in Seq(Nat)
  PROVE  LET e == Laid(0, sizes, 1) IN
         /\ e[0] = 0
         /\ \A i \in 0..Len(sizes) : e[i] \in Nat
         /\ \A i \in 1..Len(sizes) : e[i] = e[i-1] + sizes[i]
<1>. DEFINE S == { i \in 0..Len(sizes) : Laid(0, sizes, 1)[i] \in Nat }
<1>1. PICK e : e = Laid(0, sizes, 1)
  OBVIOUS
<1>2. e[0] = 0 /\ \A i \in 1..Len(sizes) : e[i] = RoundUp(e[i-1] + sizes[i], 1)
  BY <1>1, LaidSteps
<1>3. Len(sizes) \in Nat /\ \A i \in 1..Len(sizes) : sizes[i] \in Nat
  OBVIOUS
<1>4. ASSUME NEW i \in 1..Len(sizes), e[i-1] \in Nat
      PROVE  e[i] \in Nat /\ e[i] = e[i-1] + sizes[i]
  <2>1. e[i-1] + sizes[i] \in Nat
    BY <1>3, <1>4
  <2>2. RoundUp(e[i-1] + sizes[i], 1) = e[i-1] + sizes[i]
    BY <2>1, RoundUpToOne
  <2>. QED
    BY <1>2, <2>1, <2>2
<1>5. 0..Len(sizes) \subseteq S
  <2>1. 0 \in S
    BY <1>1, <1>2, <1>3
  <2>2. ASSUME NEW i \in 0..Len(sizes), i < Len(sizes), i \in S PROVE i + 1 \in S
    <3>1. i + 1 \in 1..Len(sizes) /\ i + 1 \in 0..Len(sizes) /\ (i + 1) - 1 = i
      BY <1>3, <2>2
    <3>. QED
      BY <1>1, <1>4, <2>2, <3>1
  <2>. HIDE DEF S
  <2>. QED
    BY <1>3, <2>1, <2>2, UpTo
<1>6. \A i \in 0..Len(sizes) : e[i] \in Nat
  BY <1>1, <1>5
<1>7. \A i \in 1..Len(sizes) : i - 1 \in 0..Len(sizes)
  BY <1>3
<1>. QED
  BY <1>1, <1>2, <1>4, <1>6, <1>7

(* With padding everything moves with the place of the first. *)
LEMMA LaidMoves ==
  ASSUME NEW sizes \in Seq(Nat), NEW header \in Nat, NEW i \in 0..Len(sizes)
  PROVE  Laid(RoundUp(header, Alignment), sizes, Alignment)[i]
           = RoundUp(header, Alignment) + Laid(0, sizes, Alignment)[i]
<1>1. PICK a, w, o : /\ a = RoundUp(header, Alignment)
                     /\ w = Laid(RoundUp(header, Alignment), sizes, Alignment)
                     /\ o = Laid(0, sizes, Alignment)
  OBVIOUS
<1>2. a \in Nat
  BY <1>1, RoundUpAdds
<1>. DEFINE n == Len(sizes)
            S == { k \in 0..n : o[k] \in Nat /\ w[k] = a + o[k] }
<1>3. n \in Nat /\ \A k \in 1..n : sizes[k] \in Nat
  OBVIOUS
<1>4. /\ w[0] = a /\ o[0] = 0
      /\ \A k \in 1..n : w[k] = RoundUp(w[k-1] + sizes[k], Alignment)
      /\ \A k \in 1..n : o[k] = RoundUp(o[k-1] + sizes[k], Alignment)
  <2>1. /\ w[0] = a
        /\ \A k \in 1..n : w[k] = RoundUp(w[k-1] + sizes[k], Alignment)
    BY <1>1, LaidSteps
  <2>2. /\ o[0] = 0
        /\ \A k \in 1..n : o[k] = RoundUp(o[k-1] + sizes[k], Alignment)
    BY <1>1, LaidSteps
  <2>. QED
    BY <2>1, <2>2
<1>. HIDE DEF n
<1>5. 0 \in S
  BY <1>2, <1>3, <1>4
<1>6. ASSUME NEW k \in 0..n, k < n, k \in S PROVE k + 1 \in S
  <2>1. k + 1 \in 1..n /\ k + 1 \in 0..n /\ (k + 1) - 1 = k
    BY <1>3, <1>6
  <2>2. o[k] \in Nat /\ w[k] = a + o[k] /\ sizes[k+1] \in Nat
    BY <1>3, <1>6, <2>1
  <2>3. PICK b \in Nat : b = o[k] + sizes[k+1]
    BY <2>2
  <2>4. w[k] + sizes[k+1] = a + b
    BY <1>2, <2>2, <2>3
  <2>5. w[k+1] = RoundUp(a + b, Alignment) /\ o[k+1] = RoundUp(b, Alignment)
    BY <1>4, <2>1, <2>3, <2>4
  <2>6. RoundUp(b, Alignment) \in Nat
    BY RoundUpAdds
  <2>7. RoundUp(a + b, Alignment) = a + RoundUp(b, Alignment)
    BY <1>1, RoundUpAdds
  <2>. QED
    BY <2>1, <2>5, <2>6, <2>7
<1>7. 0..n \subseteq S
  <2>. HIDE DEF S
  <2>. QED
    BY <1>3, <1>5, <1>6, UpTo
<1>. QED
  BY <1>1, <1>7 DEF n

(* Sequences of slices. *)
Slices == [start : Nat, length : Nat]

LEMMA SliceIs ==
  ASSUME NEW start \in Nat, NEW length \in Nat
  PROVE  Slice(start, length) \in Slices
BY DEF Slice, Slices

LEMMA SequenceOf ==
  ASSUME NEW T, NEW s \in Seq(T)
  PROVE  Len(s) \in Nat /\ DOMAIN s = 1..Len(s) /\ \A i \in 1..Len(s) : s[i] \in T
OBVIOUS

LEMMA MakesSequence ==
  ASSUME NEW T, NEW n \in Nat, NEW s, s = [i \in 1..n |-> s[i]], \A i \in 1..n : s[i] \in T
  PROVE  s \in Seq(T) /\ Len(s) = n
OBVIOUS

(* Every file is read where it was written, whatever is in it.               *)
LEMMA FilesAreRead ==
  ASSUME NEW slices \in Seq(Slices)
  PROVE  FilesAddressTensors(slices)
<1>. DEFINE n == Len(slices)  b == Bytes(slices)  s == Laid(0, b, 1)
<1>1. n \in Nat /\ DOMAIN slices = 1..n
  BY SequenceOf, Zenon
<1>2. b \in Seq(Nat) /\ Len(b) = n
  <2>1. b = [i \in 1..n |-> 4 * slices[i].length]
    BY <1>1 DEF Bytes
  <2>2. ASSUME NEW i \in 1..n PROVE 4 * slices[i].length \in Nat
    <3>1. slices[i] \in Slices
      BY SequenceOf, Zenon
    <3>2. \A x \in Slices : x.length \in Nat
      BY DEF Slices
    <3>3. \A a \in Nat : 4 * a \in Nat
      OBVIOUS
    <3>. QED
      BY <3>1, <3>2, <3>3, Zenon
  <2>. HIDE DEF b, n
  <2>. QED
    BY <1>1, <2>1, <2>2
<1>. HIDE DEF b
<1>3. SUFFICES ASSUME NEW i \in 1..n
               PROVE  /\ \A header \in 1..Alignment :
                           GgufWritten(header, slices, i)
                             = RoundUp(header, Alignment) + GgufOffset(slices, i)
                      /\ SafetensorsOffsets(slices, i)[2] =
                           IF i = n THEN SumOf(b) ELSE SafetensorsOffsets(slices, i + 1)[1]
  BY <1>1 DEF FilesAddressTensors, b
<1>4. i - 1 \in 0..Len(b)
  BY <1>1, <1>2
<1>5. ASSUME NEW header \in 1..Alignment
      PROVE  GgufWritten(header, slices, i) = RoundUp(header, Alignment) + GgufOffset(slices, i)
  <2>1. header \in Nat
    BY DEF Alignment
  <2>2. Laid(RoundUp(header, Alignment), b, Alignment)[i-1]
          = RoundUp(header, Alignment) + Laid(0, b, Alignment)[i-1]
    BY <1>2, <1>4, <2>1, LaidMoves
  <2>. QED
    BY <2>2 DEF b, GgufWritten, GgufOffset
<1>6. SafetensorsOffsets(slices, i)[2] = s[i]
  <2>1. s[i] = s[i-1] + b[i]
    BY <1>2, LaidSums
  <2>2. SafetensorsOffsets(slices, i)[2] = s[i-1] + b[i]
    BY DEF SafetensorsOffsets, Before, b
  <2>. QED
    BY <2>1, <2>2
<1>7. SumOf(b) = s[n]
  BY <1>2 DEF SumOf
<1>8. SafetensorsOffsets(slices, i + 1)[1] = s[i]
  <2>1. SafetensorsOffsets(slices, i + 1)[1] = s[(i + 1) - 1]
    BY DEF SafetensorsOffsets, Before, b
  <2>2. (i + 1) - 1 = i
    BY <1>1
  <2>. QED
    BY <2>1, <2>2
<1>. QED
  BY <1>5, <1>6, <1>7, <1>8

-----------------------------------------------------------------------------
(* The tensor table.  The products of the sizes are numbers of their own; h*d*)
(* and d*h are the same one.                                                 *)
LEMMA ConfigNumbers ==
  ASSUME NEW c, IsConfig(c)
  PROVE  /\ Depth(c) \in Nat \ {0}
         /\ Rank(c) \in Nat
         /\ c.V * c.d \in Nat /\ c.ctx * c.d \in Nat
         /\ c.d * c.d \in Nat /\ c.d * c.h \in Nat /\ c.h * c.d = c.d * c.h
         /\ LayerParamCount(c.d, c.h) = 3 * (c.d * c.d) + 2 * (c.d * c.h) + c.h + c.d
<1>1. c.V \in Nat /\ c.d \in Nat /\ c.ctx \in Nat /\ c.h \in Nat /\ c.L \in Int /\ c.r \in Int
  BY DEF IsConfig
<1>2. Depth(c) \in Nat \ {0}
  BY <1>1 DEF Depth
<1>3. Rank(c) \in Nat
  BY <1>1 DEF Rank
<1>4. \A a, b \in Nat : a * b \in Nat /\ b * a = a * b
  OBVIOUS
<1>5. ASSUME NEW d \in Nat, NEW h \in Nat
      PROVE  LayerParamCount(d, h) = 3 * (d * d) + 2 * (d * h) + h + d
  BY DEF LayerParamCount
<1>. QED
  BY <1>1, <1>2, <1>3, <1>4, <1>5

(* The place of the k-th tensor of layer l; every place after the embeddings *)
(* is one of these.                                                          *)
At(l, k) == 7 * (l - 1) + k + 2

LEMMA Places ==
  ASSUME NEW n \in Nat, NEW l \in 1..n, NEW k \in 1..7
  PROVE  /\ At(l, k) \in 3..(2 + 7 * n)
         /\ (At(l, k) - 3) \div 7 + 1 = l
         /\ ((At(l, k) - 3) % 7) + 1 = k
BY DEF At

LEMMA EveryPlace ==
  ASSUME NEW n \in Nat, NEW i \in 3..(2 + 7 * n)
  PROVE  \E l \in 1..n, k \in 1..7 : i = At(l, k)
<1>1. PICK l \in Int, k \in Int : l = (i - 3) \div 7 + 1 /\ k = ((i - 3) % 7) + 1
  OBVIOUS
<1>2. k \in 1..7 /\ i - 3 = 7 * (l - 1) + (k - 1)
  BY <1>1
<1>3. l \in 1..n
  BY <1>2
<1>. QED
  BY <1>2, <1>3 DEF At

(* What is at that place, and its number of elements.                        *)
LEMMA TensorAt ==
  ASSUME NEW c, IsConfig(c), NEW l \in 1..Depth(c), NEW k \in 1..7
  PROVE  /\ At(l, k) \in 3..(2 + 7 * Depth(c))
         /\ Tensors(c)[At(l, k)] = LayerTensors(c, l)[k]
<1>1. PICK n \in Nat : n = Depth(c)
  BY ConfigNumbers
<1>2. /\ At(l, k) \in 3..(2 + 7 * n)
      /\ (At(l, k) - 3) \div 7 + 1 = l
      /\ ((At(l, k) - 3) % 7) + 1 = k
  BY <1>1, Places
<1>3. At(l, k) \in 1..(2 + 7 * n) /\ At(l, k) # 1 /\ At(l, k) # 2
  BY <1>2
<1>. QED
  BY <1>1, <1>2, <1>3, Zenon DEF Tensors

LEMMA SizeAt ==
  ASSUME NEW c, IsConfig(c), NEW l \in 1..Depth(c)
  PROVE  LET s == Sizes(c) IN
         /\ s[At(l, 1)] = c.d * c.d /\ s[At(l, 2)] = c.d * c.d /\ s[At(l, 3)] = c.d * c.d
         /\ s[At(l, 4)] = c.d * c.h /\ s[At(l, 5)] = c.h
         /\ s[At(l, 6)] = c.h * c.d /\ s[At(l, 7)] = c.d
<1>1. ASSUME NEW k \in 1..7
      PROVE  Sizes(c)[At(l, k)] = Elements(LayerTensors(c, l)[k].shape)
  <2>1. PICK n \in Nat : n = Depth(c)
    BY ConfigNumbers
  <2>2. At(l, k) \in 3..(2 + 7 * n) /\ Tensors(c)[At(l, k)] = LayerTensors(c, l)[k]
    BY <2>1, TensorAt
  <2>3. At(l, k) \in 1..(2 + 7 * n)
    BY <2>2
  <2>. QED
    BY <2>1, <2>2, <2>3, Zenon DEF Sizes
<1>2. /\ \A a, b : Elements(<<a, b>>) = a * b
      /\ \A a : Elements(<<a>>) = a
  BY DEF Elements
<1>. QED
  BY <1>1, <1>2 DEF LayerTensors, Tensor

LEMMA TableSizes ==
  ASSUME NEW c, IsConfig(c)
  PROVE  /\ Sizes(c) \in Seq(Nat) /\ Len(Sizes(c)) = 2 + 7 * Depth(c)
         /\ Sizes(c)[1] = c.V * c.d /\ Sizes(c)[2] = c.ctx * c.d
<1>1. PICK n \in Nat : n = 2 + 7 * Depth(c) /\ n >= 2
  BY ConfigNumbers
<1>2. Sizes(c)[1] = c.V * c.d /\ Sizes(c)[2] = c.ctx * c.d
  <2>1. /\ Tensors(c)[1] = Tensor(0, "token_embd", <<c.V, c.d>>)
        /\ Tensors(c)[2] = Tensor(0, "pos_embd", <<c.ctx, c.d>>)
    BY <1>1 DEF Tensors
  <2>2. \A a, b : Elements(<<a, b>>) = a * b
    BY DEF Elements
  <2>. QED
    BY <1>1, <2>1, <2>2 DEF Sizes, Tensor
<1>3. ASSUME NEW i \in 1..n PROVE Sizes(c)[i] \in Nat
  <2>1. CASE i \in {1, 2}
    BY <1>2, <2>1, ConfigNumbers
  <2>2. CASE i \notin {1, 2}
    <3>1. i \in 3..(2 + 7 * Depth(c))
      BY <1>1, <2>2, ConfigNumbers
    <3>2. PICK l \in 1..Depth(c), k \in 1..7 : i = At(l, k)
      BY <3>1, ConfigNumbers, EveryPlace
    <3>3. c.h \in Nat /\ c.d \in Nat
      BY DEF IsConfig
    <3>4. c.d * c.d \in Nat /\ c.d * c.h \in Nat /\ c.h * c.d \in Nat
      BY ConfigNumbers
    <3>5. /\ Sizes(c)[At(l, 1)] \in Nat /\ Sizes(c)[At(l, 2)] \in Nat
          /\ Sizes(c)[At(l, 3)] \in Nat /\ Sizes(c)[At(l, 4)] \in Nat
          /\ Sizes(c)[At(l, 5)] \in Nat /\ Sizes(c)[At(l, 6)] \in Nat
          /\ Sizes(c)[At(l, 7)] \in Nat
      BY <3>3, <3>4, SizeAt, Zenon
    <3>6. k = 1 \/ k = 2 \/ k = 3 \/ k = 4 \/ k = 5 \/ k = 6 \/ k = 7
      OBVIOUS
    <3>. QED
      BY <3>2, <3>5, <3>6, Zenon
  <2>. QED
    BY <2>1, <2>2
<1>4. Sizes(c) = [i \in 1..n |-> Sizes(c)[i]]
  BY <1>1 DEF Sizes
<1>. QED
  BY <1>1, <1>2, <1>3, <1>4

(* Then, where it starts: Base is the start of a layer in the constructor,   *)
(* StartOf the sum of the sizes before a place.                              *)
Base(c, l) == c.V * c.d + c.ctx * c.d + (l - 1) * LayerParamCount(c.d, c.h)
StartOf(c, i) == Before(Sizes(c), i)

LEMMA Starts ==
  ASSUME NEW c, IsConfig(c)
  PROVE  /\ StartOf(c, 1) = 0
         /\ \A i \in 1..(2 + 7 * Depth(c)) :
              StartOf(c, i) \in Nat /\ StartOf(c, i + 1) = StartOf(c, i) + Sizes(c)[i]
<1>1. PICK n \in Nat, s \in Seq(Nat) : n = 2 + 7 * Depth(c) /\ s = Sizes(c) /\ Len(s) = n
  BY ConfigNumbers, TableSizes
<1>2. PICK e : e = Laid(0, s, 1)
  OBVIOUS
<1>3. e[0] = 0 /\ (\A i \in 0..n : e[i] \in Nat) /\ (\A i \in 1..n : e[i] = e[i-1] + s[i])
  BY <1>1, <1>2, LaidSums
<1>4. \A i \in 1..n : i - 1 \in 0..n /\ (i + 1) - 1 = i
  BY <1>1
<1>5. \A i : StartOf(c, i) = e[i-1]
  BY <1>1, <1>2 DEF StartOf, Before
<1>6. 1 - 1 = 0
  OBVIOUS
<1>7. StartOf(c, 1) = 0
  BY <1>3, <1>5, <1>6
<1>8. ASSUME NEW i \in 1..n
      PROVE  StartOf(c, i) \in Nat /\ StartOf(c, i + 1) = StartOf(c, i) + Sizes(c)[i]
  <2>1. StartOf(c, i) = e[i-1] /\ StartOf(c, i + 1) = e[i]
    <3>1. StartOf(c, i + 1) = e[(i + 1) - 1]
      BY <1>5
    <3>. QED
      BY <1>4, <1>5, <3>1
  <2>. QED
    BY <1>1, <1>3, <1>4, <2>1
<1>. QED
  BY <1>1, <1>7, <1>8

(* If a layer starts where the constructor has it, so do its tensors, and    *)
(* the next layer starts where they end.                                     *)
LEMMA AfterLayer ==
  ASSUME NEW c, IsConfig(c), NEW l \in 1..Depth(c), StartOf(c, At(l, 1)) = Base(c, l)
  PROVE  /\ \A k \in 1..7 : Slice(StartOf(c, At(l, k)), Sizes(c)[At(l, k)])
                              = LayerSlices(c, l)[LayerTensors(c, l)[k].kind]
         /\ StartOf(c, At(l, 7) + 1) = Base(c, l) + LayerParamCount(c.d, c.h)
<1>1. PICK o \in Nat, dd \in Nat, dh \in Nat, d \in Nat, h \in Nat :
         /\ d = c.d /\ h = c.h /\ dd = d * d /\ dh = d * h
         /\ o = Base(c, l)
  <2>1. StartOf(c, At(l, 1)) \in Nat
    BY TensorAt, Starts
  <2>. QED
    BY <2>1, ConfigNumbers DEF IsConfig
<1>2. h * d = dh /\ 2*d*d = 2 * dd /\ 3*d*d = 3 * dd
      /\ LayerParamCount(d, h) = 3 * dd + 2 * dh + h + d
  <2>1. h * d = d * h /\ 2*d*d = 2 * (d * d) /\ 3*d*d = 3 * (d * d)
    OBVIOUS
  <2>2. LayerParamCount(d, h) = 3 * (d * d) + 2 * (d * h) + h + d
    BY <1>1, ConfigNumbers, Zenon
  <2>. QED
    BY <1>1, <2>1, <2>2
<1>3. /\ \A k \in 1..7 : /\ StartOf(c, At(l, k)) \in Nat
                         /\ StartOf(c, At(l, k) + 1) = StartOf(c, At(l, k)) + Sizes(c)[At(l, k)]
      /\ \A k \in 1..6 : At(l, k) + 1 = At(l, k + 1)
  <2>1. \A k \in 1..7 : At(l, k) \in 1..(2 + 7 * Depth(c))
    <3>1. ASSUME NEW k \in 1..7 PROVE At(l, k) \in 1..(2 + 7 * Depth(c))
      <4>1. At(l, k) \in 3..(2 + 7 * Depth(c))
        BY TensorAt
      <4>. QED
        BY <4>1, ConfigNumbers
    <3>. QED
      BY <3>1
  <2>2. \A k \in 1..6 : At(l, k) + 1 = At(l, k + 1)
    BY ConfigNumbers DEF At
  <2>. QED
    BY <2>1, <2>2, Starts
<1>4. LET s == Sizes(c) IN
         /\ s[At(l, 1)] = dd /\ s[At(l, 2)] = dd /\ s[At(l, 3)] = dd
         /\ s[At(l, 4)] = dh /\ s[At(l, 5)] = h
         /\ s[At(l, 6)] = dh /\ s[At(l, 7)] = d
  BY <1>1, <1>2, SizeAt
<1>5. /\ StartOf(c, At(l, 1)) = o
      /\ StartOf(c, At(l, 2)) = o + dd
      /\ StartOf(c, At(l, 3)) = o + 2 * dd
      /\ StartOf(c, At(l, 4)) = o + 3 * dd
      /\ StartOf(c, At(l, 5)) = o + 3 * dd + dh
      /\ StartOf(c, At(l, 6)) = o + 3 * dd + dh + h
      /\ StartOf(c, At(l, 7)) = o + 3 * dd + dh + h + dh
      /\ StartOf(c, At(l, 7) + 1) = o + 3 * dd + dh + h + dh + d
  <2>1. StartOf(c, At(l, 1)) = o
    BY <1>1
  <2>2. StartOf(c, At(l, 2)) = o + dd
    BY <2>1, <1>3, <1>4
  <2>3. StartOf(c, At(l, 3)) = o + dd + dd
    BY <2>2, <1>3, <1>4
  <2>4. StartOf(c, At(l, 4)) = o + dd + dd + dd
    BY <2>3, <1>3, <1>4
  <2>5. StartOf(c, At(l, 5)) = o + dd + dd + dd + dh
    BY <2>4, <1>3, <1>4
  <2>6. StartOf(c, At(l, 6)) = o + dd + dd + dd + dh + h
    BY <2>5, <1>3, <1>4
  <2>7. StartOf(c, At(l, 7)) = o + dd + dd + dd + dh + h + dh
    BY <2>6, <1>3, <1>4
  <2>8. StartOf(c, At(l, 7) + 1) = o + dd + dd + dd + dh + h + dh + d
    BY <2>7, <1>3, <1>4
  <2>. QED
    BY <2>1, <2>2, <2>3, <2>4, <2>5, <2>6, <2>7, <2>8
<1>6. LayerSlices(c, l) =
        [attn_q    |-> Slice(o, dd),
         attn_k    |-> Slice(o + dd, dd),
         attn_v    |-> Slice(o + 2 * dd, dd),
         gate      |-> Slice(o + 3 * dd, dh),
         gate_bias |-> Slice(o + 3 * dd + dh, h),
         down      |-> Slice(o + 3 * dd + dh + h, dh),
         down_bias |-> Slice(o + 3 * dd + dh + h + dh, d)]
  <2>1. o = c.V * c.d + c.ctx * c.d + (l - 1) * LayerParamCount(c.d, c.h)
    BY <1>1 DEF Base
  <2>. QED
    BY <1>1, <1>2, <2>1, Zenon DEF LayerSlices
<1>7. \A k \in 1..7 : Slice(StartOf(c, At(l, k)), Sizes(c)[At(l, k)])
                        = LayerSlices(c, l)[LayerTensors(c, l)[k].kind]
  <2>1. /\ LayerTensors(c, l)[1].kind = "attn_q" /\ LayerTensors(c, l)[2].kind = "attn_k"
        /\ LayerTensors(c, l)[3].kind = "attn_v" /\ LayerTensors(c, l)[4].kind = "gate"
        /\ LayerTensors(c, l)[5].kind = "gate_bias" /\ LayerTensors(c, l)[6].kind = "down"
        /\ LayerTensors(c, l)[7].kind = "down_bias"
    BY DEF LayerTensors, Tensor
  <2>. QED
    BY <1>4, <1>5, <1>6, <2>1
<1>8. o + 3 * dd + dh + h + dh + d = o + (3 * dd + 2 * dh + h + d)
  OBVIOUS
<1>. QED
  BY <1>1, <1>2, <1>5, <1>7, <1>8

(* Hence every layer does.                                                   *)
LEMMA LayersStart ==
  ASSUME NEW c, IsConfig(c), NEW l \in 1..(Depth(c) + 1)
  PROVE  StartOf(c, At(l, 1)) = Base(c, l)
<1>. DEFINE S == { j \in 0..Depth(c) : StartOf(c, At(j + 1, 1)) = Base(c, j + 1) }
<1>1. PICK n \in Nat \ {0} : n = Depth(c)
  BY ConfigNumbers
<1>2. PICK a \in Nat, b \in Nat, p \in Nat :
         a = c.V * c.d /\ b = c.ctx * c.d /\ p = LayerParamCount(c.d, c.h)
  <2>1. \A x, y \in Nat : 3 * x + 2 * y + c.h + c.d \in Nat
    BY DEF IsConfig
  <2>. QED
    BY <2>1, ConfigNumbers
<1>3. 0 \in S
  <2>1. 1 \in 1..(2 + 7 * n) /\ 2 \in 1..(2 + 7 * n) /\ 1 + 1 = 2 /\ 2 + 1 = 3
    BY <1>1
  <2>2. StartOf(c, 3) = a + b
    <3>1. /\ StartOf(c, 1) = 0
          /\ StartOf(c, 1 + 1) = StartOf(c, 1) + Sizes(c)[1]
          /\ StartOf(c, 2 + 1) = StartOf(c, 2) + Sizes(c)[2]
      BY <1>1, <2>1, Starts
    <3>2. Sizes(c)[1] = a /\ Sizes(c)[2] = b
      BY <1>2, TableSizes
    <3>. QED
      BY <2>1, <3>1, <3>2
  <2>3. At(0 + 1, 1) = 3
    BY DEF At
  <2>4. Base(c, 0 + 1) = a + b
    BY <1>2 DEF Base
  <2>. QED
    BY <1>1, <2>2, <2>3, <2>4
<1>4. ASSUME NEW j \in 0..n, j < n, j \in S PROVE j + 1 \in S
  <2>1. j + 1 \in 1..Depth(c) /\ j + 1 \in 0..n
    BY <1>1, <1>4
  <2>2. StartOf(c, At(j + 1, 7) + 1) = Base(c, j + 1) + p
    BY <1>2, <1>4, <2>1, AfterLayer
  <2>3. At(j + 1, 7) + 1 = At((j + 1) + 1, 1)
    BY DEF At
  <2>4. Base(c, j + 1) + p = Base(c, (j + 1) + 1)
    <3>1. PICK m \in Nat : m = j * p
      BY <1>2
    <3>2. Base(c, j + 1) = a + b + m
      BY <1>2, <3>1 DEF Base
    <3>3. (j + 1) * p = m + p
      BY <1>2, <3>1
    <3>4. Base(c, (j + 1) + 1) = a + b + (j + 1) * p
      <4>1. ((j + 1) + 1) - 1 = j + 1
        OBVIOUS
      <4>. QED
        BY <1>2, <4>1 DEF Base
    <3>. QED
      BY <1>2, <3>1, <3>2, <3>3, <3>4
  <2>. QED
    BY <1>1, <2>1, <2>2, <2>3, <2>4
<1>5. 0..n \subseteq S
  <2>. HIDE DEF S
  <2>. QED
    BY <1>1, <1>3, <1>4, UpTo
<1>6. l - 1 \in 0..n /\ (l - 1) + 1 = l
  BY <1>1
<1>. QED
  BY <1>5, <1>6

(* The table of the exporters is the layout of the constructor: its tensors  *)
(* cover the buffer of the model, each where the passes use it.              *)
LEMMA TableIsConstructors ==
  ASSUME NEW c, IsConfig(c)
  PROVE  LayoutIsConstructors(c)
<1>. DEFINE t == TensorLayout(c)
            slices == [i \in DOMAIN t |-> t[i].slice]
<1>1. PICK n \in Nat \ {0} : n = 2 + 7 * Depth(c)
  BY ConfigNumbers
<1>2. DOMAIN t = 1..n
  BY <1>1 DEF TensorLayout
<1>3. ASSUME NEW i \in 1..n
      PROVE  /\ t[i].of = Tensors(c)[i]
             /\ t[i].slice = Slice(StartOf(c, i), Sizes(c)[i])
             /\ slices[i] = t[i].slice
  <2>1. t[i] = [of |-> Tensors(c)[i], slice |-> Slice(StartOf(c, i), Sizes(c)[i])]
    BY <1>1 DEF TensorLayout, StartOf
  <2>2. slices[i] = t[i].slice
    BY <1>2
  <2>. HIDE DEF t, slices
  <2>. QED
    BY <2>1, <2>2
<1>4. DOMAIN slices = 1..n
  BY <1>2
<1>. HIDE DEF t, slices
<1>5. \A i \in 1..n : slices[i].start = StartOf(c, i) /\ End(slices[i]) = StartOf(c, i + 1)
  <2>. TAKE i \in 1..n
  <2>1. slices[i] = [start |-> StartOf(c, i), length |-> Sizes(c)[i]]
    BY <1>3 DEF Slice
  <2>2. StartOf(c, i + 1) = StartOf(c, i) + Sizes(c)[i]
    BY <1>1, Starts
  <2>. QED
    BY <2>1, <2>2 DEF End
<1>6. slices \in Seq(Slices) /\ Len(slices) = n
  <2>1. \A i \in 1..n : slices[i] \in Slices
    <3>. TAKE i \in 1..n
    <3>1. StartOf(c, i) \in Nat /\ Sizes(c)[i] \in Nat
      BY <1>1, Starts, TableSizes
    <3>. QED
      BY <1>3, <3>1, SliceIs
  <2>2. slices = [i \in 1..n |-> slices[i]]
    BY <1>4 DEF slices
  <2>3. n \in Nat
    OBVIOUS
  <2>. QED
    BY <2>1, <2>2, <2>3, MakesSequence
<1>7. Tiles(slices, ParamCountFor(c))
  <2>1. \A i \in 1..n : slices[i].start = IF i = 1 THEN 0 ELSE End(slices[i-1])
    <3>. TAKE i \in 1..n
    <3>1. CASE i = 1
      BY <1>1, <1>5, <3>1, Starts
    <3>2. CASE i # 1
      <4>1. i - 1 \in 1..n /\ (i - 1) + 1 = i
        BY <3>2, <1>1
      <4>2. End(slices[i-1]) = StartOf(c, (i - 1) + 1)
        BY <1>5, <4>1
      <4>. QED
        BY <1>5, <3>2, <4>1, <4>2
    <3>. QED
      BY <3>1, <3>2
  <2>2. End(slices[n]) = ParamCountFor(c)
    <3>1. End(slices[n]) = StartOf(c, n + 1)
      BY <1>1, <1>5
    <3>2. n + 1 = At(Depth(c) + 1, 1) /\ Depth(c) + 1 \in 1..(Depth(c) + 1)
      BY <1>1, ConfigNumbers DEF At
    <3>3. StartOf(c, n + 1) = Base(c, Depth(c) + 1)
      BY <3>2, LayersStart
    <3>4. (Depth(c) + 1) - 1 = Depth(c)
      BY ConfigNumbers
    <3>. QED
      BY <3>1, <3>3, <3>4 DEF Base, ParamCountFor
  <2>. QED
    BY <1>4, <1>6, <2>1, <2>2 DEF Tiles
<1>8. ASSUME NEW i \in 1..n, t[i].of.layer > 0
      PROVE  t[i].slice = LayerSlices(c, t[i].of.layer)[t[i].of.kind]
  <2>1. i \notin {1, 2}
    <3>1. Tensors(c)[1].layer = 0 /\ Tensors(c)[2].layer = 0
      <4>1. 1 \in 1..(2 + 7 * Depth(c)) /\ 2 \in 1..(2 + 7 * Depth(c)) /\ 2 # 1
        BY ConfigNumbers
      <4>2. /\ Tensors(c)[1] = Tensor(0, "token_embd", <<c.V, c.d>>)
            /\ Tensors(c)[2] = Tensor(0, "pos_embd", <<c.ctx, c.d>>)
        BY <4>1 DEF Tensors
      <4>. QED
        BY <4>2 DEF Tensor
    <3>. QED
      BY <1>3, <1>8, <3>1
  <2>2. i \in 3..(2 + 7 * Depth(c))
    BY <1>1, <2>1, ConfigNumbers
  <2>3. PICK l \in 1..Depth(c), k \in 1..7 : i = At(l, k)
    BY <2>2, ConfigNumbers, EveryPlace
  <2>4. t[i].of = LayerTensors(c, l)[k]
    BY <1>3, <2>3, TensorAt
  <2>5. LayerTensors(c, l)[k].layer = l
    <3>1. k = 1 \/ k = 2 \/ k = 3 \/ k = 4 \/ k = 5 \/ k = 6 \/ k = 7
      OBVIOUS
    <3>. QED
      BY <3>1 DEF LayerTensors, Tensor
  <2>6. StartOf(c, At(l, 1)) = Base(c, l)
    <3>1. l \in 1..(Depth(c) + 1)
      BY ConfigNumbers
    <3>. QED
      BY <3>1, LayersStart
  <2>. QED
    BY <1>3, <2>3, <2>4, <2>5, <2>6, AfterLayer
<1>9. /\ Tiles([i \in DOMAIN t |-> t[i].slice], ParamCountFor(c))
      /\ \A i \in DOMAIN t : t[i].of.layer > 0 =>
           t[i].slice = LayerSlices(c, t[i].of.layer)[t[i].of.kind]
  BY <1>2, <1>7, <1>8 DEF slices
<1>. QED
  BY <1>9 DEF LayoutIsConstructors, t

(* The slices of the table are what the files are made of.                   *)
LEMMA TableSlices ==
  ASSUME NEW c, IsConfig(c)
  PROVE  [i \in DOMAIN TensorLayout(c) |-> TensorLayout(c)[i].slice]
           \in Seq(Slices)
<1>1. PICK n \in Nat : n = 2 + 7 * Depth(c)
  BY ConfigNumbers
<1>2. PICK t : t = TensorLayout(c)
  OBVIOUS
<1>3. DOMAIN t = 1..n
  BY <1>1, <1>2 DEF TensorLayout
<1>4. ASSUME NEW i \in 1..n PROVE t[i].slice \in Slices
  <2>1. t[i].slice = Slice(StartOf(c, i), Sizes(c)[i])
    BY <1>1, <1>2 DEF TensorLayout, StartOf
  <2>2. StartOf(c, i) \in Nat /\ Sizes(c)[i] \in Nat
    BY <1>1, Starts, TableSizes
  <2>. QED
    BY <2>1, <2>2, SliceIs
<1>5. PICK s : s = [i \in 1..n |-> t[i].slice]
  OBVIOUS
<1>6. s = [i \in 1..n |-> s[i]] /\ \A i \in 1..n : s[i] \in Slices
  BY <1>4, <1>5
<1>7. s \in Seq(Slices)
  BY <1>6, MakesSequence
<1>. QED
  BY <1>2, <1>3, <1>5, <1>7

-----------------------------------------------------------------------------
(* The adapters: the i-th is the i-th stretch of 2*d*r elements.             *)
LEMMA AdapterAt ==
  ASSUME NEW c, IsConfig(c), NEW i \in 1..(2 * Depth(c))
  PROVE  LET p == c.d * Rank(c)  a == LoraAdaptersFor(c)[i] IN
         /\ a.A = Slice((i - 1) * (2 * p), p) /\ a.B = Slice((i - 1) * (2 * p) + p, p)
         /\ a.layer \in 1..Depth(c) /\ a.layer = (i + 1) \div 2
         /\ a.target = IF i % 2 = 1 THEN "attn_q" ELSE "attn_v"
<1>1. PICK d \in Nat, r \in Nat, p \in Nat : d = c.d /\ r = Rank(c) /\ p = d * r
  <2>1. \A a, b \in Nat : a * b \in Nat
    OBVIOUS
  <2>. QED
    BY <2>1, ConfigNumbers DEF IsConfig
<1>2. PICK n \in Nat \ {0} : n = Depth(c)
  BY ConfigNumbers
<1>3. 2*d*r = 2 * p /\ LoraLayerParamCount(d, r) = 4 * p
  <2>1. 2*d*r = 2 * (d * r) /\ 4*d*r = 4 * (d * r)
    OBVIOUS
  <2>. QED
    BY <1>1, <2>1 DEF LoraLayerParamCount
<1>4. PICK l \in 1..n : l = (i + 1) \div 2
  BY <1>2
<1>5. PICK o : o = (l - 1) * (4 * p) + (IF i % 2 = 1 THEN 0 ELSE 2 * p)
  OBVIOUS
<1>6. o = (i - 1) * (2 * p)
  <2>1. CASE i % 2 = 1
    <3>1. i - 1 = 2 * (l - 1)
      BY <1>2, <1>4, <2>1
    <3>2. \A x \in Int : x * (4 * p) = (2 * x) * (2 * p)
      OBVIOUS
    <3>. QED
      BY <1>5, <2>1, <3>1, <3>2
  <2>2. CASE i % 2 # 1
    <3>1. i - 1 = 2 * (l - 1) + 1
      BY <1>2, <1>4, <2>2
    <3>2. \A x \in Int : x * (4 * p) + 2 * p = (2 * x + 1) * (2 * p)
      OBVIOUS
    <3>. QED
      BY <1>5, <2>2, <3>1, <3>2
  <2>. QED
    BY <2>1, <2>2
<1>7. LoraAdaptersFor(c)[i] =
        [layer |-> l, target |-> IF i % 2 = 1 THEN "attn_q" ELSE "attn_v",
         A |-> Slice(o, p), B |-> Slice(o + p, p)]
  <2>1. i \in 1..2*n
    BY <1>2
  <2>. QED
    BY <1>1, <1>2, <1>3, <1>4, <1>5, <2>1 DEF LoraAdaptersFor
<1>. QED
  BY <1>1, <1>2, <1>4, <1>6, <1>7

(* The exported adapters cover the buffer of adapters, in order.             *)
LEMMA AdaptersTile ==
  ASSUME NEW c, IsConfig(c), c.lora
  PROVE  /\ AdapterTensors(c) \in Seq(Slices)
         /\ Tiles(AdapterTensors(c), LoraParamCountFor(c))
<1>1. PICK p \in Nat : p = c.d * Rank(c)
  <2>1. \A a, b \in Nat : a * b \in Nat
    OBVIOUS
  <2>. QED
    BY <2>1, ConfigNumbers DEF IsConfig
<1>2. PICK n \in Nat \ {0} : n = Depth(c)
  BY ConfigNumbers
<1>3. PICK s : s = AdapterTensors(c)
  OBVIOUS
<1>4. ASSUME NEW j \in 1..(4 * n) PROVE s[j] = Slice((j - 1) * p, p)
  <2>1. PICK i \in 1..(2 * n) : i = (j + 1) \div 2
    BY <1>2
  <2>2. LET a == LoraAdaptersFor(c)[i] IN
          a.A = Slice((i - 1) * (2 * p), p) /\ a.B = Slice((i - 1) * (2 * p) + p, p)
    BY <1>1, <1>2, <2>1, AdapterAt
  <2>3. s[j] = IF j % 2 = 1 THEN LoraAdaptersFor(c)[i].A ELSE LoraAdaptersFor(c)[i].B
    BY <1>2, <1>3, <2>1 DEF AdapterTensors
  <2>4. CASE j % 2 = 1
    <3>1. j - 1 = 2 * (i - 1)
      BY <1>2, <2>1, <2>4
    <3>2. \A x \in Int : (2 * x) * p = x * (2 * p)
      OBVIOUS
    <3>3. (j - 1) * p = (i - 1) * (2 * p)
      BY <3>1, <3>2
    <3>. QED
      BY <2>2, <2>3, <2>4, <3>3
  <2>5. CASE j % 2 # 1
    <3>1. j - 1 = 2 * (i - 1) + 1
      BY <1>2, <2>1, <2>5
    <3>2. \A x \in Int : (2 * x + 1) * p = x * (2 * p) + p
      OBVIOUS
    <3>3. (j - 1) * p = (i - 1) * (2 * p) + p
      BY <3>1, <3>2
    <3>. QED
      BY <2>2, <2>3, <2>5, <3>3
  <2>. QED
    BY <2>4, <2>5
<1>5. \A a, b \in Nat : a * b \in Nat
  OBVIOUS
<1>6. s \in Seq(Slices) /\ Len(s) = 4 * n /\ DOMAIN s = 1..(4 * n)
  <2>1. DOMAIN s = 1..(4 * n) /\ s = [j \in 1..(4 * n) |-> s[j]]
    BY <1>2, <1>3 DEF AdapterTensors
  <2>2. ASSUME NEW j \in 1..(4 * n) PROVE s[j] \in Slices
    <3>1. (j - 1) * p \in Nat
      <4>1. j - 1 \in Nat
        BY <1>2
      <4>. QED
        BY <4>1, <1>5
    <3>. QED
      BY <1>4, <3>1, SliceIs
  <2>3. PICK m \in Nat : m = 4 * n
    OBVIOUS
  <2>4. s \in Seq(Slices) /\ Len(s) = m
    BY <2>1, <2>2, <2>3, MakesSequence
  <2>. QED
    BY <2>1, <2>3, <2>4
<1>7. ASSUME NEW j \in 1..(4 * n)
      PROVE  s[j].start = (j - 1) * p /\ End(s[j]) = j * p
  <2>1. s[j] = [start |-> (j - 1) * p, length |-> p]
    BY <1>4 DEF Slice
  <2>2. (j - 1) * p + p = j * p
    BY <1>2
  <2>. QED
    BY <2>1, <2>2 DEF End
<1>8. \A j \in 1..(4 * n) : s[j].start = IF j = 1 THEN 0 ELSE End(s[j-1])
  <2>. TAKE j \in 1..(4 * n)
  <2>1. CASE j = 1
    <3>1. (1 - 1) * p = 0
      OBVIOUS
    <3>. QED
      BY <1>7, <2>1, <3>1
  <2>2. CASE j # 1
    <3>1. j - 1 \in 1..(4 * n)
      BY <1>2, <2>2
    <3>2. s[j].start = (j - 1) * p /\ End(s[j-1]) = (j - 1) * p
      BY <1>7, <3>1
    <3>. QED
      BY <2>2, <3>2
  <2>. QED
    BY <2>1, <2>2
<1>9. End(s[4 * n]) = LoraParamCountFor(c)
  <2>1. End(s[4 * n]) = (4 * n) * p
    <3>1. 4 * n \in 1..(4 * n)
      BY <1>2
    <3>. QED
      BY <1>7, <3>1
  <2>2. LoraParamCountFor(c) = n * (4*c.d*Rank(c))
    BY <1>2 DEF LoraParamCountFor, LoraLayerParamCount
  <2>3. \A x, y, z \in Nat : x * (4*y*z) = (4 * x) * (y * z)
    OBVIOUS
  <2>4. n * (4*c.d*Rank(c)) = (4 * n) * (c.d * Rank(c))
    <3>1. n \in Nat /\ c.d \in Nat /\ Rank(c) \in Nat
      BY ConfigNumbers DEF IsConfig
    <3>. QED
      BY <2>3, <3>1, Zenon
  <2>. QED
    BY <1>1, <2>1, <2>2, <2>4
<1>. QED
  BY <1>3, <1>6, <1>8, <1>9 DEF Tiles

(* An adapter is merged into the tensor it was trained on.                   *)
LEMMA MergesRight ==
  ASSUME NEW c, IsConfig(c), NEW i \in 1..(2 * Depth(c))
  PROVE  LET a == LoraAdaptersFor(c)[i] IN
         MergedInto(c, a) = LayerSlices(c, a.layer)[a.target]
<1>1. PICK t : t = TensorLayout(c)
  OBVIOUS
<1>2. PICK l \in 1..Depth(c), k \in {1, 3} :
        /\ LoraAdaptersFor(c)[i].layer = l
        /\ LoraAdaptersFor(c)[i].target = LayerTensors(c, l)[k].kind
        /\ LayerTensors(c, l)[k].layer = l
  <2>1. PICK l \in 1..Depth(c) : LoraAdaptersFor(c)[i].layer = l
    BY AdapterAt
  <2>2. LoraAdaptersFor(c)[i].target \in {"attn_q", "attn_v"}
    BY AdapterAt
  <2>3. /\ LayerTensors(c, l)[1].kind = "attn_q" /\ LayerTensors(c, l)[1].layer = l
        /\ LayerTensors(c, l)[3].kind = "attn_v" /\ LayerTensors(c, l)[3].layer = l
    BY DEF LayerTensors, Tensor
  <2>. QED
    BY <2>1, <2>2, <2>3
<1>3. DOMAIN t = 1..(2 + 7 * Depth(c))
  BY <1>1 DEF TensorLayout
<1>4. PICK g : g \in ToSet(t) /\ g.of.layer = l /\ g.of.kind = LayerTensors(c, l)[k].kind
  <2>1. At(l, k) \in 3..(2 + 7 * Depth(c)) /\ Tensors(c)[At(l, k)] = LayerTensors(c, l)[k]
    BY TensorAt
  <2>2. At(l, k) \in 1..(2 + 7 * Depth(c))
    BY <2>1, ConfigNumbers
  <2>3. t[At(l, k)].of = LayerTensors(c, l)[k]
    BY <1>1, <2>1, <2>2 DEF TensorLayout
  <2>4. t[At(l, k)] \in ToSet(t)
    BY <1>3, <2>2 DEF ToSet
  <2>. QED
    BY <1>2, <2>3, <2>4
<1>5. ASSUME NEW x \in ToSet(t), x.of.layer = l, x.of.kind = LayerTensors(c, l)[k].kind
      PROVE  x.slice = LayerSlices(c, l)[LayerTensors(c, l)[k].kind]
  <2>1. PICK j \in DOMAIN t : x = t[j]
    BY DEF ToSet
  <2>2. t[j].of.layer > 0
    BY <1>5, <2>1, ConfigNumbers
  <2>. QED
    BY <1>1, <1>5, <2>1, <2>2, TableIsConstructors DEF LayoutIsConstructors
<1>6. PICK m : m = CHOOSE x \in ToSet(t) :
                     x.of.layer = l /\ x.of.kind = LayerTensors(c, l)[k].kind
  OBVIOUS
<1>7. m \in ToSet(t) /\ m.of.layer = l /\ m.of.kind = LayerTensors(c, l)[k].kind
  BY <1>4, <1>6, Zenon
<1>8. MergedInto(c, LoraAdaptersFor(c)[i]) = m.slice
  BY <1>1, <1>2, <1>6, Zenon DEF MergedInto
<1>. QED
  BY <1>2, <1>5, <1>7, <1>8

(* It is cut out of the buffer where the passes use it.                      *)
LEMMA AdapterIsConstructors ==
  ASSUME NEW c, IsConfig(c), NEW i \in 1..(2 * Depth(c))
  PROVE  LET a == LoraAdaptersFor(c)[i]  s == LoraSlices(c, a.layer) IN
         <<a.A, a.B>> = IF a.target = "attn_q" THEN <<s.aq, s.bq>> ELSE <<s.av, s.bv>>
<1>1. PICK p \in Nat, d \in Nat, r \in Nat : d = c.d /\ r = Rank(c) /\ p = d * r
  <2>1. \A a, b \in Nat : a * b \in Nat
    OBVIOUS
  <2>. QED
    BY <2>1, ConfigNumbers DEF IsConfig
<1>2. PICK l \in 1..Depth(c) : l = LoraAdaptersFor(c)[i].layer /\ l = (i + 1) \div 2
  BY AdapterAt
<1>3. PICK o \in Nat : o = (l - 1) * (4 * p)
  <2>1. l - 1 \in Nat /\ 4 * p \in Nat
    BY <1>2, ConfigNumbers
  <2>2. \A a, b \in Nat : a * b \in Nat
    OBVIOUS
  <2>. QED
    BY <2>1, <2>2
<1>4. LoraSlices(c, l) = [aq |-> Slice(o, p), bq |-> Slice(o + p, p),
                          av |-> Slice(o + 2 * p, p), bv |-> Slice(o + 3 * p, p)]
  <2>1. r * d = p /\ 2*d*r = 2 * p /\ LoraLayerParamCount(d, r) = 4 * p
    <3>1. r * d = d * r /\ 2*d*r = 2 * (d * r) /\ 4*d*r = 4 * (d * r)
      OBVIOUS
    <3>. QED
      BY <1>1, <3>1 DEF LoraLayerParamCount
  <2>2. o + p + p = o + 2 * p /\ o + 2 * p + p = o + 3 * p
    OBVIOUS
  <2>. QED
    BY <1>1, <1>3, <2>1, <2>2 DEF LoraSlices
<1>5. /\ LoraAdaptersFor(c)[i].A = Slice((i - 1) * (2 * p), p)
      /\ LoraAdaptersFor(c)[i].B = Slice((i - 1) * (2 * p) + p, p)
      /\ LoraAdaptersFor(c)[i].target = IF i % 2 = 1 THEN "attn_q" ELSE "attn_v"
  BY <1>1, AdapterAt
<1>6. CASE i % 2 = 1
  <2>1. i - 1 = 2 * (l - 1)
    BY <1>2, <1>6, ConfigNumbers
  <2>2. \A x \in Int : (2 * x) * (2 * p) = x * (4 * p)
    OBVIOUS
  <2>3. (i - 1) * (2 * p) = o
    BY <1>3, <2>1, <2>2, ConfigNumbers
  <2>. QED
    BY <1>2, <1>4, <1>5, <1>6, <2>3
<1>7. CASE i % 2 # 1
  <2>0. i \in Nat /\ l \in Nat
    BY ConfigNumbers
  <2>1. i - 1 = 2 * (l - 1) + 1
    BY <1>2, <1>7, <2>0
  <2>2. \A x \in Int : (2 * x + 1) * (2 * p) = x * (4 * p) + 2 * p
    OBVIOUS
  <2>3. (i - 1) * (2 * p) = o + 2 * p /\ o + 2 * p + p = o + 3 * p
    BY <1>3, <2>1, <2>2, ConfigNumbers
  <2>. QED
    BY <1>2, <1>4, <1>5, <1>7, <2>3
<1>. QED
  BY <1>6, <1>7

(* The parts of the optimizer's file, its header element included, cover it. *)
LEMMA StateTiles ==
  ASSUME NEW c, IsConfig(c)
  PROVE  LET s == StateSlices(c) IN
         Tiles(<<Slice(0, 1), s.m, s.v, s.lora, s.loraM, s.loraV>>, TrainerStateLengthFor(c))
<1>1. PICK p \in Nat, q \in Nat : p = ParamCountFor(c) /\ q = LoraParamCountFor(c)
  <2>1. \A a, b \in Nat : a * b \in Nat /\ a + b \in Nat
    OBVIOUS
  <2>2. LayerParamCount(c.d, c.h) \in Nat
    <3>1. \A x, y, h, d \in Nat : 3 * x + 2 * y + h + d \in Nat
      OBVIOUS
    <3>. QED
      BY <3>1, ConfigNumbers DEF IsConfig
  <2>3. ParamCountFor(c) \in Nat
    BY <2>1, <2>2, ConfigNumbers DEF ParamCountFor
  <2>4. LoraParamCountFor(c) \in Nat
    <3>1. 4*c.d*Rank(c) \in Nat
      BY <2>1, ConfigNumbers DEF IsConfig
    <3>. QED
      BY <2>1, <3>1, ConfigNumbers DEF LoraParamCountFor, LoraLayerParamCount
  <2>. QED
    BY <2>3, <2>4
<1>2. StateSlices(c) =
        [m |-> Slice(1, p), v |-> Slice(1 + p, p), lora |-> Slice(1 + 2*p, q),
         loraM |-> Slice(1 + 2*p + q, q), loraV |-> Slice(1 + 2*p + 2*q, q)]
  BY <1>1 DEF StateSlices
<1>3. TrainerStateLengthFor(c) = 1 + 2*p + 3*q
  BY <1>1 DEF TrainerStateLengthFor
<1>4. PICK s : s = <<Slice(0, 1), Slice(1, p), Slice(1 + p, p), Slice(1 + 2*p, q),
                     Slice(1 + 2*p + q, q), Slice(1 + 2*p + 2*q, q)>>
  OBVIOUS
<1>5. \A a, b : Slice(a, b).start = a /\ End(Slice(a, b)) = a + b
  BY DEF Slice, End
<1>6. /\ s[1].start = 0 /\ s[2].start = 1 /\ s[3].start = 1 + p /\ s[4].start = 1 + 2*p
      /\ s[5].start = 1 + 2*p + q /\ s[6].start = 1 + 2*p + 2*q
  BY <1>4, <1>5
<1>7. /\ End(s[1]) = 1 /\ End(s[2]) = 1 + p /\ End(s[3]) = 1 + 2*p
      /\ End(s[4]) = 1 + 2*p + q /\ End(s[5]) = 1 + 2*p + 2*q /\ End(s[6]) = 1 + 2*p + 3*q
  <2>1. /\ End(s[1]) = 0 + 1 /\ End(s[2]) = 1 + p /\ End(s[3]) = 1 + p + p
        /\ End(s[4]) = 1 + 2*p + q /\ End(s[5]) = 1 + 2*p + q + q
        /\ End(s[6]) = 1 + 2*p + 2*q + q
    BY <1>4, <1>5
  <2>. QED
    BY <2>1
<1>8. \A i \in 1..6 : s[i].start = IF i = 1 THEN 0 ELSE End(s[i-1])
  <2>. TAKE i \in 1..6
  <2>1. i = 1 \/ i = 2 \/ i = 3 \/ i = 4 \/ i = 5 \/ i = 6
    OBVIOUS
  <2>. QED
    BY <1>6, <1>7, <2>1
<1>9. DOMAIN s = 1..6 /\ Len(s) = 6
  BY <1>4
<1>10. Tiles(s, TrainerStateLengthFor(c))
  BY <1>3, <1>7, <1>8, <1>9 DEF Tiles
<1>. QED
  BY <1>2, <1>4, <1>10

(* Adapters and optimizer state together.                                    *)
LEMMA AdaptersFit ==
  ASSUME NEW c, IsConfig(c)
  PROVE  AdaptersAreConstructors(c)
<1>1. DOMAIN LoraAdaptersFor(c) = 1..(2 * Depth(c))
  BY DEF LoraAdaptersFor
<1>2. \A i \in DOMAIN LoraAdaptersFor(c) :
         LET a == LoraAdaptersFor(c)[i]  s == LoraSlices(c, a.layer) IN
         /\ <<a.A, a.B>> = IF a.target = "attn_q" THEN <<s.aq, s.bq>> ELSE <<s.av, s.bv>>
         /\ MergedInto(c, a) = LayerSlices(c, a.layer)[a.target]
  BY <1>1, AdapterIsConstructors, MergesRight
<1>3. c.lora => Tiles(AdapterTensors(c), LoraParamCountFor(c))
  BY AdaptersTile
<1>. QED
  BY <1>2, <1>3, StateTiles DEF AdaptersAreConstructors

(* Whatever its sizes, a config's exports address its tensors.               *)
LEMMA EveryConfigAddressable ==
  ASSUME NEW c, IsConfig(c)
  PROVE  /\ LayoutIsConstructors(c) /\ AdaptersAreConstructors(c)
         /\ FilesAddressTensors([i \in DOMAIN TensorLayout(c) |-> TensorLayout(c)[i].slice])
         /\ c.lora => FilesAddressTensors(AdapterTensors(c))
BY TableIsConstructors, TableSlices, AdaptersFit, AdaptersTile, FilesAreRead

-----------------------------------------------------------------------------
(* The inductive invariant holds throughout.                                 *)
THEOREM Invariance == Spec => []IInv
<1>1. IInv /\ [Next]_vars => IInv'
  BY TypeStep, FilesStep, CoherentStep, BestStep, PersistedStep, ShippedStep DEF IInv
<1>. QED
  BY InitInvariant, <1>1, PTL DEF Spec

(* Weights and optimizer state that lie beside each other are one snapshot,  *)
(* unless a run was cut short exactly between the two renames.               *)
THEOREM PairsMatchHolds == Spec => []PairsMatch
<1>1. IInv => PairsMatch
  BY DEF IInv
<1>. QED
  BY Invariance, <1>1, PTL

(* A run that ended leaves its step with the lowest recorded loss.           *)
THEOREM BestIsShippedHolds == Spec => []BestIsShipped
<1>1. IInv => BestIsShipped
  BY DEF IInv
<1>. QED
  BY Invariance, <1>1, PTL

(* The device has the host's weights, evaluations leave no trace, and the    *)
(* base of adapters stays as it was.                                         *)
THEOREM ModelCoherentHolds == Spec => []ModelCoherent
<1>1. IInv => ModelCoherent
  BY DEF IInv, RunCoherent, ModelCoherent
<1>. QED
  BY Invariance, <1>1, PTL

(* The tensor table, the adapters and the offsets in the files of an export  *)
(* are those the model trained with, for every shape, depth and rank.        *)
THEOREM ExportsAddressTensorsHolds == Spec => []ExportsAddressTensors
<1>1. IInv => ExportsAddressTensors
  <2>1. Configs \subseteq Addressable
    BY ConfigsAssumption, EveryConfigAddressable, Zenon DEF Addressable
  <2>2. IInv => (handle # None => handle.cfg \in Configs)
    BY DEF IInv, TypeOK
  <2>. QED
    BY <2>1, <2>2 DEF ExportsAddressTensors
<1>. QED
  BY Invariance, <1>1, PTL
===============================================================================
