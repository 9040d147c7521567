--------------------------- MODULE PipelineBuilder ---------------------------
(***************************************************************************)
(* PipelineBuilder: per-stage buckets of step descriptors, edited by any   *)
(* sequence of calls and flattened into the array Runtime drives.  A       *)
(* descriptor is its stage and its type; its function does not matter to   *)
(* any edit.                                                               *)
(***************************************************************************)
EXTENDS Naturals, Sequences, FiniteSets, SequencesExt

CONSTANTS
  StageOrder,    \* the stages in drive order; the last one is SEND
  PillarStages,  \* the stages that hold one step at most
  StepTypes,     \* descriptor types
  MaxSteps       \* bound: descriptors in the builder

Stages == ToSet(StageOrder)
SendStage == Last(StageOrder)

ASSUME BuilderAssumption ==
  /\ StageOrder \in Seq(Stages) /\ StageOrder # <<>> /\ IsInjective(StageOrder)
  /\ PillarStages \subseteq Stages \ {SendStage}
  /\ MaxSteps \in Nat

VARIABLES
  buckets,  \* the steps of each stage, in order
  built,    \* the step array of the last build()
  editEnded   \* how the last call ended

builderVars == <<buckets, built, editEnded>>

Descriptors == [stage : Stages, type : StepTypes]

BuilderInit ==
  /\ buckets = [s \in Stages |-> <<>>]
  /\ built = <<>>
  /\ editEnded = "ok"

-----------------------------------------------------------------------------
(* The validation every edit begins with.  Each fails before any change.   *)

\* Mutant: only a step of the same type occupies a pillar.
PillarSlotByType(bs, d) ==
  IF d.stage \notin PillarStages THEN "ok"
  ELSE IF \E i \in DOMAIN bs[d.stage] : bs[d.stage][i].type = d.type THEN "occupied" ELSE "ok"

\* #pillarSlot: a pillar slot is free, holds a step of this type already, or
\* collides.  Other stages are always free.
PillarSlot(bs, d) ==
  IF d.stage \notin PillarStages \/ bs[d.stage] = <<>> THEN "ok"
  ELSE IF Head(bs[d.stage]).type = d.type THEN "occupied" ELSE "collides"

\* #requireAnchor: the first step of the type in stage order, as its stage
\* and index; <<>> when there is none.
Anchor(bs, type) ==
  LET holding(i) == \E j \in DOMAIN bs[StageOrder[i]] : bs[StageOrder[i]][j].type = type
      first == {i \in DOMAIN StageOrder : holding(i) /\ \A k \in 1 .. i - 1 : ~holding(k)}
  IN  IF first = {} THEN <<>>
      ELSE LET s == StageOrder[CHOOSE i \in first : TRUE]
           IN  <<s, SelectInSeq(bs[s], LAMBDA d : d.type = type)>>

\* The anchor checks of insertAfter, insertBefore and replace.
AnchorFits(bs, type, d) ==
  d.stage # SendStage /\ Anchor(bs, type) # <<>> /\ Anchor(bs, type)[1] = d.stage

-----------------------------------------------------------------------------
(* Edits as functions of the buckets; <<>> stands for a throw.             *)

Throws == <<>>

AppendStep(bs, d) ==
  IF d.stage = SendStage \/ PillarSlot(bs, d) = "collides" THEN Throws
  ELSE IF PillarSlot(bs, d) = "occupied" THEN bs
  ELSE [bs EXCEPT ![d.stage] = Append(@, d)]

PrependStep(bs, d) ==
  IF d.stage = SendStage \/ PillarSlot(bs, d) = "collides" THEN Throws
  ELSE IF PillarSlot(bs, d) = "occupied" THEN bs
  ELSE [bs EXCEPT ![d.stage] = <<d>> \o @]

\* insertAfter (offset 1) and insertBefore (offset 0): the anchor is sought
\* before the slot is looked at.
InsertAtAnchor(bs, type, d, offset) ==
  IF ~AnchorFits(bs, type, d) \/ PillarSlot(bs, d) = "collides" THEN Throws
  ELSE IF PillarSlot(bs, d) = "occupied" THEN bs
  ELSE [bs EXCEPT ![d.stage] = InsertAt(@, Anchor(bs, type)[2] + offset, d)]

\* replace does not look at the pillar slot: it swaps one step for one.
ReplaceStep(bs, type, d) ==
  IF ~AnchorFits(bs, type, d) THEN Throws
  ELSE [bs EXCEPT ![d.stage] = ReplaceAt(@, Anchor(bs, type)[2], d)]

\* The steps of a list at some positions, in order.
Those(ds, positions) ==
  FlattenSeq([i \in 1 .. Len(ds) |-> IF i \in positions THEN <<ds[i]>> ELSE <<>>])

RemoveType(bs, type) ==
  [s \in Stages |-> Those(bs[s], {i \in DOMAIN bs[s] : bs[s][i].type # type})]

\* reload validates the whole list, a repeated pillar type counting once,
\* before it clears anything.
Reload(ds) ==
  LET pillar(i) == ds[i].stage \in PillarStages
      sameSlot(i, j) == pillar(i) /\ ds[i].stage = ds[j].stage
      admitted(i) == \A j \in 1 .. i - 1 : ~sameSlot(i, j)
  IN  IF \/ \E i \in DOMAIN ds : ds[i].stage = SendStage
         \/ \E i, j \in DOMAIN ds : sameSlot(i, j) /\ ds[i].type # ds[j].type
      THEN Throws
      ELSE [s \in Stages |-> Those(ds, {i \in DOMAIN ds : ds[i].stage = s /\ admitted(i)})]

\* build: the buckets in stage order, SEND excepted.
Flatten(bs) == FlattenSeq([i \in 1 .. Len(StageOrder) - 1 |-> bs[StageOrder[i]]])

\* appendAll over the steps of a built runtime, on a fresh builder: what
\* seedFrom in flatten mode starts with.
SeedFrom(steps) ==
  FoldLeft(LAMBDA bs, d : AppendStep(bs, d), [s \in Stages |-> <<>>], steps)

-----------------------------------------------------------------------------
(* Actions                                                                 *)

StepCount(bs) == Len(Flatten(bs))

\* One edit: its result, or the builder as it was and an error.
Edit(result) ==
  /\ IF result = Throws THEN editEnded' = "threw" /\ UNCHANGED buckets
                        ELSE editEnded' = "ok" /\ buckets' = result
  /\ UNCHANGED built

Room == StepCount(buckets) < MaxSteps

AppendOne == Room /\ \E d \in Descriptors : Edit(AppendStep(buckets, d))
PrependOne == Room /\ \E d \in Descriptors : Edit(PrependStep(buckets, d))
InsertOne == Room /\ \E d \in Descriptors, t \in StepTypes, offset \in {0, 1} :
  Edit(InsertAtAnchor(buckets, t, d, offset))
ReplaceOne == \E d \in Descriptors, t \in StepTypes : Edit(ReplaceStep(buckets, t, d))
RemoveSteps == \E t \in StepTypes : Edit(RemoveType(buckets, t))
ReloadAll == \E d1, d2 \in Descriptors : Edit(Reload(<<d1, d2>>))

\* appendAll and prependAll stop at the first step that throws, with the ones
\* before it in place.
AddAll(front) ==
  /\ StepCount(buckets) + 2 <= MaxSteps
  /\ \E d1, d2 \in Descriptors :
       LET Add(bs, d) == IF front THEN PrependStep(bs, d) ELSE AppendStep(bs, d)
           first == Add(buckets, d1)
           second == IF first = Throws THEN Throws ELSE Add(first, d2) IN
         /\ editEnded' = IF second = Throws THEN "threw" ELSE "ok"
         /\ buckets' = IF second # Throws THEN second
                       ELSE IF first # Throws THEN first ELSE buckets
         /\ UNCHANGED built
AppendAll == AddAll(FALSE)
PrependAll == AddAll(TRUE)

Build ==
  /\ built' = Flatten(buckets)
  /\ editEnded' = "ok"
  /\ UNCHANGED buckets

\* seedFrom(runtime, "flatten"): the next builder starts from what was built.
Seed ==
  /\ buckets' = SeedFrom(built)
  /\ editEnded' = "ok"
  /\ UNCHANGED built

BuilderNext ==
  \/ AppendOne \/ PrependOne \/ InsertOne \/ ReplaceOne \/ RemoveSteps
  \/ ReloadAll \/ AppendAll \/ PrependAll \/ Build \/ Seed

BuilderSpec == BuilderInit /\ [][BuilderNext]_builderVars

-----------------------------------------------------------------------------
(* Properties                                                              *)

PositionOf(stage) == CHOOSE i \in DOMAIN StageOrder : StageOrder[i] = stage

\* Whatever sequence of edits led here, some of them failing half way, a build
\* gives the cursor an array in stage order, with one step at most per pillar
\* and none in SEND, and seeding a builder from it and building again gives
\* the same array (PipelineBuilder, which Cursor relies on: it runs whatever
\* array it is handed).
BuildsAreDrivable ==
  LET steps == Flatten(buckets) IN
    /\ \A i, j \in DOMAIN steps :
         i < j => /\ PositionOf(steps[i].stage) <= PositionOf(steps[j].stage)
                  /\ steps[i].stage \in PillarStages => steps[i].stage # steps[j].stage
    /\ buckets[SendStage] = <<>>
    /\ SeedFrom(steps) # Throws
    /\ Flatten(SeedFrom(steps)) = steps
=============================================================================
