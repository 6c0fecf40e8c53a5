------------------------ MODULE SpotlightSketch_proofs ------------------------
(***************************************************************************)
(* What SpotlightSketch promises, for any sides, sizes, durations and any  *)
(* number of effect runs: the types, the single chain of frames, the       *)
(* deleted WebGL objects and the snowflakes' blending.                     *)
(***************************************************************************)
EXTENDS SpotlightSketch, FiniteSetTheorems, TLAPS

(***************************************************************************)
(* The invariant                                                           *)
(***************************************************************************)

\* A sketch is that of the last run of the effect, on a canvas, while the
\* footer is mounted.
SketchIsCurrent ==
    resources # None => resources = effects /\ mounted /\ canvas # None

\* animationFrameRef names the one frame asked for, or nothing.
RefNamesTheFrame ==
    \/ frameRef = None /\ frames = {}
    \/ frameRef # None /\ \E f \in frames : frames = {f} /\ f.id = frameRef

FramesAreOfTheSketch ==
    /\ \A f \in frames : Drawing /\ f.of = effects
    /\ Drawing /\ visible => frames # {}

\* What was drawn last decides, whatever has become of the canvas since.
BlendFollowsLight ==
    (Drawing /\ applied > 0 /\ ~jumped) => (blend <=> lit # None)

IInv ==
    /\ TypeOK
    /\ SketchIsCurrent /\ RefNamesTheFrame /\ FramesAreOfTheSketch
    /\ NothingLeaks /\ BlendFollowsLight

-----------------------------------------------------------------------------
USE SketchAssumption, FailureAssumption
    DEF pageVars, effectVars, frameVars, drawVars, vars, Targets, FrameIds, Drawing

(***************************************************************************)
(* Lemmas about the operators                                              *)
(***************************************************************************)

\* Where no frame is asked for, the new one is all there is.
LEMMA AskedFrame ==
    ASSUME NEW run \in 1..effects', NEW since \in {"start", "shown", "frame"}, Ask({}, run, since)
    PROVE  \E f \in [id : FrameIds, of : {run}, since : {since}] :
              frames' = {f} /\ frameRef' = f.id /\ frameRef' \in FrameIds
<1> DEFINE f == NewFrame({}, run, since)
<1>1. \E n \in FrameIds : n # frameRef /\ \A g \in {} : g.id # n
  <2>1. 1 \in FrameIds /\ 2 \in FrameIds /\ 1 # 2
    OBVIOUS
  <2> QED
    BY <2>1
<1>2. f.id \in FrameIds
  BY <1>1 DEF NewFrame
<1>3. f \in [id : FrameIds, of : {run}, since : {since}]
  BY <1>2 DEF NewFrame
<1>4. frames' = {} \union {f} /\ frameRef' = f.id
  BY DEF Ask
<1> HIDE DEF f
<1> QED
  BY <1>2, <1>3, <1>4

\* A setup that fails deletes what it created; one that succeeds keeps the
\* program and the buffers.
LEMMA SetupKeeps ==
    ASSUME NEW f \in Failures \union {None}
    PROVE  Created(f) \ DeletedOnFailure(f) = IF f = None THEN Kept ELSE {}
<1> USE DEF Created, DeletedOnFailure, DeletedByProgram, Shaders, Kept
<1>1. CASE f = None
  BY <1>1 DEF Failures
<1>2. CASE f = "context"
  BY <1>2 DEF Failures
<1>3. CASE f \in Shaders
  BY <1>3 DEF Failures
<1>4. CASE f = "program"
  BY <1>4 DEF Failures
<1>5. CASE f = "link"
  BY <1>5 DEF Failures
<1>6. CASE f \in {"vertexBuffer", "snowflakeBuffer"}
  BY <1>6 DEF Failures
<1> QED
  BY <1>1, <1>2, <1>3, <1>4, <1>5, <1>6 DEF Failures

\* A transition's progress stays within its duration.
LEMMA StepType ==
    ASSUME NEW S, NEW time \in Nat, NEW t \in [to : S, progress : 0..time], NEW delta \in Nat
    PROVE  StepBy(t, delta, time) \in [to : S, progress : 0..time]
<1>1. (IF t.progress + delta < time THEN t.progress + delta ELSE time) \in 0..time
  OBVIOUS
<1> QED
  BY <1>1 DEF StepBy

\* The cleanup cancels the frame and deletes the objects.
LEMMA CleanupLeavesNothing ==
    ASSUME RefNamesTheFrame, NothingLeaks
    PROVE  Uncancelled = {} /\ Undeleted = {}
<1>1. Uncancelled = {}
  BY DEF RefNamesTheFrame, Uncancelled
<1>2. Undeleted = {}
  BY DEF NothingLeaks, Undeleted
<1> QED
  BY <1>1, <1>2

(***************************************************************************)
(* The steps                                                               *)
(***************************************************************************)

\* It holds before the footer is there.
LEMMA InitInv == Init => IInv
<1> SUFFICES ASSUME Init PROVE IInv
  OBVIOUS
<1>1. TypeOK
  <2>1. /\ shape \in [to : [side : Targets, size : Sizes], progress : 0..VertexTime]
        /\ color \in [to : BOOLEAN, progress : 0..ColorTime]
    <3>1. VertexTime \in 0..VertexTime /\ ColorTime \in 0..ColorTime
      OBVIOUS
    <3>2. [side |-> None, size |-> 0] \in [side : Targets, size : Sizes]
      OBVIOUS
    <3> QED
      BY <3>1, <3>2 DEF Init, JumpTo
  <2>2. /\ resizes \in 0..MaxResizes /\ effects \in 0..MaxEffects
        /\ applied \in Sizes /\ objects = {} /\ frames = {}
    BY DEF Init
  <2> QED
    BY <2>1, <2>2 DEF Init, TypeOK
<1>2. /\ SketchIsCurrent /\ RefNamesTheFrame /\ FramesAreOfTheSketch
      /\ NothingLeaks /\ BlendFollowsLight
  BY DEF Init, SketchIsCurrent, RefNamesTheFrame, FramesAreOfTheSketch, NothingLeaks,
     BlendFollowsLight
<1> QED
  BY <1>1, <1>2 DEF IInv

\* The effect starts from nothing: its predecessor has been cleaned up.
LEMMA EffectStep ==
    ASSUME IInv, NEW f \in Failures \union {None}, DrawingEffect(f, {}, {}), mounted',
           UNCHANGED <<visible, container, resizes>>,
           target' \in Targets, unobserved' \in BOOLEAN
    PROVE  IInv'
<1>0. /\ effects' = effects + 1 /\ effects \in 0..MaxEffects /\ effects < MaxEffects
      /\ container \in Sizes /\ Sizes \subseteq Nat
      /\ canvas' = IF f \in {None, "context"} THEN container ELSE None
      /\ objects' = {<<effects', o>> : o \in Created(f) \ DeletedOnFailure(f)}
      /\ resources' = IF f = None THEN effects' ELSE None
      /\ visible \in BOOLEAN /\ mounted' \in BOOLEAN /\ resizes \in 0..MaxResizes
  <2>1. objects' = {} \union {<<effects', o>> : o \in Created(f) \ DeletedOnFailure(f)}
    BY DEF DrawingEffect
  <2>2. mounted' \in BOOLEAN
    BY DEF DrawingEffect, Mount, RerunEffect
  <2> QED
    BY <2>1, <2>2 DEF DrawingEffect, IInv, TypeOK
<1>1. effects' \in 1..MaxEffects /\ effects' # None
  BY <1>0
<1>2. NothingLeaks'
  <2>1. CASE f = None
    BY <1>0, <1>1, <2>1, SetupKeeps DEF NothingLeaks
  <2>2. CASE f # None
    BY <1>0, <1>1, <2>2, SetupKeeps DEF NothingLeaks
  <2> QED
    BY <2>1, <2>2
<1>3. SketchIsCurrent'
  BY <1>0, <1>1 DEF SketchIsCurrent
<1>4. objects' \subseteq (1..effects') \X (Shaders \union Kept)
  BY <1>0, <1>1, SetupKeeps
<1>5. CASE f = None
  <2>1. PICK g \in [id : FrameIds, of : {effects'}, since : {"start"}] :
           frames' = {g} /\ frameRef' = g.id /\ frameRef' \in FrameIds
    BY <1>1, <1>5, AskedFrame DEF DrawingEffect
  <2>2. RefNamesTheFrame' /\ FramesAreOfTheSketch'
    BY <1>0, <1>1, <1>5, <2>1 DEF RefNamesTheFrame, FramesAreOfTheSketch
  <2>3. /\ lit' = None /\ applied' = container
        /\ shape' = JumpTo([side |-> None, size |-> container], VertexTime)
        /\ color' = JumpTo(FALSE, ColorTime)
        /\ blend' = FALSE /\ jumped' = FALSE
    BY <1>5 DEF DrawingEffect
  <2>4. BlendFollowsLight'
    BY <2>3 DEF BlendFollowsLight
  <2>5. /\ shape' \in [to : [side : Targets, size : Sizes], progress : 0..VertexTime]
        /\ color' \in [to : BOOLEAN, progress : 0..ColorTime]
    BY <1>0, <2>3 DEF JumpTo
  <2>6. g \in [id : FrameIds, of : 1..effects', since : {"start", "shown", "frame"}]
    BY <1>1, <2>1
  <2>7. TypeOK'
    <3>1. frames' \subseteq
             [id : FrameIds, of : 1..effects', since : {"start", "shown", "frame"}]
      BY <2>1, <2>6
    <3>2. resources' \in 1..effects' /\ effects' \in 0..MaxEffects /\ canvas' \in Sizes
      BY <1>0, <1>1, <1>5
    <3> QED
      BY <1>0, <1>4, <2>1, <2>3, <2>5, <3>1, <3>2 DEF TypeOK
  <2> QED
    BY <1>2, <1>3, <2>2, <2>4, <2>7 DEF IInv
<1>6. CASE f # None
  <2>1. frames' = {} /\ frameRef' = None /\ UNCHANGED drawVars
    BY <1>6 DEF DrawingEffect
  <2>2. RefNamesTheFrame' /\ FramesAreOfTheSketch' /\ BlendFollowsLight'
    BY <1>0, <1>6, <2>1 DEF RefNamesTheFrame, FramesAreOfTheSketch, BlendFollowsLight
  <2>3. TypeOK'
    BY <1>0, <1>1, <1>4, <1>6, <2>1 DEF IInv, TypeOK
  <2> QED
    BY <1>2, <1>3, <2>2, <2>3 DEF IInv
<1> QED
  BY <1>5, <1>6

\* A frame draws and asks for the next one.
LEMMA FrameStep ==
    ASSUME IInv, NEW f \in frames, Frame(f)
    PROVE  IInv'
<1>0. /\ mounted /\ visible /\ resources # None /\ f.of = effects /\ frames = {f}
      /\ resources = effects /\ effects \in 1..MaxEffects /\ canvas \in Sizes
      /\ f.since \in {"start", "shown", "frame"}
  BY DEF IInv, TypeOK, Frame, FramesAreOfTheSketch, RefNamesTheFrame, SketchIsCurrent
<1>1. /\ Ask(frames \ {f}, f.of, "frame")
      /\ UNCHANGED <<pageVars, target, effectVars>>
  BY <1>0 DEF Frame
<1>2. PICK delta \in Deltas(f.since) : Draw(delta)
  BY <1>0 DEF Frame
<1>3. delta \in Nat
  BY <1>0 DEF Deltas
<1>4. PICK g \in [id : FrameIds, of : {effects}, since : {"frame"}] :
         frames' = {g} /\ frameRef' = g.id /\ frameRef' \in FrameIds
  <2>1. frames \ {f} = {} /\ f.of \in 1..effects'
    BY <1>0, <1>1
  <2> QED
    BY <1>0, <1>1, <2>1, AskedFrame
<1> DEFINE newShape == IF Restart THEN StartTransition([side |-> target, size |-> canvas])
                                  ELSE shape
           newColor == IF Restart THEN StartTransition(target # None) ELSE color
           animating == shape'.progress < VertexTime \/ color'.progress < ColorTime
<1>5. /\ shape' = StepBy(newShape, delta, VertexTime)
      /\ color' = StepBy(newColor, delta, ColorTime)
      /\ lit' = target /\ applied' = canvas
      /\ blend' = BlendAfter((target # None \/ animating) /\ canvas > 0)
      /\ jumped' = IF Restart THEN ~animating ELSE jumped
  BY <1>2 DEF Draw
<1>6. /\ newShape \in [to : [side : Targets, size : Sizes], progress : 0..VertexTime]
      /\ newColor \in [to : BOOLEAN, progress : 0..ColorTime]
  BY <1>0 DEF IInv, TypeOK, StartTransition
<1>7. /\ shape' \in [to : [side : Targets, size : Sizes], progress : 0..VertexTime]
      /\ color' \in [to : BOOLEAN, progress : 0..ColorTime]
  <2> HIDE DEF newShape, newColor
  <2>1. VertexTime \in Nat /\ ColorTime \in Nat
    OBVIOUS
  <2> QED
    BY <1>3, <1>5, <1>6, <2>1, StepType
<1> HIDE DEF newShape, newColor, animating
<1>8. blend' \in BOOLEAN /\ jumped' \in BOOLEAN
  BY <1>5 DEF IInv, TypeOK, BlendAfter, animating
<1>9. TypeOK'
  BY <1>0, <1>1, <1>4, <1>5, <1>7, <1>8 DEF IInv, TypeOK
<1>10. SketchIsCurrent' /\ NothingLeaks'
  BY <1>1 DEF IInv, SketchIsCurrent, NothingLeaks
<1>11. RefNamesTheFrame' /\ FramesAreOfTheSketch'
  BY <1>0, <1>1, <1>4 DEF RefNamesTheFrame, FramesAreOfTheSketch
<1>12. BlendFollowsLight'
  <2> SUFFICES ASSUME canvas > 0, ~jumped'
               PROVE  blend' <=> target # None
    BY <1>5 DEF BlendFollowsLight
  <2>1. CASE target # None
    BY <1>5, <2>1 DEF BlendAfter
  <2>2. CASE target = None /\ Restart
    BY <1>5, <2>2 DEF BlendAfter
  <2>3. CASE target = None /\ ~Restart
    <3>1. ~blend
      BY <1>0, <1>5, <2>3 DEF Restart, IInv, BlendFollowsLight
    <3> QED
      BY <1>5, <2>3, <3>1 DEF BlendAfter
  <2> QED
    BY <2>1, <2>2, <2>3
<1> QED
  BY <1>9, <1>10, <1>11, <1>12 DEF IInv

\* Every other event leaves the sketch alone, stops it or starts it again.
LEMMA StepInv ==
    ASSUME IInv, [Next]_vars
    PROVE  IInv'
<1>0. Uncancelled = {} /\ Undeleted = {}
  BY CleanupLeavesNothing DEF IInv
<1>1. ASSUME NEW f \in Failures \union {None}, Mount(f)
      PROVE  IInv'
  <2>1. frames = {} /\ objects = {}
    BY <1>1 DEF Mount, IInv, FramesAreOfTheSketch, SketchIsCurrent, NothingLeaks
  <2>2. DrawingEffect(f, {}, {}) /\ mounted' /\ UNCHANGED <<visible, container, resizes>>
        /\ target' \in Targets /\ unobserved' \in BOOLEAN
    BY <1>1, <2>1 DEF Mount
  <2> QED
    BY <2>2, EffectStep
<1>2. ASSUME NEW f \in Failures \union {None}, RerunEffect(f)
      PROVE  IInv'
  <2>1. DrawingEffect(f, {}, {}) /\ mounted' /\ UNCHANGED <<visible, container, resizes>>
        /\ target' \in Targets /\ unobserved' \in BOOLEAN
    BY <1>0, <1>2 DEF RerunEffect, IInv, TypeOK
  <2> QED
    BY <2>1, EffectStep
<1>3. CASE Unmount
  <2>1. /\ ~mounted' /\ frames' = {} /\ frameRef' = None /\ objects' = {}
        /\ resources' = None /\ canvas' = None /\ mounted' \in BOOLEAN /\ unobserved' \in BOOLEAN
        /\ UNCHANGED <<visible, container, resizes, target, effects, drawVars>>
    BY <1>0, <1>3 DEF Unmount
  <2>2. TypeOK'
    BY <2>1 DEF IInv, TypeOK
  <2> QED
    BY <2>1, <2>2 DEF IInv, SketchIsCurrent, RefNamesTheFrame, FramesAreOfTheSketch,
       NothingLeaks, BlendFollowsLight
<1>4. CASE SomeFrame
  BY <1>4, FrameStep DEF SomeFrame
<1>5. CASE Hide
  <2>1. /\ ~visible' /\ visible' \in BOOLEAN /\ frames' = {} /\ frameRef' = None
        /\ UNCHANGED <<mounted, container, resizes, unobserved, target, effectVars, drawVars>>
    BY <1>0, <1>5 DEF Hide, IInv, FramesAreOfTheSketch, RefNamesTheFrame
  <2>2. TypeOK'
    BY <2>1 DEF IInv, TypeOK
  <2> QED
    BY <2>1, <2>2 DEF IInv, SketchIsCurrent, RefNamesTheFrame, FramesAreOfTheSketch,
       NothingLeaks, BlendFollowsLight
<1>6. CASE Show
  <2>0. /\ visible' /\ visible' \in BOOLEAN
        /\ UNCHANGED <<mounted, container, resizes, unobserved, target, effectVars, drawVars>>
    BY <1>6 DEF Show
  <2>1. SketchIsCurrent' /\ NothingLeaks' /\ BlendFollowsLight'
    BY <2>0 DEF IInv, SketchIsCurrent, NothingLeaks, BlendFollowsLight
  <2>2. CASE resources # None /\ frameRef = None
    <3>1. frames = {} /\ effects \in 1..effects' /\ mounted /\ resources = effects
      BY <2>0, <2>2 DEF IInv, TypeOK, RefNamesTheFrame, SketchIsCurrent
    <3>2. PICK g \in [id : FrameIds, of : {effects}, since : {"shown"}] :
             frames' = {g} /\ frameRef' = g.id /\ frameRef' \in FrameIds
      BY <1>6, <2>2, <3>1, AskedFrame DEF Show
    <3>3. RefNamesTheFrame' /\ FramesAreOfTheSketch'
      BY <2>0, <2>2, <3>1, <3>2 DEF RefNamesTheFrame, FramesAreOfTheSketch
    <3>4. TypeOK'
      BY <2>0, <3>1, <3>2 DEF IInv, TypeOK
    <3> QED
      BY <2>1, <3>3, <3>4 DEF IInv
  <2>3. CASE ~(resources # None /\ frameRef = None)
    <3>1. UNCHANGED frameVars
      BY <1>6, <2>3 DEF Show
    <3>2. RefNamesTheFrame' /\ FramesAreOfTheSketch'
      BY <2>0, <2>3, <3>1 DEF IInv, RefNamesTheFrame, FramesAreOfTheSketch
    <3>3. TypeOK'
      BY <2>0, <3>1 DEF IInv, TypeOK
    <3> QED
      BY <2>1, <3>2, <3>3 DEF IInv
  <2> QED
    BY <2>2, <2>3
<1>7. ASSUME UNCHANGED <<mounted, visible, effects, objects, resources, frameVars, drawVars>>,
             resizes' \in 0..MaxResizes, container' \in Sizes, unobserved' \in BOOLEAN,
             target' \in Targets, canvas' \in Sizes \union {None},
             canvas # None => canvas' # None
      PROVE  IInv'
  <2>1. TypeOK'
    BY <1>7 DEF IInv, TypeOK
  <2>2. SketchIsCurrent' /\ NothingLeaks' /\ BlendFollowsLight'
    BY <1>7 DEF IInv, SketchIsCurrent, NothingLeaks, BlendFollowsLight
  <2>3. RefNamesTheFrame' /\ FramesAreOfTheSketch'
    BY <1>7 DEF IInv, RefNamesTheFrame, FramesAreOfTheSketch
  <2> QED
    BY <2>1, <2>2, <2>3 DEF IInv
<1>8. ASSUME NEW s \in Targets, Spot(s)
      PROVE  IInv'
  BY <1>7, <1>8 DEF Spot, IInv, TypeOK
<1>9. ASSUME NEW s \in Sizes, Resize(s)
      PROVE  IInv'
  <2>1. resizes' \in 0..MaxResizes
    BY <1>9 DEF Resize, IInv, TypeOK
  <2> QED
    BY <1>7, <1>9, <2>1 DEF Resize, IInv, TypeOK
<1>10. CASE Observe
  <2>1. canvas' \in Sizes \union {None} /\ (canvas # None => canvas' # None)
    BY <1>10 DEF Observe, IInv, TypeOK
  <2> QED
    BY <1>7, <1>10, <2>1 DEF Observe, IInv, TypeOK
<1>11. CASE UNCHANGED vars
  BY <1>7, <1>11 DEF IInv, TypeOK
<1> QED
  BY <1>1, <1>2, <1>3, <1>4, <1>5, <1>6, <1>8, <1>9, <1>10, <1>11 DEF Next, Footer

-----------------------------------------------------------------------------
(***************************************************************************)
(* Theorems                                                                *)
(***************************************************************************)

\* The invariant holds in every state.
THEOREM Invariant == Spec => []IInv
BY InitInv, StepInv, PTL DEF Spec

\* Every variable keeps its type.
THEOREM TypeCorrect == Spec => []TypeOK
<1>1. IInv => TypeOK
  BY DEF IInv
<1> QED
  BY <1>1, Invariant, PTL

\* There is one chain of frames while the sketch shows, and none without it.
THEOREM OneChainOfFrames == Spec => []OneLoop
<1>1. ASSUME IInv
      PROVE  OneLoop
  <2>1. Cardinality(frames) <= 1
    <3>1. CASE frames = {}
      BY <3>1, FS_EmptySet
    <3>2. ASSUME NEW f \in frames, frames = {f}
          PROVE  Cardinality(frames) <= 1
      <4>1. Cardinality({f}) = 1
        BY FS_Singleton
      <4> QED
        BY <3>2, <4>1
    <3> QED
      BY <1>1, <3>1, <3>2 DEF IInv, RefNamesTheFrame
  <2>2. \A f \in frames : Drawing /\ f.of = effects /\ f.id = frameRef
    BY <1>1 DEF IInv, FramesAreOfTheSketch, RefNamesTheFrame
  <2> QED
    BY <1>1, <2>1, <2>2 DEF OneLoop, IInv, FramesAreOfTheSketch
<1> QED
  BY <1>1, Invariant, PTL

\* Whichever call fails, what was created is the sketch's or has been deleted.
THEOREM EverythingIsDeleted == Spec => []NothingLeaks
<1>1. IInv => NothingLeaks
  BY DEF IInv
<1> QED
  BY <1>1, Invariant, PTL

\* The snowflakes are drawn opaque once the spotlight is out.
THEOREM FlakesAreOpaqueInTheDark == Spec => []FlakesBlendInTheLight
<1>1. IInv => FlakesBlendInTheLight
  BY DEF IInv, BlendFollowsLight, FlakesBlendInTheLight
<1> QED
  BY <1>1, Invariant, PTL
=============================================================================
