--------------------------- MODULE SpotlightSketch ---------------------------
(* The sketch behind the footer: useSpotlightSketch with the transitions of  *)
(* useTransitionState, drawn by an endless chain of animation frames into a  *)
(* canvas the hook creates, with WebGL objects it has to delete.             *)
(*                                                                           *)
(* The footer renders again whenever a link is entered or left.  Whether the *)
(* drawing effect then runs again is up to the compiler: the transitions it  *)
(* depends on are new objects each time unless they are memoised.            *)
EXTENDS FiniteSets, Integers

CONSTANTS
    Sides,        \* sides a link lights up
    None,         \* no side, no frame, no canvas, no failure
    Sizes,        \* sizes of the container, 0 among them
    VertexTime,   \* duration of vertexTransition, in the time of a frame
    ColorTime,    \* of colorTransition
    SlowFrame,    \* the longest time between two frames
    MaxEffects,   \* bound on runs of the drawing effect
    MaxResizes    \* bound on changes of the container

ASSUME SketchAssumption ==
    /\ None \notin Sides /\ None \notin Nat
    /\ 0 \in Sizes /\ Sizes \subseteq Nat
    /\ VertexTime \in Nat \ {0} /\ ColorTime \in 1 .. VertexTime
    /\ SlowFrame \in Nat \ {0}
    /\ MaxEffects \in Nat \ {0} /\ MaxResizes \in Nat

Targets == Sides \union {None}
FrameIds == 1 .. 3

VARIABLES
    mounted, visible,
    container,    \* size of the container
    resizes,      \* its changes so far
    unobserved,   \* the ResizeObserver has yet to report it
    target,       \* spotlightTargetRef
    effects,      \* runs of the drawing effect; the last one isMounted
    canvas,       \* size of the canvas in canvasRef
    objects,      \* WebGL objects not deleted, each with its run
    resources,    \* webglResourcesRef: the run they belong to
    frames,       \* animation frames asked for
    frameRef,     \* animationFrameRef
    lit,          \* activeSpotlightRef
    applied,      \* appliedSizeRef
    shape,        \* vertexTransition: what it leads to and its progress
    color,        \* colorTransition
    blend,        \* BLEND is enabled
    jumped        \* history: the last transition took a single frame

pageVars == <<mounted, visible, container, resizes, unobserved>>
effectVars == <<effects, canvas, objects, resources>>
frameVars == <<frames, frameRef>>
drawVars == <<lit, applied, shape, color, blend, jumped>>
vars == <<pageVars, target, effectVars, frameVars, drawVars>>

-----------------------------------------------------------------------------
(* useTransitionState. *)

JumpTo(v, time) == [to |-> v, progress |-> time]

StartTransition(v) == [to |-> v, progress |-> 0]

StepBy(t, delta, time) ==
    [t EXCEPT !.progress = IF @ + delta < time THEN @ + delta ELSE time]

-----------------------------------------------------------------------------
(* createShader, createProgram and the buffers, each of which may fail.      *)

Shaders == {"vertexShader", "fragmentShader"}
Kept == {"program", "vertexBuffer", "snowflakeBuffer"}
Failures == Shaders \union {"context", "program", "link", "vertexBuffer", "snowflakeBuffer"}

ASSUME FailureAssumption == None \notin Failures

\* Both shaders are tried whatever becomes of the first, and so are the buffers.
Created(f) ==
    CASE f = "context" -> {}
      [] f \in Shaders -> Shaders \ {f}
      [] f = "program" -> Shaders
      [] f = "link"    -> Shaders \union {"program"}
      [] OTHER         -> (Shaders \union Kept) \ {f}

DeletedByProgram(f) ==
    IF f = "link" THEN Shaders \union {"program"} ELSE Shaders

\* Mutant: a failing buffer takes the other one with it, but not the program.
DeletedButProgram(f) ==
    DeletedByProgram(f)
        \union IF f \in Kept \ {"program"} THEN Kept \ {"program", f} ELSE {}

DeletedOnFailure(f) ==
    DeletedByProgram(f)
        \union IF f \in Kept \ {"program"} THEN Kept \ {f} ELSE {}

-----------------------------------------------------------------------------
(* The drawing effect and its cleanup. *)

NewFrame(others, run, since) ==
    [id |-> CHOOSE n \in FrameIds : n # frameRef /\ \A f \in others : f.id # n,
     of |-> run, since |-> since]

Ask(others, run, since) ==
    LET f == NewFrame(others, run, since)
    IN  frames' = others \union {f} /\ frameRef' = f.id

Uncancelled == {f \in frames : f.id # frameRef}

Undeleted == objects \ {<<resources, o>> : o \in Kept}

\* f is what fails, None if nothing does.  A canvas without a context stays,
\* but nothing is drawn on it.
DrawingEffect(f, others, left) ==
    /\ effects < MaxEffects
    /\ effects' = effects + 1
    /\ canvas' = IF f \in {None, "context"} THEN container ELSE None
    /\ objects' = left \union {<<effects', o>> : o \in Created(f) \ DeletedOnFailure(f)}
    /\ resources' = IF f = None THEN effects' ELSE None
    /\ IF f # None
       THEN frames' = others /\ frameRef' = None /\ UNCHANGED drawVars
       ELSE /\ Ask(others, effects', "start")
            /\ lit' = None /\ applied' = container
            /\ shape' = JumpTo([side |-> None, size |-> container], VertexTime)
            /\ color' = JumpTo(FALSE, ColorTime)
            /\ blend' = FALSE /\ jumped' = FALSE

\* The footer renders, and its effect runs again after the cleanup of the last.
RerunEffect(f) ==
    /\ mounted
    /\ DrawingEffect(f, Uncancelled, Undeleted)
    /\ UNCHANGED <<pageVars, target>>

\* The resize effect follows: its observer reports once at the start.
Mount(f) ==
    /\ ~mounted /\ mounted' = TRUE
    /\ DrawingEffect(f, frames, objects)
    /\ unobserved' = TRUE /\ target' = None
    /\ UNCHANGED <<visible, container, resizes>>

Unmount ==
    /\ mounted /\ mounted' = FALSE
    /\ frames' = Uncancelled /\ frameRef' = None
    /\ objects' = Undeleted /\ resources' = None /\ canvas' = None
    /\ unobserved' = FALSE
    /\ UNCHANGED <<visible, container, resizes, target, effects, drawVars>>

Init ==
    /\ mounted = FALSE /\ visible \in BOOLEAN
    /\ container \in Sizes /\ resizes = 0 /\ unobserved = FALSE
    /\ target = None
    /\ effects = 0 /\ canvas = None /\ objects = {} /\ resources = None
    /\ frames = {} /\ frameRef = None
    /\ lit = None /\ applied = 0
    /\ shape = JumpTo([side |-> None, size |-> 0], VertexTime)
    /\ color = JumpTo(FALSE, ColorTime)
    /\ blend = FALSE /\ jumped = FALSE

-----------------------------------------------------------------------------
(* One frame.  The first one, and one asked for when the page shows again,   *)
(* count no time before them.                                                *)

Deltas(since) ==
    CASE since = "start"  -> {0}
      [] since = "shown"  -> {0, 1}
      [] since = "frame"  -> 1 .. SlowFrame

\* Mutant: only a new size starts a transition.
RestartBySize == applied # canvas

Restart == target # lit \/ applied # canvas

\* Mutant: BLEND is enabled with the snowflakes and never disabled.
BlendEnabled(drawn) == blend \/ (canvas > 0 /\ target # None)

\* The spotlight is drawn without, then the snowflakes with BLEND over it.
BlendAfter(drawn) ==
    IF canvas > 0 /\ target # None THEN TRUE ELSE blend /\ ~drawn

Draw(delta) ==
    LET newShape == IF Restart THEN StartTransition([side |-> target, size |-> canvas])
                               ELSE shape
        newColor == IF Restart THEN StartTransition(target # None) ELSE color
        animating == shape'.progress < VertexTime \/ color'.progress < ColorTime
    IN  /\ shape' = StepBy(newShape, delta, VertexTime)
        /\ color' = StepBy(newColor, delta, ColorTime)
        /\ lit' = target /\ applied' = canvas
        /\ blend' = BlendAfter((target # None \/ animating) /\ canvas > 0)
        /\ jumped' = IF Restart THEN ~animating ELSE jumped

Frame(f) ==
    /\ visible
    /\ IF mounted /\ f.of = effects /\ resources # None
       THEN /\ \E delta \in Deltas(f.since) : Draw(delta)
            /\ Ask(frames \ {f}, f.of, "frame")
       ELSE frames' = frames \ {f} /\ UNCHANGED <<frameRef, drawVars>>
    /\ UNCHANGED <<pageVars, target, effectVars>>

-----------------------------------------------------------------------------
(* Events. *)

\* handleVisibilityChange listens while the drawing effect lasts.
Hide ==
    /\ visible /\ visible' = FALSE
    /\ IF resources # None
       THEN frames' = Uncancelled /\ frameRef' = None
       ELSE UNCHANGED frameVars
    /\ UNCHANGED <<mounted, container, resizes, unobserved, target, effectVars, drawVars>>

\* Mutant: every return of the page asks for a frame.
ShowAsking ==
    /\ ~visible /\ visible' = TRUE
    /\ IF resources # None THEN Ask(frames, effects, "shown") ELSE UNCHANGED frameVars
    /\ UNCHANGED <<mounted, container, resizes, unobserved, target, effectVars, drawVars>>

Show ==
    /\ ~visible /\ visible' = TRUE
    /\ IF resources # None /\ frameRef = None
       THEN Ask(frames, effects, "shown")
       ELSE UNCHANGED frameVars
    /\ UNCHANGED <<mounted, container, resizes, unobserved, target, effectVars, drawVars>>

\* The pointer or the focus enters a link, or leaves it.
Spot(s) ==
    /\ mounted /\ s # target
    /\ target' = s
    /\ UNCHANGED <<pageVars, effectVars, frameVars, drawVars>>

Resize(s) ==
    /\ resizes < MaxResizes /\ s # container
    /\ container' = s /\ resizes' = resizes + 1
    /\ unobserved' = mounted
    /\ UNCHANGED <<mounted, visible, target, effectVars, frameVars, drawVars>>

Observe ==
    /\ unobserved /\ unobserved' = FALSE
    /\ canvas' = IF canvas = None THEN None ELSE container
    /\ UNCHANGED <<mounted, visible, container, resizes, target, effects, objects,
                   resources, frameVars, drawVars>>

-----------------------------------------------------------------------------
Footer == \E f \in Failures \union {None} : Mount(f) \/ RerunEffect(f)

SomeFrame == \E f \in frames : Frame(f)

Next ==
    \/ Footer \/ Unmount
    \/ SomeFrame
    \/ Hide \/ Show
    \/ \E s \in Targets : Spot(s)
    \/ \E s \in Sizes : Resize(s)
    \/ Observe

Spec == Init /\ [][Next]_vars

\* A page that shows gets its frames, and sizes are reported.
FairSpec == Spec /\ WF_vars(SomeFrame) /\ WF_vars(Observe)

-----------------------------------------------------------------------------
(* Properties. *)

\* Types of all variables.
TypeOK ==
    /\ mounted \in BOOLEAN /\ visible \in BOOLEAN /\ unobserved \in BOOLEAN
    /\ container \in Sizes /\ resizes \in 0 .. MaxResizes
    /\ target \in Targets /\ lit \in Targets
    /\ effects \in 0 .. MaxEffects /\ resources \in {None} \union 1 .. effects
    /\ canvas \in Sizes \union {None} /\ applied \in Sizes
    /\ objects \subseteq (1 .. effects) \X (Shaders \union Kept)
    /\ frames \subseteq [id : FrameIds, of : 1 .. effects, since : {"start", "shown", "frame"}]
    /\ frameRef \in FrameIds \union {None}
    /\ shape \in [to : [side : Targets, size : Sizes], progress : 0 .. VertexTime]
    /\ color \in [to : BOOLEAN, progress : 0 .. ColorTime]
    /\ blend \in BOOLEAN /\ jumped \in BOOLEAN

Drawing == mounted /\ resources # None

\* While the sketch shows there is exactly one chain of frames, the one
\* animationFrameRef can cancel, however renders, hiding and showing the page
\* and unmounting follow each other; without a sketch there is none.
OneLoop ==
    /\ Cardinality(frames) <= 1
    /\ \A f \in frames : Drawing /\ f.of = effects /\ f.id = frameRef
    /\ (Drawing /\ visible) => frames # {}

\* Every WebGL object created is deleted unless the sketch uses it, whichever
\* call fails and however often the effect runs.
NothingLeaks ==
    objects = IF resources = None THEN {} ELSE {<<resources, o>> : o \in Kept}

\* The snowflakes blend with what is below them in the light only: once the
\* spotlight is out they are drawn opaque - unless a frame took as long as the
\* whole transition: the spotlight is then not drawn once more, and BLEND stays.
FlakesBlendInTheLight ==
    (Drawing /\ applied = canvas /\ canvas > 0 /\ ~jumped) => (blend <=> lit # None)

\* The spotlight comes to rest on the link that is entered, and goes out when
\* it is left, whatever happens to the canvas on the way.
SpotlightFollows ==
    \A s \in Targets :
        (Drawing /\ visible /\ target = s)
            ~> \/ ~(Drawing /\ visible /\ target = s)
               \/ /\ shape = JumpTo([side |-> s, size |-> canvas], VertexTime)
                  /\ color = JumpTo(s # None, ColorTime)
=============================================================================
