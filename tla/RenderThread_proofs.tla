------------------------ MODULE RenderThread_proofs ------------------------
(***************************************************************************)
(* Proofs about RenderThread, for any number of windows, frames and calls. *)
(***************************************************************************)
EXTENDS RenderThread, SequenceTheorems, TLAPS

USE DEF Gate!Init, Gate!Request, Gate!Open, Gate!Pass, Gate!Replace,
        gateVars, guiVars, decVars

-----------------------------------------------------------------------------
(* Types                                                                   *)

Pcs == {"idle", "blur", "size", "realSize", "redraw", "blurRedraw", "replay",
        "exitRender", "quit", "wait"}

GateType == /\ wanted \in [Widgets -> BOOLEAN]
            /\ open \in [Widgets -> BOOLEAN]
            /\ last \in [Widgets -> Frame]
GuiType  == /\ listLock \in {"free", "gui", "decoder"}
            /\ gui \in [pc : Pcs, w : Widgets \cup {NoWidget}]
            /\ calls \in 0 .. MaxCalls
DecType  == dec \in Widgets \cup {NoWidget} /\ posted \in Frame
WindowType   == window \in [Widgets -> Window]
QueueType    == queue \in [Widgets -> Seq(Event)]
RendererType == renderer \in [Widgets -> Renderer]

LEMMA TypeParts == /\ TypeOK <=> /\ GateType /\ GuiType /\ DecType
                                 /\ WindowType /\ QueueType /\ RendererType
                   /\ TypeOK' <=> /\ GateType' /\ GuiType' /\ DecType'
                                  /\ WindowType' /\ QueueType' /\ RendererType'
  BY DEF TypeOK, GateType, GuiType, DecType, WindowType, QueueType,
         RendererType, Pcs

\* One part of the state changes at a time, and each part keeps its type.
LEMMA SetRendererType ==
    ASSUME RendererType, NEW w \in Widgets, NEW r \in Renderer,
           SetRenderer(w, r)
    PROVE  RendererType'
  BY DEF RendererType, SetRenderer

LEMMA SetWindowType ==
    ASSUME WindowType, NEW w \in Widgets, NEW v \in Window, SetWindow(w, v)
    PROVE  WindowType'
  BY DEF WindowType, SetWindow

LEMMA PostType ==
    ASSUME QueueType, NEW w \in Widgets, NEW f \in Frame,
           NEW kind \in {"update", "redraw", "destroy"}, Post(w, kind, f)
    PROVE  QueueType'
<1> DEFINE e == [kind |-> kind, frame |-> f]
<1>1. e \in Event BY DEF Event
<1>2. \A q \in Seq(Event) : Append(q, e) \in Seq(Event)
  <2> HIDE DEF e
  <2> QED BY <1>1
<1>3. queue' = [queue EXCEPT ![w] = Append(queue[w], e)] BY DEF Post
<1> QED
  <2> HIDE DEF e
  <2> QED BY <1>2, <1>3 DEF QueueType

LEMMA TakesType ==
    ASSUME QueueType, NEW w \in Widgets, NEW kind, Takes(w, kind)
    PROVE  QueueType' /\ Head(queue[w]) \in Event
  BY DEF QueueType, Takes

LEMMA GoesType ==
    ASSUME NEW w \in Widgets, NEW pc \in Pcs, GuiGoes(pc, w)
    PROVE  gui' \in [pc : Pcs, w : Widgets \cup {NoWidget}]
  BY DEF GuiGoes

LEMMA IdleType == GuiIdle \in [pc : Pcs, w : Widgets \cup {NoWidget}]
  BY DEF GuiIdle, Pcs

LEMMA RendererFields ==
    ASSUME NEW r \in Renderer, NEW b \in BOOLEAN
    PROVE  /\ [r EXCEPT !.mUpdateEnabled = b] \in Renderer
           /\ [r EXCEPT !.mBlurEnabled = b] \in Renderer
           /\ [r EXCEPT !.skipped = b] \in Renderer
           /\ [r EXCEPT !.utils = b] \in Renderer
           /\ [r EXCEPT !.quitting = b] \in Renderer
           /\ \A f \in Frame : Import(r, f) \in Renderer
           /\ InitDisplay(r, b) \in Renderer
<1>1. [r EXCEPT !.mUpdateEnabled = b] \in Renderer BY DEF Renderer
<1>2. [r EXCEPT !.mBlurEnabled = b] \in Renderer BY DEF Renderer
<1>3. [r EXCEPT !.skipped = b] \in Renderer BY DEF Renderer
<1>4. [r EXCEPT !.utils = b] \in Renderer BY DEF Renderer
<1>5. [r EXCEPT !.quitting = b] \in Renderer BY DEF Renderer
<1>6. \A f \in Frame : Import(r, f) \in Renderer BY DEF Renderer, Import
<1>7. InitDisplay(r, b) \in Renderer
  <2>1. CASE r.mTryInitCounter < 3
    <3>1. r.mTryInitCounter + 1 \in 0 .. 3 BY <2>1 DEF Renderer
    <3> QED BY <2>1, <3>1 DEF Renderer, InitDisplay
  <2>2. CASE ~(r.mTryInitCounter < 3) BY <2>2 DEF InitDisplay
  <2> QED BY <2>1, <2>2
<1> QED BY <1>1, <1>2, <1>3, <1>4, <1>5, <1>6, <1>7

LEMMA DrawingFields ==
    ASSUME NEW r \in Renderer, NEW s \in Size, NEW b \in BOOLEAN,
           NEW x \in Screen, NEW pc \in {"loop", "region", "shader", "draw",
                                         "finished"}
    PROVE  /\ [r EXCEPT !.pc = pc] \in Renderer
           /\ [r EXCEPT !.pc = pc, !.region = s] \in Renderer
           /\ [r EXCEPT !.pc = pc, !.blurred = b] \in Renderer
           /\ [r EXCEPT !.pc = pc, !.screen = x] \in Renderer
<1>1. [r EXCEPT !.pc = pc] \in Renderer BY DEF Renderer
<1>2. [r EXCEPT !.pc = pc, !.region = s] \in Renderer BY DEF Renderer
<1>3. [r EXCEPT !.pc = pc, !.blurred = b] \in Renderer BY DEF Renderer
<1>4. [r EXCEPT !.pc = pc, !.screen = x] \in Renderer BY DEF Renderer
<1> QED BY <1>1, <1>2, <1>3, <1>4

LEMMA InitType == Init => TypeOK
<1> SUFFICES ASSUME Init PROVE TypeOK
  OBVIOUS
<1>1. NewRenderer \in Renderer
  BY BoundsAssumption
  DEF NewRenderer, Renderer, NoScreen, Screen, Size, Frame
<1>2. NewWindow \in Window
  BY BoundsAssumption DEF NewWindow, Window, Size
<1>3. GateType /\ GuiType /\ DecType
  BY IdleType, BoundsAssumption DEF Init, GateType, GuiType, DecType, Frame
<1>4. WindowType /\ QueueType /\ RendererType
  BY <1>1, <1>2 DEF Init, WindowType, QueueType, RendererType
<1> QED BY <1>3, <1>4, TypeParts

LEMMA NextType == TypeOK /\ [Next]_vars => TypeOK'
<1> SUFFICES ASSUME TypeOK, [Next]_vars PROVE TypeOK'
  OBVIOUS
<1> USE BoundsAssumption
<1>t. /\ GateType /\ GuiType /\ DecType
      /\ WindowType /\ QueueType /\ RendererType
  BY TypeParts
<1>0. CASE UNCHANGED vars
  BY <1>0 DEF vars, TypeOK
<1>s. SUFFICES ASSUME NEW w \in Widgets,
                      \/ GuiCall(w) \/ GuiStep(w) \/ WorkerStep(w)
                      \/ DecoderFinds(w) \/ DecoderUpdates(w)
               PROVE  TypeOK'
  BY <1>0 DEF Next
<1>r. renderer[w] \in Renderer /\ window[w] \in Window
  BY <1>t DEF RendererType, WindowType
<1>u. /\ wanted[w] \in BOOLEAN /\ open[w] \in BOOLEAN
      /\ renderer[w].mUpdateEnabled \in BOOLEAN
      /\ renderer[w].mIsReadyForRender \in BOOLEAN
      /\ renderer[w].mBlurEnabled \in BOOLEAN
  BY <1>t, <1>r DEF GateType, Renderer
<1>c. 0 \in Frame /\ calls \in Size
  BY <1>t DEF Frame, GuiType, Size
<1>a. ASSUME NEW f \in Frame, UpdateDisplay(w, f)
      PROVE  GateType' /\ QueueType' /\ RendererType'
  <2>1. RendererType'
    <3>1. CASE UNCHANGED renderer BY <3>1, <1>t DEF RendererType
    <3>2. CASE SetRenderer(w, [renderer[w] EXCEPT !.mUpdateEnabled = TRUE])
      BY <3>2, <1>t, <1>r, RendererFields, SetRendererType
    <3> QED BY <1>a, <3>1, <3>2 DEF UpdateDisplay
  <2>2. QueueType'
    <3>1. CASE UNCHANGED queue BY <3>1, <1>t DEF QueueType
    <3>2. CASE Post(w, "update", f) BY <3>2, <1>t, PostType
    <3> QED BY <1>a, <3>1, <3>2 DEF UpdateDisplay
  <2>3. GateType'
    BY <1>a, <1>t DEF UpdateDisplay, GateType
  <2> QED BY <2>1, <2>2, <2>3
<1>1. CASE RegisterDisplay(w)
  <2>1. GateType' /\ GuiType' /\ DecType' /\ QueueType' /\ RendererType'
    BY <1>1, <1>t DEF RegisterDisplay, GateType, GuiType, DecType, QueueType, RendererType
  <2>2. WindowType'
    BY <1>1, <1>t, <1>r, <1>u, <1>c, SetWindowType DEF RegisterDisplay, Window
  <2> QED BY <2>1, <2>2, TypeParts
<1>2. CASE Show(w)
  <2>1. GateType' /\ DecType' /\ WindowType' /\ QueueType'
    BY <1>2, <1>t DEF Show, Enable, GateType, DecType, WindowType, QueueType
  <2>2. GuiType'
    BY <1>2, <1>t, <1>r, <1>u, <1>c, GoesType DEF Show, GuiType, Pcs, Call
  <2>3. RendererType'
    BY <1>2, <1>t, <1>r, <1>u, <1>c, RendererFields, SetRendererType DEF Show, Enable
  <2> QED BY <2>1, <2>2, <2>3, TypeParts
<1>3. CASE Hide(w)
  <2>1. GateType' /\ DecType' /\ WindowType' /\ QueueType'
    BY <1>3, <1>t DEF Hide, Enable, GateType, DecType, WindowType, QueueType
  <2>2. GuiType'
    BY <1>3, <1>t, <1>r, <1>u, <1>c DEF Hide, GuiType, Call
  <2>3. RendererType'
    BY <1>3, <1>t, <1>r, <1>u, <1>c, RendererFields, SetRendererType DEF Hide, Enable
  <2> QED BY <2>1, <2>2, <2>3, TypeParts
<1>4. CASE BlurUpdate(w)
  <2>1. GateType' /\ DecType' /\ WindowType' /\ QueueType'
    BY <1>4, <1>t DEF BlurUpdate, GateType, DecType, WindowType, QueueType
  <2>2. GuiType'
    BY <1>4, <1>t, <1>r, <1>u, <1>c, GoesType DEF BlurUpdate, GuiType, Pcs, Call
  <2>3. RendererType'
    BY <1>4, <1>t, <1>r, <1>u, <1>c, RendererFields, SetRendererType DEF BlurUpdate, RendererType
  <2> QED BY <2>1, <2>2, <2>3, TypeParts
<1>5. ASSUME NEW pc \in {"size", "redraw"}, BeginDraw(w, pc) PROVE TypeOK'
  <2>1. GateType' /\ DecType' /\ WindowType' /\ QueueType' /\ RendererType'
    BY <1>5, <1>t DEF BeginDraw, GateType, DecType, WindowType, QueueType, RendererType
  <2>2. GuiType'
    BY <1>5, <1>t, <1>r, <1>u, <1>c, GoesType DEF BeginDraw, GuiType, Pcs, Call
  <2> QED BY <2>1, <2>2, TypeParts
<1>6. CASE DelayTimer(w)
  <2>1. GateType' /\ DecType' /\ WindowType' /\ QueueType'
    BY <1>6, <1>t DEF DelayTimer, GateType, DecType, WindowType, QueueType
  <2>2. GuiType'
    BY <1>6, <1>t, <1>r, <1>u, <1>c, GoesType DEF DelayTimer, GuiType, Pcs
  <2>3. RendererType'
    BY <1>6, <1>t, <1>r, <1>u, <1>c, RendererFields, SetRendererType DEF DelayTimer
  <2> QED BY <2>1, <2>2, <2>3, TypeParts
<1>7. CASE UnregisterDisplay(w)
  <2>1. GateType' /\ DecType' /\ RendererType'
    BY <1>7, <1>t DEF UnregisterDisplay, Close, GateType, DecType, RendererType
  <2>2. GuiType'
    BY <1>7, <1>t, <1>r, <1>u, <1>c, GoesType DEF UnregisterDisplay, Close, GuiType, Pcs
  <2>3. WindowType'
    BY <1>7, <1>t, <1>r, <1>u, <1>c, SetWindowType DEF UnregisterDisplay, Close, Window
  <2>4. QueueType'
    BY <1>7, <1>t, <1>r, <1>u, <1>c, PostType DEF UnregisterDisplay, Close
  <2> QED BY <2>1, <2>2, <2>3, <2>4, TypeParts
<1>8. CASE BlurStartTimer(w)
  <2>1. GateType' /\ DecType' /\ RendererType'
    BY <1>8, <1>t DEF BlurStartTimer, GateType, DecType, RendererType
  <2>2. GuiType'
    BY <1>8, <1>t, <1>r, <1>u, <1>c, GoesType DEF BlurStartTimer, GuiType, Pcs
  <2>3. WindowType'
    BY <1>8, <1>t, <1>r, <1>u, <1>c, SetWindowType DEF BlurStartTimer, Window
  <2>4. QueueType'
    BY <1>8, <1>t, <1>r, <1>u, <1>c, PostType DEF BlurStartTimer
  <2> QED BY <2>1, <2>2, <2>3, <2>4, TypeParts
<1>9. CASE SetFixedSize(w)
  <2>1. GateType' /\ DecType' /\ QueueType' /\ RendererType'
    BY <1>9, <1>t DEF SetFixedSize, GateType, DecType, QueueType, RendererType
  <2>2. GuiType'
    BY <1>9, <1>t, <1>r, <1>u, <1>c, GoesType DEF SetFixedSize, GuiType, Pcs
  <2>3. WindowType'
    BY <1>9, <1>t, <1>r, <1>u, <1>c, SetWindowType DEF SetFixedSize, Window
  <2> QED BY <2>1, <2>2, <2>3, TypeParts
<1>10. CASE SetRealSize(w)
  <2>1. GateType' /\ DecType' /\ QueueType' /\ RendererType'
    BY <1>10, <1>t DEF SetRealSize, GateType, DecType, QueueType, RendererType
  <2>2. GuiType'
    BY <1>10, <1>t, <1>r, <1>u, <1>c, GoesType DEF SetRealSize, GuiType, Pcs
  <2>3. WindowType'
    BY <1>10, <1>t, <1>r, <1>u, <1>c, SetWindowType DEF SetRealSize, Window
  <2> QED BY <2>1, <2>2, <2>3, TypeParts
<1>11. CASE ForceRedraw(w)
  <2>1. GateType' /\ DecType' /\ WindowType' /\ RendererType'
    BY <1>11, <1>t DEF ForceRedraw, GateType, DecType, WindowType, RendererType
  <2>2. GuiType'
    BY <1>11, <1>t, <1>r, <1>u, <1>c, IdleType DEF ForceRedraw, GuiType
  <2>3. QueueType'
    BY <1>11, <1>t, <1>r, <1>u, <1>c, PostType DEF ForceRedraw, QueueType
  <2> QED BY <2>1, <2>2, <2>3, TypeParts
<1>12. CASE BlurTimer(w)
  <2>1. GateType' /\ DecType' /\ QueueType'
    BY <1>12, <1>t DEF BlurTimer, GateType, DecType, QueueType
  <2>2. GuiType'
    BY <1>12, <1>t, <1>r, <1>u, <1>c, GoesType DEF BlurTimer, GuiType, Pcs
  <2>3. WindowType'
    BY <1>12, <1>t, <1>r, <1>u, <1>c, SetWindowType DEF BlurTimer, Window
  <2>4. RendererType'
    BY <1>12, <1>t, <1>r, <1>u, <1>c, RendererFields, SetRendererType DEF BlurTimer, RendererType
  <2> QED BY <2>1, <2>2, <2>3, <2>4, TypeParts
<1>13. CASE BlurTimerRedraw(w)
  <2>1. GateType' /\ DecType' /\ WindowType' /\ RendererType'
    BY <1>13, <1>t DEF BlurTimerRedraw, GateType, DecType, WindowType, RendererType
  <2>2. GuiType'
    BY <1>13, <1>t, <1>r, <1>u, <1>c, IdleType DEF BlurTimerRedraw, GuiType
  <2>3. QueueType'
    BY <1>13, <1>t, <1>r, <1>u, <1>c, PostType DEF BlurTimerRedraw
  <2> QED BY <2>1, <2>2, <2>3, TypeParts
<1>14. CASE DelayTimerReplay(w)
  <2>1. PICK f \in Frame : UpdateDisplay(w, f)
    BY <1>14, <1>t DEF DelayTimerReplay, DecType, Frame
  <2>2. GateType' /\ QueueType' /\ RendererType'
    BY <2>1, <1>a
  <2>3. GuiType' /\ DecType' /\ WindowType'
    BY <1>14, <1>t, IdleType DEF DelayTimerReplay, GuiType, DecType, WindowType
  <2> QED BY <2>2, <2>3, TypeParts
<1>15. CASE Quit(w)
  <2>1. GateType' /\ DecType' /\ WindowType' /\ QueueType'
    BY <1>15, <1>t DEF Quit, GateType, DecType, WindowType, QueueType
  <2>2. GuiType'
    BY <1>15, <1>t, <1>r, <1>u, <1>c, GoesType DEF Quit, GuiType, Pcs
  <2>3. RendererType'
    BY <1>15, <1>t, <1>r, <1>u, <1>c, RendererFields, SetRendererType DEF Quit
  <2> QED BY <2>1, <2>2, <2>3, TypeParts
<1>16. CASE Join(w)
  <2>1. DecType' /\ QueueType' /\ RendererType'
    BY <1>16, <1>t DEF Join, DecType, QueueType, RendererType
  <2>2. GuiType'
    BY <1>16, <1>t, <1>r, <1>u, <1>c, IdleType DEF Join, GuiType
  <2>3. WindowType'
    BY <1>16, <1>t, <1>r, <1>u, <1>c, SetWindowType DEF Join, Window
  <2>4. GateType'
    BY <1>16, <1>t, <1>r, <1>u, <1>c DEF Join, GateType
  <2> QED BY <2>1, <2>2, <2>3, <2>4, TypeParts
<1>17. ASSUME NEW ok \in BOOLEAN, TakeUpdate(w, ok) PROVE TypeOK'
  <2> DEFINE r == IF renderer[w].mIsReadyForRender THEN renderer[w]
                  ELSE InitDisplay(renderer[w], ok)
             drop == ~r.mIsReadyForRender \/ ~wanted[w]
             skip == r.skipped \/ drop
  <2>1. r \in Renderer
    BY <1>r, RendererFields
  <2>2. Takes(w, "update")
    BY <1>17 DEF TakeUpdate
  <2>3. Head(queue[w]).frame \in Frame /\ QueueType'
    BY <2>2, <1>t, TakesType DEF Event
  <2>4. skip \in BOOLEAN
    BY <2>1, <1>u DEF Renderer
  <2>5. (IF Drawing(r) THEN Import(r, Head(queue[w]).frame)
         ELSE [r EXCEPT !.skipped = skip]) \in Renderer
    <3> HIDE DEF r, skip
    <3> QED BY <2>1, <2>3, <2>4, RendererFields
  <2>6. SetRenderer(w, IF Drawing(r) THEN Import(r, Head(queue[w]).frame)
                       ELSE [r EXCEPT !.skipped = skip])
    BY <1>17 DEF TakeUpdate
  <2>7. RendererType'
    <3> HIDE DEF r, skip
    <3> QED BY <2>5, <2>6, <1>t, SetRendererType
  <2>8. GateType' /\ GuiType' /\ DecType' /\ WindowType'
    BY <1>17, <1>t DEF TakeUpdate, GateType, GuiType, DecType, WindowType
  <2> QED BY <2>3, <2>7, <2>8, TypeParts
<1>18. CASE TakeRedraw(w)
  <2>1. GateType' /\ GuiType' /\ DecType' /\ WindowType'
    BY <1>18, <1>t DEF TakeRedraw, GateType, GuiType, DecType, WindowType
  <2>2. QueueType'
    BY <1>18, <1>t, <1>r, <1>u, <1>c, TakesType DEF TakeRedraw
  <2>3. RendererType'
    <3> DEFINE pc == IF Drawing(renderer[w]) THEN "region" ELSE renderer[w].pc
    <3>1. pc \in {"loop", "region", "shader", "draw", "finished"}
      BY <1>r DEF Renderer
    <3>2. SetRenderer(w, [renderer[w] EXCEPT !.pc = pc])
      BY <1>18 DEF TakeRedraw
    <3>3. [renderer[w] EXCEPT !.pc = pc] \in Renderer
      <4> HIDE DEF pc
      <4> QED BY <1>r, <3>1 DEF Renderer
    <3> QED BY <3>2, <3>3, <1>t, SetRendererType
  <2> QED BY <2>1, <2>2, <2>3, TypeParts
<1>19. CASE ChooseRegion(w)
  <2>1. GateType' /\ GuiType' /\ DecType' /\ WindowType' /\ QueueType'
    BY <1>19, <1>t DEF ChooseRegion, Draws, GateType, GuiType, DecType, WindowType, QueueType
  <2>2. RendererType'
    <3> DEFINE s == IF renderer[w].mBlurEnabled THEN MinSize ELSE window[w].size
    <3>1. s \in Size
      BY <1>r DEF Window, MinSize, Size
    <3>2. SetRenderer(w, [renderer[w] EXCEPT !.pc = "shader", !.region = s])
      BY <1>19 DEF ChooseRegion, Draws
    <3>3. [renderer[w] EXCEPT !.pc = "shader", !.region = s] \in Renderer
      <4> HIDE DEF s
      <4> QED BY <1>r, <3>1 DEF Renderer
    <3> QED BY <3>2, <3>3, <1>t, SetRendererType
  <2> QED BY <2>1, <2>2, TypeParts
<1>20. CASE ChooseShader(w)
  <2>1. GateType' /\ GuiType' /\ DecType' /\ WindowType' /\ QueueType'
    BY <1>20, <1>t DEF ChooseShader, Draws, GateType, GuiType, DecType, WindowType, QueueType
  <2>2. RendererType'
    <3>1. [renderer[w] EXCEPT !.pc = "draw",
                             !.blurred = renderer[w].mBlurEnabled] \in Renderer
      BY <1>r, <1>u DEF Renderer
    <3> QED BY <3>1, <1>20, <1>t, SetRendererType DEF ChooseShader, Draws
  <2> QED BY <2>1, <2>2, TypeParts
<1>21. CASE DrawDisplay(w)
  <2>1. GateType' /\ GuiType' /\ DecType' /\ WindowType' /\ QueueType'
    BY <1>21, <1>t DEF DrawDisplay, Draws, GateType, GuiType, DecType, WindowType, QueueType
  <2>2. RendererType'
    <3> DEFINE r == renderer[w]
               x == IF r.frame = 0 THEN r.screen
                    ELSE [frame |-> r.frame, region |-> r.region,
                          size |-> window[w].realSize, blurred |-> r.blurred]
    <3>1. x \in Screen
      BY <1>r DEF Renderer, Screen, Window
    <3>2. SetRenderer(w, [r EXCEPT !.pc = "loop", !.screen = x])
      BY <1>21 DEF DrawDisplay, Draws
    <3>3. [r EXCEPT !.pc = "loop", !.screen = x] \in Renderer
      <4> HIDE DEF x
      <4> QED BY <1>r, <3>1 DEF Renderer
    <3> QED BY <3>2, <3>3, <1>t, SetRendererType
  <2> QED BY <2>1, <2>2, TypeParts
<1>22. CASE DestroyDisplay(w)
  <2>1. GateType' /\ DecType' /\ WindowType'
    BY <1>22, <1>t DEF DestroyDisplay, GateType, DecType, WindowType
  <2>2. GuiType'
    BY <1>22, <1>t, <1>r, <1>u, <1>c, GoesType DEF DestroyDisplay, GuiType, Pcs
  <2>3. QueueType'
    BY <1>22, <1>t, <1>r, <1>u, <1>c, TakesType DEF DestroyDisplay
  <2>4. RendererType'
    BY <1>22, <1>t, <1>r, <1>u, <1>c, RendererFields, SetRendererType DEF DestroyDisplay
  <2> QED BY <2>1, <2>2, <2>3, <2>4, TypeParts
<1>23. CASE Stop(w)
  <2>1. GateType' /\ GuiType' /\ DecType' /\ WindowType'
    BY <1>23, <1>t DEF Stop, GateType, GuiType, DecType, WindowType
  <2>2. QueueType'
    BY <1>23, <1>t, <1>r, <1>u, <1>c DEF Stop, QueueType
  <2>3. RendererType'
    <3>1. [renderer[w] EXCEPT !.pc = "finished"] \in Renderer
      BY <1>r DEF Renderer
    <3> QED BY <3>1, <1>23, <1>t, SetRendererType DEF Stop
  <2> QED BY <2>1, <2>2, <2>3, TypeParts
<1>24. CASE DecoderFinds(w)
  <2>1. GateType' /\ WindowType' /\ QueueType' /\ RendererType'
    BY <1>24, <1>t DEF DecoderFinds, GateType, WindowType, QueueType, RendererType
  <2>2. GuiType'
    BY <1>24, <1>t, <1>r, <1>u, <1>c DEF DecoderFinds, GuiType
  <2>3. DecType'
    BY <1>24, <1>t, <1>r, <1>u, <1>c DEF DecoderFinds, DecType, Frame
  <2> QED BY <2>1, <2>2, <2>3, TypeParts
<1>25. CASE DecoderUpdates(w)
  <2>1. GateType' /\ QueueType' /\ RendererType'
    BY <1>25, <1>t, <1>a DEF DecoderUpdates, DecType
  <2>2. GuiType' /\ DecType' /\ WindowType'
    BY <1>25, <1>t DEF DecoderUpdates, GuiType, DecType, WindowType
  <2> QED BY <2>1, <2>2, TypeParts
<1> QED
  BY <1>s, <1>1, <1>2, <1>3, <1>4, <1>5, <1>6, <1>7, <1>8, <1>9, <1>10,
     <1>11, <1>12, <1>13, <1>14, <1>15, <1>16, <1>17, <1>18, <1>19, <1>20,
     <1>21, <1>22, <1>23, <1>24, <1>25
  DEF GuiCall, GuiStep, WorkerStep

\* Every variable keeps its type: sizes, frames and tries stay in their
\* bounds, and every event that is posted is one of the three the helper has
\* slots for (gles_display_work_manager.cpp:39-52).
THEOREM TypeCorrect == Spec => []TypeOK
<1>1. Init => TypeOK
  BY InitType
<1>2. TypeOK /\ [Next]_vars => TypeOK'
  BY NextType
<1> QED BY <1>1, <1>2, PTL DEF Spec

-----------------------------------------------------------------------------
(* The end of a renderer                                                   *)

Closing == {"exitRender", "quit", "wait"}

\* Who does what: the GUI thread is on one window, whose life tells whether
\* it is being closed; only then, and in blurUpdate, it keeps the lock.
TurnInv ==
    /\ gui.pc = "idle" <=> gui.w = NoWidget
    /\ gui.w # NoWidget =>
           window[gui.w].life = IF gui.pc \in Closing THEN "closing" ELSE "live"
    /\ \A w \in Widgets :
           window[w].life = "closing" => gui.w = w /\ gui.pc \in Closing
    /\ gui.pc \in Closing \cup {"blur"} => listLock = "gui"
    /\ dec # NoWidget => listLock = "decoder" /\ window[dec].life = "live"

NoDestroy(q)   == \A i \in 1 .. Len(q) : q[i].kind # "destroy"
EndsDestroy(q) == /\ q # <<>>
                  /\ \A i \in 1 .. Len(q) : q[i].kind = "destroy" <=> i = Len(q)

\* The destroy event is the last one a renderer gets, and when it has been
\* taken the queue stays empty and the worker in its loop.
ExitInv(w) ==
    /\ window[w].life \in {"new", "live"} =>
           /\ renderer[w].utils /\ ~renderer[w].quitting
           /\ NoDestroy(queue[w])
    /\ gui = [pc |-> "exitRender", w |-> w] =>
           /\ renderer[w].utils /\ ~renderer[w].quitting
           /\ EndsDestroy(queue[w])
    /\ (gui.w = w /\ gui.pc \in {"quit", "wait"}) \/ window[w].life = "freed" =>
           queue[w] = <<>> /\ renderer[w].pc \in {"loop", "finished"}

InvExit == TypeOK /\ TurnInv /\ \A w \in Widgets : ExitInv(w)

LEMMA AppendKinds ==
    ASSUME NEW q \in Seq(Event), NEW e \in Event, NoDestroy(q)
    PROVE  /\ e.kind # "destroy" => NoDestroy(Append(q, e))
           /\ e.kind = "destroy" => EndsDestroy(Append(q, e))
  BY DEF NoDestroy, EndsDestroy

LEMMA TailKinds ==
    ASSUME NEW q \in Seq(Event), q # <<>>
    PROVE  /\ NoDestroy(q) => NoDestroy(Tail(q)) /\ Head(q).kind # "destroy"
           /\ EndsDestroy(q) /\ Head(q).kind # "destroy" => EndsDestroy(Tail(q))
           /\ EndsDestroy(q) /\ Head(q).kind = "destroy" => Tail(q) = <<>>
<1>1. Head(q) = q[1] /\ Len(Tail(q)) = Len(q) - 1 /\ Len(q) \in Nat \ {0}
  OBVIOUS
<1>2. \A i \in 1 .. Len(Tail(q)) : Tail(q)[i] = q[i + 1]
  OBVIOUS
<1>3. NoDestroy(q) => NoDestroy(Tail(q)) /\ Head(q).kind # "destroy"
  BY <1>1, <1>2 DEF NoDestroy
<1>4. ASSUME EndsDestroy(q), Head(q).kind # "destroy"
      PROVE  EndsDestroy(Tail(q))
  <2>1. \A i \in 1 .. Len(q) : q[i].kind = "destroy" <=> i = Len(q)
    BY <1>4 DEF EndsDestroy
  <2>2. 1 # Len(q) /\ Tail(q) # <<>>
    <3>1. 1 \in 1 .. Len(q) BY <1>1
    <3>2. q[1].kind # "destroy" BY <1>1, <1>4
    <3>3. 1 # Len(q) BY <2>1, <3>1, <3>2
    <3>4. Len(Tail(q)) # 0 BY <1>1, <3>3
    <3> QED BY <3>3, <3>4, EmptySeq
  <2>3. ASSUME NEW i \in 1 .. Len(Tail(q))
        PROVE  Tail(q)[i].kind = "destroy" <=> i = Len(Tail(q))
    <3>1. i + 1 \in 1 .. Len(q) /\ (i + 1 = Len(q) <=> i = Len(Tail(q)))
      BY <1>1
    <3> QED BY <1>2, <2>1, <3>1
  <2> QED BY <2>2, <2>3 DEF EndsDestroy
<1>5. ASSUME EndsDestroy(q), Head(q).kind = "destroy"
      PROVE  Tail(q) = <<>>
  <2>1. 1 \in 1 .. Len(q) BY <1>1
  <2>2. Len(q) = 1 BY <1>1, <1>5, <2>1 DEF EndsDestroy
  <2>3. Tail(q) \in Seq(Event) /\ Len(Tail(q)) = 0 BY <1>1, <2>2
  <2> QED BY <2>3, EmptySeq
<1> QED BY <1>3, <1>4, <1>5

LEMMA PostKinds ==
    ASSUME QueueType, NEW w \in Widgets, NEW f \in Frame,
           NEW kind \in {"update", "redraw", "destroy"}, Post(w, kind, f),
           NoDestroy(queue[w])
    PROVE  /\ kind # "destroy" => NoDestroy(queue'[w])
           /\ kind = "destroy" => EndsDestroy(queue'[w])
<1> DEFINE e == [kind |-> kind, frame |-> f]
<1>1. e \in Event /\ e.kind = kind BY DEF Event
<1>2. queue[w] \in Seq(Event) /\ queue'[w] = Append(queue[w], e)
  BY DEF QueueType, Post
<1> QED
  <2> HIDE DEF e
  <2> QED BY <1>1, <1>2, AppendKinds

LEMMA TakesKinds ==
    ASSUME QueueType, NEW w \in Widgets, NEW kind, Takes(w, kind)
    PROVE  /\ queue[w] \in Seq(Event) /\ queue[w] # <<>>
           /\ queue'[w] = Tail(queue[w]) /\ Head(queue[w]).kind = kind
           /\ renderer[w].pc = "loop"
  BY DEF QueueType, Takes

Step(w) == \/ GuiCall(w) \/ GuiStep(w) \/ WorkerStep(w)
           \/ DecoderFinds(w) \/ DecoderUpdates(w)

\* A step on one window leaves the others alone.
LEMMA OthersUntouched ==
    ASSUME TypeOK, NEW w \in Widgets, Step(w), NEW v \in Widgets, v # w
    PROVE  /\ gui' = gui \/ gui'.w = w \/ gui' = GuiIdle
           /\ window'[v] = window[v]
           /\ queue'[v] = queue[v]
           /\ renderer'[v] = renderer[v]
           /\ wanted'[v] = wanted[v] /\ open'[v] = open[v] /\ last'[v] = last[v]
<1> DEFINE Goal == /\ gui' = gui \/ gui'.w = w \/ gui' = GuiIdle
                   /\ window'[v] = window[v]
                   /\ queue'[v] = queue[v]
                   /\ renderer'[v] = renderer[v]
                   /\ wanted'[v] = wanted[v] /\ open'[v] = open[v]
                   /\ last'[v] = last[v]
<1> USE DEF SetWindow, SetRenderer, Post, Takes, GuiGoes
<1>s. TypeOK
  OBVIOUS
<1>1. CASE RegisterDisplay(w)
  BY <1>1, <1>s DEF TypeOK, RegisterDisplay
<1>2. CASE Show(w)
  BY <1>2, <1>s DEF TypeOK, Show, Enable
<1>3. CASE Hide(w)
  BY <1>3, <1>s DEF TypeOK, Hide, Enable
<1>4. CASE BlurUpdate(w)
  BY <1>4, <1>s DEF TypeOK, BlurUpdate
<1>5. ASSUME NEW pc \in {"size", "redraw"}, BeginDraw(w, pc)
      PROVE  Goal
  BY <1>5, <1>s DEF TypeOK, BeginDraw
<1>6. CASE DelayTimer(w)
  BY <1>6, <1>s DEF TypeOK, DelayTimer
<1>7. CASE UnregisterDisplay(w)
  BY <1>7, <1>s DEF TypeOK, UnregisterDisplay, Close
<1>8. CASE BlurStartTimer(w)
  BY <1>8, <1>s DEF TypeOK, BlurStartTimer
<1>9. CASE SetFixedSize(w)
  BY <1>9, <1>s DEF TypeOK, SetFixedSize
<1>10. CASE SetRealSize(w)
  BY <1>10, <1>s DEF TypeOK, SetRealSize
<1>11. CASE ForceRedraw(w)
  BY <1>11, <1>s DEF TypeOK, ForceRedraw
<1>12. CASE BlurTimer(w)
  BY <1>12, <1>s DEF TypeOK, BlurTimer
<1>13. CASE BlurTimerRedraw(w)
  BY <1>13, <1>s DEF TypeOK, BlurTimerRedraw
<1>14. CASE DelayTimerReplay(w)
  BY <1>14, <1>s DEF TypeOK, DelayTimerReplay, UpdateDisplay
<1>15. CASE Quit(w)
  BY <1>15, <1>s DEF TypeOK, Quit
<1>16. CASE Join(w)
  BY <1>16, <1>s DEF TypeOK, Join
<1>17. ASSUME NEW ok \in BOOLEAN, TakeUpdate(w, ok)
      PROVE  Goal
  BY <1>17, <1>s DEF TypeOK, TakeUpdate, Takes
<1>18. CASE TakeRedraw(w)
  BY <1>18, <1>s DEF TypeOK, TakeRedraw, Takes
<1>19. CASE ChooseRegion(w)
  BY <1>19, <1>s DEF TypeOK, ChooseRegion, Draws
<1>20. CASE ChooseShader(w)
  BY <1>20, <1>s DEF TypeOK, ChooseShader, Draws
<1>21. CASE DrawDisplay(w)
  BY <1>21, <1>s DEF TypeOK, DrawDisplay, Draws
<1>22. CASE DestroyDisplay(w)
  BY <1>22, <1>s DEF TypeOK, DestroyDisplay, Takes
<1>23. CASE Stop(w)
  BY <1>23, <1>s DEF TypeOK, Stop
<1>24. CASE DecoderFinds(w)
  BY <1>24, <1>s DEF TypeOK, DecoderFinds
<1>25. CASE DecoderUpdates(w)
  BY <1>25, <1>s DEF TypeOK, DecoderUpdates, UpdateDisplay
<1> QED
  BY <1>s, <1>1, <1>2, <1>3, <1>4, <1>5, <1>6, <1>7, <1>8, <1>9, <1>10,
     <1>11, <1>12, <1>13, <1>14, <1>15, <1>16, <1>17, <1>18, <1>19, <1>20,
     <1>21, <1>22, <1>23, <1>24, <1>25
  DEF Step, GuiCall, GuiStep, WorkerStep


\* A destroy event is only taken while the GUI thread waits for that.
LEMMA DestroyTurn ==
    ASSUME InvExit, NEW w \in Widgets, DestroyDisplay(w)
    PROVE  gui = [pc |-> "exitRender", w |-> w]
<1>t. TypeOK /\ TurnInv /\ ExitInv(w)
  BY DEF InvExit
<1>v. /\ window \in [Widgets -> Window]
      /\ gui \in [pc : Pcs, w : Widgets \cup {NoWidget}]
  BY <1>t DEF TypeOK, Pcs
<1>1. queue[w] # <<>> /\ Head(queue[w]).kind = "destroy"
      /\ queue[w] \in Seq(Event)
  BY <1>t DEF DestroyDisplay, Takes, TypeOK
<1>2. ~NoDestroy(queue[w])
  BY <1>1, TailKinds
<1>3. window[w].life = "closing"
  BY <1>1, <1>2, <1>t, <1>v DEF ExitInv, Window
<1> QED BY <1>1, <1>3, <1>t, <1>v DEF TurnInv, ExitInv, Closing, Pcs

\* Which windows are alive, being closed and gone.
LEMMA NextTurn ==
    ASSUME InvExit, NEW w \in Widgets, Step(w)
    PROVE  TurnInv'
<1> USE WidgetAssumption DEF Closing, GuiAt, GuiGoes, GuiIdle, Live
<1>t. TypeOK /\ TurnInv /\ ExitInv(w)
  BY DEF InvExit
<1>v. /\ window \in [Widgets -> Window]
      /\ gui \in [pc : Pcs, w : Widgets \cup {NoWidget}]
  BY <1>t DEF TypeOK, Pcs
<1>s. Step(w)
  OBVIOUS
<1>1. CASE RegisterDisplay(w)
  BY <1>1, <1>t, <1>v DEF TurnInv, RegisterDisplay, SetWindow, Window
<1>2. CASE Show(w)
  BY <1>2, <1>t, <1>v DEF TurnInv, Show, Enable, Call
<1>3. CASE Hide(w)
  BY <1>3, <1>t, <1>v DEF TurnInv, Hide, Enable, Call
<1>4. CASE BlurUpdate(w)
  BY <1>4, <1>t, <1>v DEF TurnInv, BlurUpdate, Call
<1>5. ASSUME NEW pc \in {"size", "redraw"}, BeginDraw(w, pc)
      PROVE  TurnInv'
  BY <1>5, <1>t, <1>v DEF TurnInv, BeginDraw, Call
<1>6. CASE DelayTimer(w)
  BY <1>6, <1>t, <1>v DEF TurnInv, DelayTimer
<1>7. CASE UnregisterDisplay(w)
  BY <1>7, <1>t, <1>v DEF TurnInv, UnregisterDisplay, Close, SetWindow, Window
<1>8. CASE BlurStartTimer(w)
  BY <1>8, <1>t, <1>v DEF TurnInv, BlurStartTimer, SetWindow, Window
<1>9. CASE SetFixedSize(w)
  BY <1>9, <1>t, <1>v DEF TurnInv, SetFixedSize, SetWindow, Window
<1>10. CASE SetRealSize(w)
  BY <1>10, <1>t, <1>v DEF TurnInv, SetRealSize, SetWindow, Window
<1>11. CASE ForceRedraw(w)
  BY <1>11, <1>t, <1>v DEF TurnInv, ForceRedraw
<1>12. CASE BlurTimer(w)
  BY <1>12, <1>t, <1>v DEF TurnInv, BlurTimer, SetWindow, Window
<1>13. CASE BlurTimerRedraw(w)
  BY <1>13, <1>t, <1>v DEF TurnInv, BlurTimerRedraw
<1>14. CASE DelayTimerReplay(w)
  BY <1>14, <1>t, <1>v DEF TurnInv, DelayTimerReplay
<1>15. CASE Quit(w)
  BY <1>15, <1>t, <1>v DEF TurnInv, Quit
<1>16. CASE Join(w)
  BY <1>16, <1>t, <1>v DEF TurnInv, Join, SetWindow, Window
<1>17. ASSUME NEW ok \in BOOLEAN, TakeUpdate(w, ok)
      PROVE  TurnInv'
  <2>1. UNCHANGED <<gui, listLock, dec, window>>
    BY <1>17 DEF TakeUpdate
  <2> QED BY <2>1, <1>t DEF TurnInv
<1>18. CASE TakeRedraw(w)
  <2>1. UNCHANGED <<gui, listLock, dec, window>>
    BY <1>18 DEF TakeRedraw
  <2> QED BY <2>1, <1>t DEF TurnInv
<1>19. CASE ChooseRegion(w)
  <2>1. UNCHANGED <<gui, listLock, dec, window>>
    BY <1>19 DEF ChooseRegion, Draws
  <2> QED BY <2>1, <1>t DEF TurnInv
<1>20. CASE ChooseShader(w)
  <2>1. UNCHANGED <<gui, listLock, dec, window>>
    BY <1>20 DEF ChooseShader, Draws
  <2> QED BY <2>1, <1>t DEF TurnInv
<1>21. CASE DrawDisplay(w)
  <2>1. UNCHANGED <<gui, listLock, dec, window>>
    BY <1>21 DEF DrawDisplay, Draws
  <2> QED BY <2>1, <1>t DEF TurnInv
<1>22. CASE DestroyDisplay(w)
  <2>1. gui = [pc |-> "exitRender", w |-> w]
    BY <1>22, DestroyTurn
  <2>2. UNCHANGED <<listLock, dec, window>>
    BY <1>22 DEF DestroyDisplay
  <2> QED BY <1>22, <2>1, <2>2, <1>t DEF DestroyDisplay, TurnInv
<1>23. CASE Stop(w)
  <2>1. UNCHANGED <<gui, listLock, dec, window>>
    BY <1>23 DEF Stop
  <2> QED BY <2>1, <1>t DEF TurnInv
<1>24. CASE DecoderFinds(w)
  BY <1>24, <1>t, <1>v DEF TurnInv, DecoderFinds
<1>25. CASE DecoderUpdates(w)
  BY <1>25, <1>t, <1>v DEF TurnInv, DecoderUpdates
<1> QED
  BY <1>s, <1>1, <1>2, <1>3, <1>4, <1>5, <1>6, <1>7, <1>8, <1>9, <1>10,
     <1>11, <1>12, <1>13, <1>14, <1>15, <1>16, <1>17, <1>18, <1>19, <1>20,
     <1>21, <1>22, <1>23, <1>24, <1>25
  DEF Step, GuiCall, GuiStep, WorkerStep


\* While a window lives on and gets no destroy event, its part of the
\* invariant needs no more.
LEMMA ExitStays ==
    ASSUME NEW w \in Widgets, ExitInv(w), TurnInv',
           window[w].life \in {"new", "live"},
           window'[w].life \in {"new", "live"},
           renderer'[w].utils = renderer[w].utils,
           renderer'[w].quitting = renderer[w].quitting,
           NoDestroy(queue'[w])
    PROVE  ExitInv(w)'
  BY WidgetAssumption DEF ExitInv, TurnInv, Closing

LEMMA UpdateFields ==
    ASSUME TypeOK, NEW w \in Widgets, NEW f \in Frame, UpdateDisplay(w, f),
           NoDestroy(queue[w])
    PROVE  /\ renderer'[w].utils = renderer[w].utils
           /\ renderer'[w].quitting = renderer[w].quitting
           /\ NoDestroy(queue'[w])
<1>1. /\ renderer'[w].utils = renderer[w].utils
      /\ renderer'[w].quitting = renderer[w].quitting
  BY DEF UpdateDisplay, SetRenderer, TypeOK, Renderer
<1>2. CASE Post(w, "update", f)
  BY <1>1, <1>2, PostKinds, TypeParts
<1>3. CASE UNCHANGED queue
  BY <1>1, <1>3
<1> QED BY <1>1, <1>2, <1>3 DEF UpdateDisplay

\* destroyDisplay is the last event, on the window of the step.
LEMMA NextExit ==
    ASSUME InvExit, NEW w \in Widgets, Step(w)
    PROVE  ExitInv(w)'
<1> USE WidgetAssumption DEF Closing, GuiAt, GuiGoes, GuiIdle, Live
<1>t. TypeOK /\ TurnInv /\ ExitInv(w) /\ TurnInv' /\ QueueType
  BY NextTurn, TypeParts DEF InvExit
<1>v. /\ window \in [Widgets -> Window] /\ window[w] \in Window
      /\ gui \in [pc : Pcs, w : Widgets \cup {NoWidget}]
      /\ renderer \in [Widgets -> Renderer] /\ renderer[w] \in Renderer
      /\ queue \in [Widgets -> Seq(Event)]
      /\ posted \in Frame /\ 0 \in Frame
  BY <1>t, BoundsAssumption DEF TypeOK, Pcs, Frame
<1>s. Step(w)
  OBVIOUS
<1>l. ASSUME window[w].life \in {"new", "live"}
      PROVE  NoDestroy(queue[w])
  BY <1>t, <1>l DEF ExitInv
<1>1. CASE RegisterDisplay(w)
  <2>1. window[w].life \in {"new", "live"} /\ window'[w].life \in {"new", "live"}
    BY <1>1, <1>t, <1>v DEF RegisterDisplay, TurnInv, SetWindow, Window
  <2>2. /\ renderer'[w].utils = renderer[w].utils
        /\ renderer'[w].quitting = renderer[w].quitting
    BY <1>1, <1>v DEF RegisterDisplay, SetRenderer, Renderer
  <2>3. NoDestroy(queue'[w])
    BY <1>1, <1>l, <2>1 DEF RegisterDisplay
  <2> QED BY <2>1, <2>2, <2>3, <1>t, ExitStays
<1>2. CASE Show(w)
  <2>1. window[w].life \in {"new", "live"} /\ window'[w].life \in {"new", "live"}
    BY <1>2, <1>t, <1>v DEF Show, TurnInv, SetWindow, Window, Call
  <2>2. /\ renderer'[w].utils = renderer[w].utils
        /\ renderer'[w].quitting = renderer[w].quitting
    BY <1>2, <1>v DEF Show, SetRenderer, Renderer, Enable
  <2>3. NoDestroy(queue'[w])
    BY <1>2, <1>l, <2>1 DEF Show
  <2> QED BY <2>1, <2>2, <2>3, <1>t, ExitStays
<1>3. CASE Hide(w)
  <2>1. window[w].life \in {"new", "live"} /\ window'[w].life \in {"new", "live"}
    BY <1>3, <1>t, <1>v DEF Hide, TurnInv, SetWindow, Window, Call
  <2>2. /\ renderer'[w].utils = renderer[w].utils
        /\ renderer'[w].quitting = renderer[w].quitting
    BY <1>3, <1>v DEF Hide, SetRenderer, Renderer, Enable
  <2>3. NoDestroy(queue'[w])
    BY <1>3, <1>l, <2>1 DEF Hide
  <2> QED BY <2>1, <2>2, <2>3, <1>t, ExitStays
<1>4. CASE BlurUpdate(w)
  <2>1. window[w].life \in {"new", "live"} /\ window'[w].life \in {"new", "live"}
    BY <1>4, <1>t, <1>v DEF BlurUpdate, TurnInv, SetWindow, Window, Call
  <2>2. /\ renderer'[w].utils = renderer[w].utils
        /\ renderer'[w].quitting = renderer[w].quitting
    BY <1>4, <1>v DEF BlurUpdate, SetRenderer, Renderer
  <2>3. NoDestroy(queue'[w])
    BY <1>4, <1>l, <2>1 DEF BlurUpdate
  <2> QED BY <2>1, <2>2, <2>3, <1>t, ExitStays
<1>5. ASSUME NEW pc \in {"size", "redraw"}, BeginDraw(w, pc)
      PROVE  ExitInv(w)'
  <2>1. window[w].life \in {"new", "live"} /\ window'[w].life \in {"new", "live"}
    BY <1>5, <1>t, <1>v DEF BeginDraw, TurnInv, SetWindow, Window, Call
  <2>2. /\ renderer'[w].utils = renderer[w].utils
        /\ renderer'[w].quitting = renderer[w].quitting
    BY <1>5, <1>v DEF BeginDraw, SetRenderer, Renderer
  <2>3. NoDestroy(queue'[w])
    BY <1>5, <1>l, <2>1 DEF BeginDraw
  <2> QED BY <2>1, <2>2, <2>3, <1>t, ExitStays
<1>6. CASE DelayTimer(w)
  <2>1. window[w].life \in {"new", "live"} /\ window'[w].life \in {"new", "live"}
    BY <1>6, <1>t, <1>v DEF DelayTimer, TurnInv, SetWindow, Window
  <2>2. /\ renderer'[w].utils = renderer[w].utils
        /\ renderer'[w].quitting = renderer[w].quitting
    BY <1>6, <1>v DEF DelayTimer, SetRenderer, Renderer
  <2>3. NoDestroy(queue'[w])
    BY <1>6, <1>l, <2>1 DEF DelayTimer
  <2> QED BY <2>1, <2>2, <2>3, <1>t, ExitStays
<1>7. CASE UnregisterDisplay(w)
  <2>1. window[w].life = "live" /\ window'[w].life = "closing"
    BY <1>7, <1>v DEF UnregisterDisplay, Close, SetWindow, Window
  <2>2. EndsDestroy(queue'[w])
    BY <1>7, <2>1, <1>l, <1>t, <1>v, PostKinds DEF UnregisterDisplay, Close
  <2>3. renderer' = renderer /\ gui' = [pc |-> "exitRender", w |-> w]
    BY <1>7 DEF UnregisterDisplay, Close
  <2> QED BY <2>1, <2>2, <2>3, <1>t DEF ExitInv
<1>8. CASE BlurStartTimer(w)
  <2>1. window[w].life \in {"new", "live"} /\ window'[w].life \in {"new", "live"}
    BY <1>8, <1>t, <1>v DEF BlurStartTimer, TurnInv, SetWindow, Window
  <2>2. /\ renderer'[w].utils = renderer[w].utils
        /\ renderer'[w].quitting = renderer[w].quitting
    BY <1>8, <1>v DEF BlurStartTimer, SetRenderer, Renderer
  <2>3. NoDestroy(queue'[w])
    BY <1>8, <1>l, <1>t, <1>v, <2>1, PostKinds DEF BlurStartTimer
  <2> QED BY <2>1, <2>2, <2>3, <1>t, ExitStays
<1>9. CASE SetFixedSize(w)
  <2>1. window[w].life \in {"new", "live"} /\ window'[w].life \in {"new", "live"}
    BY <1>9, <1>t, <1>v DEF SetFixedSize, TurnInv, SetWindow, Window
  <2>2. /\ renderer'[w].utils = renderer[w].utils
        /\ renderer'[w].quitting = renderer[w].quitting
    BY <1>9, <1>v DEF SetFixedSize, SetRenderer, Renderer
  <2>3. NoDestroy(queue'[w])
    BY <1>9, <1>l, <2>1 DEF SetFixedSize
  <2> QED BY <2>1, <2>2, <2>3, <1>t, ExitStays
<1>10. CASE SetRealSize(w)
  <2>1. window[w].life \in {"new", "live"} /\ window'[w].life \in {"new", "live"}
    BY <1>10, <1>t, <1>v DEF SetRealSize, TurnInv, SetWindow, Window
  <2>2. /\ renderer'[w].utils = renderer[w].utils
        /\ renderer'[w].quitting = renderer[w].quitting
    BY <1>10, <1>v DEF SetRealSize, SetRenderer, Renderer
  <2>3. NoDestroy(queue'[w])
    BY <1>10, <1>l, <2>1 DEF SetRealSize
  <2> QED BY <2>1, <2>2, <2>3, <1>t, ExitStays
<1>11. CASE ForceRedraw(w)
  <2>1. window[w].life \in {"new", "live"} /\ window'[w].life \in {"new", "live"}
    BY <1>11, <1>t, <1>v DEF ForceRedraw, TurnInv, SetWindow, Window
  <2>2. /\ renderer'[w].utils = renderer[w].utils
        /\ renderer'[w].quitting = renderer[w].quitting
    BY <1>11, <1>v DEF ForceRedraw, SetRenderer, Renderer
  <2>3. NoDestroy(queue'[w])
    BY <1>11, <1>l, <1>t, <1>v, <2>1, PostKinds DEF ForceRedraw
  <2> QED BY <2>1, <2>2, <2>3, <1>t, ExitStays
<1>12. CASE BlurTimer(w)
  <2>1. CASE Live(w)
    <3>1. window'[w].life = "live" /\ queue'[w] = queue[w]
      BY <1>12, <2>1, <1>v DEF BlurTimer, SetWindow, Window
    <3>2. /\ renderer'[w].utils = renderer[w].utils
          /\ renderer'[w].quitting = renderer[w].quitting
      BY <1>12, <1>v DEF BlurTimer, SetRenderer, Renderer
    <3> QED BY <2>1, <3>1, <3>2, <1>l, <1>t, ExitStays
  <2>2. CASE ~Live(w)
    BY <1>12, <2>2, <1>t, <1>v DEF BlurTimer, ExitInv, SetWindow, Window
  <2> QED BY <2>1, <2>2
<1>13. CASE BlurTimerRedraw(w)
  <2>1. window[w].life \in {"new", "live"} /\ window'[w].life \in {"new", "live"}
    BY <1>13, <1>t, <1>v DEF BlurTimerRedraw, TurnInv, SetWindow, Window
  <2>2. /\ renderer'[w].utils = renderer[w].utils
        /\ renderer'[w].quitting = renderer[w].quitting
    BY <1>13, <1>v DEF BlurTimerRedraw, SetRenderer, Renderer
  <2>3. NoDestroy(queue'[w])
    BY <1>13, <1>l, <1>t, <1>v, <2>1, PostKinds DEF BlurTimerRedraw
  <2> QED BY <2>1, <2>2, <2>3, <1>t, ExitStays
<1>14. CASE DelayTimerReplay(w)
  <2>1. window[w].life = "live" /\ UNCHANGED window
    BY <1>14, <1>t, <1>v DEF DelayTimerReplay, TurnInv
  <2>2. PICK f \in Frame : UpdateDisplay(w, f)
    BY <1>14, <1>v, BoundsAssumption DEF DelayTimerReplay, Frame
  <2> QED BY <2>1, <2>2, <1>l, <1>t, UpdateFields, ExitStays
<1>15. CASE Quit(w)
  <2>1. queue[w] = <<>> /\ renderer[w].pc \in {"loop", "finished"}
        /\ window[w].life = "closing"
    BY <1>15, <1>t DEF Quit, ExitInv, TurnInv
  <2>2. queue' = queue /\ renderer'[w].pc = renderer[w].pc /\ window' = window
        /\ gui' = [pc |-> "wait", w |-> w]
    BY <1>15, <1>v DEF Quit, SetRenderer, Renderer
  <2> QED BY <2>1, <2>2 DEF ExitInv
<1>16. CASE Join(w)
  <2>1. queue[w] = <<>> /\ renderer[w].pc \in {"loop", "finished"}
    BY <1>16, <1>t DEF Join, ExitInv
  <2>2. queue' = queue /\ renderer' = renderer /\ gui' = GuiIdle
        /\ window'[w].life = "freed"
    BY <1>16, <1>v DEF Join, SetWindow, Window
  <2> QED BY <2>1, <2>2 DEF ExitInv
<1>17. ASSUME NEW ok \in BOOLEAN, TakeUpdate(w, ok)
      PROVE  ExitInv(w)'
  <2>1. /\ queue[w] \in Seq(Event) /\ queue[w] # <<>>
        /\ queue'[w] = Tail(queue[w]) /\ Head(queue[w]).kind = "update"
    BY <1>17, <1>t, TakesKinds DEF TakeUpdate
  <2>2. /\ renderer'[w].utils = renderer[w].utils
        /\ renderer'[w].quitting = renderer[w].quitting
    BY <1>17, <1>v DEF TakeUpdate, SetRenderer, Renderer, InitDisplay, Import
  <2>3. UNCHANGED <<gui, window>>
    BY <1>17 DEF TakeUpdate
  <2> QED BY <2>1, <2>2, <2>3, <1>t, TailKinds DEF ExitInv
<1>18. CASE TakeRedraw(w)
  <2>1. /\ queue[w] \in Seq(Event) /\ queue[w] # <<>>
        /\ queue'[w] = Tail(queue[w]) /\ Head(queue[w]).kind = "redraw"
    BY <1>18, <1>t, TakesKinds DEF TakeRedraw
  <2>2. /\ renderer'[w].utils = renderer[w].utils
        /\ renderer'[w].quitting = renderer[w].quitting
    BY <1>18, <1>v DEF TakeRedraw, SetRenderer, Renderer
  <2>3. UNCHANGED <<gui, window>>
    BY <1>18 DEF TakeRedraw
  <2> QED BY <2>1, <2>2, <2>3, <1>t, TailKinds DEF ExitInv
<1>19. CASE ChooseRegion(w)
  <2>1. renderer[w].pc \in {"region", "shader", "draw"}
        /\ UNCHANGED <<gui, window, queue>>
    BY <1>19 DEF ChooseRegion, Draws
  <2>2. /\ renderer'[w].utils = renderer[w].utils
        /\ renderer'[w].quitting = renderer[w].quitting
    BY <1>19, <1>v DEF ChooseRegion, Draws, SetRenderer, Renderer
  <2> QED BY <2>1, <2>2, <1>t DEF ExitInv
<1>20. CASE ChooseShader(w)
  <2>1. renderer[w].pc \in {"region", "shader", "draw"}
        /\ UNCHANGED <<gui, window, queue>>
    BY <1>20 DEF ChooseShader, Draws
  <2>2. /\ renderer'[w].utils = renderer[w].utils
        /\ renderer'[w].quitting = renderer[w].quitting
    BY <1>20, <1>v DEF ChooseShader, Draws, SetRenderer, Renderer
  <2> QED BY <2>1, <2>2, <1>t DEF ExitInv
<1>21. CASE DrawDisplay(w)
  <2>1. renderer[w].pc \in {"region", "shader", "draw"}
        /\ UNCHANGED <<gui, window, queue>>
    BY <1>21 DEF DrawDisplay, Draws
  <2>2. /\ renderer'[w].utils = renderer[w].utils
        /\ renderer'[w].quitting = renderer[w].quitting
    BY <1>21, <1>v DEF DrawDisplay, Draws, SetRenderer, Renderer
  <2> QED BY <2>1, <2>2, <1>t DEF ExitInv
<1>22. CASE DestroyDisplay(w)
  <2>1. /\ queue[w] \in Seq(Event) /\ queue[w] # <<>> /\ renderer[w].pc = "loop"
        /\ queue'[w] = Tail(queue[w]) /\ Head(queue[w]).kind = "destroy"
    BY <1>22, <1>t, TakesKinds DEF DestroyDisplay
  <2>2. gui' = [pc |-> "quit", w |-> w] /\ window' = window
        /\ renderer'[w].pc = renderer[w].pc
    BY <1>22, <1>v DEF DestroyDisplay, SetRenderer, Renderer
  <2>3. ~NoDestroy(queue[w])
    BY <2>1, TailKinds
  <2>4. window[w].life = "closing" /\ gui = [pc |-> "exitRender", w |-> w]
    BY <2>1, <2>3, <1>t, <1>v DEF ExitInv, TurnInv, Window, Pcs
  <2>5. queue'[w] = <<>>
    BY <2>1, <2>4, <1>t, TailKinds DEF ExitInv
  <2> QED BY <2>1, <2>2, <2>4, <2>5 DEF ExitInv
<1>23. CASE Stop(w)
  <2>1. renderer[w].quitting /\ UNCHANGED <<gui, window>>
    BY <1>23 DEF Stop
  <2>2. queue'[w] = <<>> /\ renderer'[w].pc = "finished"
    BY <1>23, <1>v DEF Stop, SetRenderer, Renderer
  <2> QED BY <2>1, <2>2, <1>t DEF ExitInv
<1>24. CASE DecoderFinds(w)
  <2>1. window[w].life \in {"new", "live"} /\ window'[w].life \in {"new", "live"}
    BY <1>24, <1>t, <1>v DEF DecoderFinds, TurnInv, SetWindow, Window
  <2>2. /\ renderer'[w].utils = renderer[w].utils
        /\ renderer'[w].quitting = renderer[w].quitting
    BY <1>24, <1>v DEF DecoderFinds, SetRenderer, Renderer
  <2>3. NoDestroy(queue'[w])
    BY <1>24, <1>l, <2>1 DEF DecoderFinds
  <2> QED BY <2>1, <2>2, <2>3, <1>t, ExitStays
<1>25. CASE DecoderUpdates(w)
  <2>1. window[w].life = "live" /\ UNCHANGED window
    BY <1>25, <1>t, <1>v DEF DecoderUpdates, TurnInv
  <2>2. PICK f \in Frame : UpdateDisplay(w, f)
    BY <1>25, <1>v, BoundsAssumption DEF DecoderUpdates, Frame
  <2> QED BY <2>1, <2>2, <1>l, <1>t, UpdateFields, ExitStays
<1> QED
  BY <1>s, <1>1, <1>2, <1>3, <1>4, <1>5, <1>6, <1>7, <1>8, <1>9, <1>10,
     <1>11, <1>12, <1>13, <1>14, <1>15, <1>16, <1>17, <1>18, <1>19, <1>20,
     <1>21, <1>22, <1>23, <1>24, <1>25
  DEF Step, GuiCall, GuiStep, WorkerStep

LEMMA InitExit == Init => InvExit
<1> SUFFICES ASSUME Init PROVE InvExit
  OBVIOUS
<1>1. TypeOK
  BY InitType
<1>2. TurnInv
  BY WidgetAssumption DEF Init, TurnInv, GuiIdle, Closing, NewWindow
<1>3. ASSUME NEW w \in Widgets PROVE ExitInv(w)
  BY <1>3, WidgetAssumption
  DEF Init, ExitInv, NoDestroy, NewWindow, NewRenderer, GuiIdle
<1> QED BY <1>1, <1>2, <1>3 DEF InvExit

LEMMA NextInvExit == InvExit /\ [Next]_vars => InvExit'
<1> SUFFICES ASSUME InvExit, [Next]_vars PROVE InvExit'
  OBVIOUS
<1>1. TypeOK'
  BY NextType DEF InvExit
<1>2. CASE UNCHANGED vars
  BY <1>1, <1>2 DEF vars, InvExit, TurnInv, ExitInv, NoDestroy, EndsDestroy
<1>3. ASSUME NEW w \in Widgets, Step(w) PROVE InvExit'
  <2>1. TurnInv'
    BY <1>3, NextTurn
  <2>2. ASSUME NEW v \in Widgets PROVE ExitInv(v)'
    <3>1. CASE v = w
      BY <1>3, <3>1, NextExit
    <3>2. CASE v # w
      <4>1. /\ window'[v] = window[v] /\ queue'[v] = queue[v]
            /\ renderer'[v] = renderer[v]
            /\ gui' = gui \/ gui'.w = w \/ gui' = GuiIdle
        BY <1>3, <3>2, OthersUntouched DEF InvExit
      <4>2. ExitInv(v)
        BY DEF InvExit
      <4> QED BY <4>1, <4>2, <3>2, WidgetAssumption DEF ExitInv, GuiIdle
    <3> QED BY <3>1, <3>2
  <2> QED BY <1>1, <2>1, <2>2 DEF InvExit
<1> QED BY <1>2, <1>3 DEF Next, Step

\* When destroyDisplay has deleted what update and redraw use, none of them is
\* posted or running, whatever the decoder, the window and its timers do
\* (gles_display_work_manager.cpp:32-37, displaybackend.cpp:127-137).
THEOREM NothingRunsAfterExit == Spec => []NothingAfterExit
<1>1. InvExit => NothingAfterExit
  <2> SUFFICES ASSUME InvExit, NEW w \in Widgets, ~renderer[w].utils
               PROVE  queue[w] = <<>> /\ renderer[w].pc \in {"loop", "finished"}
    BY DEF NothingAfterExit
  <2>1. TypeOK /\ TurnInv /\ ExitInv(w)
    BY DEF InvExit
  <2>2. window[w] \in Window /\ gui \in [pc : Pcs, w : Widgets \cup {NoWidget}]
    BY <2>1 DEF TypeOK, Pcs
  <2>3. CASE window[w].life = "closing"
    BY <2>1, <2>2, <2>3 DEF TurnInv, ExitInv, Closing, Pcs
  <2>4. CASE window[w].life # "closing"
    BY <2>1, <2>2, <2>4 DEF ExitInv, Window
  <2> QED BY <2>3, <2>4
<1> QED BY <1>1, InitExit, NextInvExit, PTL DEF Spec

-----------------------------------------------------------------------------
(* The screen                                                              *)

HasUpdate(q)     == \E i \in 1 .. Len(q) : q[i].kind = "update"
LastUpdate(q, f) == \A i \in 1 .. Len(q) :
                        /\ q[i].kind = "update"
                        /\ \A j \in (i + 1) .. Len(q) : q[j].kind # "update"
                        => q[i].frame = f

LEMMA AppendUpdate ==
    ASSUME NEW q \in Seq(Event), NEW e \in Event, NEW f
    PROVE  /\ Append(q, e) # <<>>
           /\ e.kind = "update" => /\ HasUpdate(Append(q, e))
                                   /\ LastUpdate(Append(q, e), e.frame)
           /\ e.kind # "update" =>
                  /\ HasUpdate(Append(q, e)) => HasUpdate(q)
                  /\ HasUpdate(q) => HasUpdate(Append(q, e))
                  /\ LastUpdate(q, f) => LastUpdate(Append(q, e), f)
<1> DEFINE a == Append(q, e)
<1>1. /\ Len(a) = Len(q) + 1 /\ Len(q) \in Nat /\ a[Len(a)] = e
      /\ \A i \in 1 .. Len(q) : a[i] = q[i]
  OBVIOUS
<1>2. \A i \in 1 .. Len(a) : i = Len(a) \/ i \in 1 .. Len(q)
  BY <1>1
<1>3. Len(a) \in 1 .. Len(a) /\ 1 .. Len(q) \subseteq 1 .. Len(a)
  BY <1>1
<1>4. a # <<>>
  BY <1>1, EmptySeq
<1> HIDE DEF a
<1>5. ASSUME e.kind = "update" PROVE HasUpdate(a) /\ LastUpdate(a, e.frame)
  <2>1. HasUpdate(a)
    BY <1>1, <1>3, <1>5 DEF HasUpdate
  <2>2. ASSUME NEW i \in 1 .. Len(a), a[i].kind = "update",
               \A j \in (i + 1) .. Len(a) : a[j].kind # "update"
        PROVE  a[i].frame = e.frame
    <3>1. i = Len(a) \/ Len(a) \in (i + 1) .. Len(a)
      BY <1>1
    <3> QED BY <1>1, <1>5, <2>2, <3>1
  <2> QED BY <2>1, <2>2 DEF LastUpdate
<1>6. ASSUME e.kind # "update"
      PROVE  /\ HasUpdate(a) => HasUpdate(q)
             /\ HasUpdate(q) => HasUpdate(a)
             /\ LastUpdate(q, f) => LastUpdate(a, f)
  <2>1. HasUpdate(a) => HasUpdate(q)
    BY <1>1, <1>2, <1>6 DEF HasUpdate
  <2>2. HasUpdate(q) => HasUpdate(a)
    BY <1>1, <1>3 DEF HasUpdate
  <2>3. ASSUME LastUpdate(q, f), NEW i \in 1 .. Len(a), a[i].kind = "update",
               \A j \in (i + 1) .. Len(a) : a[j].kind # "update"
        PROVE  a[i].frame = f
    <3>1. i \in 1 .. Len(q)
      BY <1>1, <1>2, <1>6, <2>3
    <3>2. \A j \in (i + 1) .. Len(q) : j \in (i + 1) .. Len(a) /\ a[j] = q[j]
      BY <1>1, <3>1
    <3> QED BY <1>1, <2>3, <3>1, <3>2 DEF LastUpdate
  <2> QED BY <2>1, <2>2, <2>3 DEF LastUpdate
<1> QED BY <1>4, <1>5, <1>6 DEF a

LEMMA TailUpdate ==
    ASSUME NEW q \in Seq(Event), q # <<>>, NEW f
    PROVE  /\ LastUpdate(q, f) => LastUpdate(Tail(q), f)
           /\ HasUpdate(Tail(q)) => HasUpdate(q)
           /\ Head(q).kind # "update" /\ HasUpdate(q) => HasUpdate(Tail(q))
           /\ Head(q).kind = "update" =>
                  /\ HasUpdate(q)
                  /\ LastUpdate(q, f) /\ ~HasUpdate(Tail(q)) =>
                         Head(q).frame = f
<1> DEFINE t == Tail(q)
<1>1. Head(q) = q[1] /\ Len(t) = Len(q) - 1 /\ Len(q) \in Nat \ {0}
  OBVIOUS
<1>2. \A i \in 1 .. Len(t) : t[i] = q[i + 1] /\ i + 1 \in 1 .. Len(q)
  OBVIOUS
<1>3. \A i \in 1 .. Len(q) : i = 1 \/ (i - 1 \in 1 .. Len(t) /\ t[i - 1] = q[i])
  OBVIOUS
<1>4. 1 \in 1 .. Len(q)
  BY <1>1
<1> HIDE DEF t
<1>5. ASSUME LastUpdate(q, f), NEW i \in 1 .. Len(t), t[i].kind = "update",
             \A j \in (i + 1) .. Len(t) : t[j].kind # "update"
      PROVE  t[i].frame = f
  <2>1. ASSUME NEW j \in ((i + 1) + 1) .. Len(q)
        PROVE  q[j].kind # "update"
    <3>1. /\ j \in 1 .. Len(q) /\ j # 1
          /\ j - 1 \in (i + 1) .. Len(t)
      BY <1>1
    <3>2. t[j - 1].kind # "update" /\ t[j - 1] = q[j]
      BY <1>3, <1>5, <3>1
    <3> QED BY <3>2
  <2> QED BY <1>2, <1>5, <2>1 DEF LastUpdate
<1>6. HasUpdate(t) => HasUpdate(q)
  BY <1>2 DEF HasUpdate
<1>7. Head(q).kind # "update" /\ HasUpdate(q) => HasUpdate(t)
  BY <1>1, <1>3 DEF HasUpdate
<1>8. Head(q).kind = "update" => HasUpdate(q)
  BY <1>1, <1>4 DEF HasUpdate
<1>9. ASSUME Head(q).kind = "update", LastUpdate(q, f), ~HasUpdate(t)
      PROVE  Head(q).frame = f
  <2>1. \A j \in (1 + 1) .. Len(q) : q[j].kind # "update"
    BY <1>1, <1>3, <1>9 DEF HasUpdate
  <2> QED BY <1>1, <1>4, <1>9, <2>1 DEF LastUpdate
<1> QED BY <1>5, <1>6, <1>7, <1>8, <1>9 DEF t, LastUpdate

LEMMA PostUpdate ==
    ASSUME QueueType, NEW w \in Widgets, NEW f \in Frame, NEW g,
           NEW kind \in {"update", "redraw"}, Post(w, kind, f)
    PROVE  /\ queue'[w] # <<>>
           /\ kind = "update" => HasUpdate(queue'[w]) /\ LastUpdate(queue'[w], f)
           /\ kind = "redraw" =>
                  /\ HasUpdate(queue'[w]) <=> HasUpdate(queue[w])
                  /\ LastUpdate(queue[w], g) => LastUpdate(queue'[w], g)
<1> DEFINE e == [kind |-> kind, frame |-> f]
<1>1. e \in Event /\ e.kind = kind /\ e.frame = f
  BY DEF Event
<1>2. queue[w] \in Seq(Event) /\ queue'[w] = Append(queue[w], e)
  BY DEF QueueType, Post
<1> HIDE DEF e
<1>3. queue'[w] # <<>>
  BY <1>1, <1>2, AppendUpdate
<1>4. ASSUME kind = "update"
      PROVE  HasUpdate(queue'[w]) /\ LastUpdate(queue'[w], f)
  BY <1>1, <1>2, <1>4, AppendUpdate
<1>5. ASSUME kind = "redraw"
      PROVE  /\ HasUpdate(queue'[w]) <=> HasUpdate(queue[w])
             /\ LastUpdate(queue[w], g) => LastUpdate(queue'[w], g)
  <2>1. e.kind # "update" BY <1>1, <1>5
  <2>2. /\ HasUpdate(Append(queue[w], e)) <=> HasUpdate(queue[w])
        /\ LastUpdate(queue[w], g) => LastUpdate(Append(queue[w], e), g)
    BY <1>1, <1>2, <2>1, AppendUpdate
  <2> QED BY <1>2, <2>2
<1> QED BY <1>3, <1>4, <1>5

\* The GUI thread is in a call that ends with a redraw of this window.
Redraws(w) ==
    gui.w = w /\ gui.pc \in {"blur", "size", "realSize", "redraw", "blurRedraw"}

RegionNow(w) == IF renderer[w].mBlurEnabled THEN MinSize ELSE window[w].size

PictureNow(w) == [frame   |-> renderer[w].frame,
                  region  |-> RegionNow(w),
                  size    |-> window[w].size,
                  blurred |-> renderer[w].mBlurEnabled]

\* The renderer of a display whose updates are wanted lets them through; only
\* an open display has frames.
GateFresh(w) ==
    /\ Updating(w) => renderer[w].mUpdateEnabled
    /\ renderer[w].frame # 0 \/ HasUpdate(queue[w]) => open[w]

\* The last frame that was handed over is on its way, current, or dropped.
FrameFresh(w) ==
    /\ ~renderer[w].mIsReadyForRender => renderer[w].frame = 0
    /\ LastUpdate(queue[w], last[w])
    /\ HasUpdate(queue[w]) \/ renderer[w].frame = last[w] \/ renderer[w].skipped

\* A blur has a timer, and the two sizes agree.
WindowFresh(w) ==
    /\ renderer[w].mBlurEnabled =>
           window[w].timers > 0 \/ gui = [pc |-> "blur", w |-> w]
    /\ gui # [pc |-> "realSize", w |-> w] =>
           window[w].realSize = window[w].size

\* When no redraw is posted or about to be, what the worker has chosen so far
\* is what the picture is now, and so is what it has drawn.
PictureFresh(w) ==
    Updating(w) /\ renderer[w].frame # 0 /\ queue[w] = <<>> /\ ~Redraws(w) =>
        /\ renderer[w].pc = "loop" => renderer[w].screen = PictureNow(w)
        /\ renderer[w].pc \in {"shader", "draw"} =>
               renderer[w].region = RegionNow(w)
        /\ renderer[w].pc = "draw" =>
               renderer[w].blurred = renderer[w].mBlurEnabled

Fresh(w) == GateFresh(w) /\ FrameFresh(w) /\ WindowFresh(w) /\ PictureFresh(w)

Unused(w) == /\ window[w] = NewWindow /\ queue[w] = <<>>
             /\ renderer[w] = NewRenderer
             /\ ~wanted[w] /\ ~open[w] /\ last[w] = 0

InvFresh == /\ InvExit
            /\ \A w \in Widgets : /\ window[w].life = "new" => Unused(w)
                                  /\ Live(w) => Fresh(w)


\* A frame that passes is the last one, and what has passed will be drawn.
LEMMA UpdateFresh ==
    ASSUME TypeOK, NEW w \in Widgets, NEW f \in Frame, Fresh(w),
           UpdateDisplay(w, f), window' = window,
           \/ gui' = gui
           \/ /\ gui = [pc |-> "replay", w |-> w]
              /\ gui' = [pc |-> "idle", w |-> NoWidget]
    PROVE  Fresh(w)'
<1> USE WidgetAssumption
<1>v. /\ renderer \in [Widgets -> Renderer] /\ renderer[w] \in Renderer
      /\ wanted \in [Widgets -> BOOLEAN] /\ open \in [Widgets -> BOOLEAN]
      /\ last \in [Widgets -> Frame] /\ QueueType
  BY TypeParts DEF TypeOK
<1>1. CASE /\ Gate!Pass(w, f)
           /\ SetRenderer(w, [renderer[w] EXCEPT !.mUpdateEnabled = TRUE])
           /\ Post(w, "update", f)
  <2>1. /\ wanted'[w] = wanted[w] /\ open'[w] /\ last'[w] = f
        /\ renderer'[w] = [renderer[w] EXCEPT !.mUpdateEnabled = TRUE]
    BY <1>1, <1>v DEF SetRenderer
  <2>2. queue'[w] # <<>> /\ HasUpdate(queue'[w]) /\ LastUpdate(queue'[w], f)
    BY <1>1, <1>v, PostUpdate
  <2>3. /\ renderer'[w].mUpdateEnabled /\ renderer'[w].frame = renderer[w].frame
        /\ renderer'[w].mBlurEnabled = renderer[w].mBlurEnabled
        /\ renderer'[w].mIsReadyForRender = renderer[w].mIsReadyForRender
    BY <1>v, <2>1 DEF Renderer
  <2> QED
    BY <2>1, <2>2, <2>3
    DEF Fresh, GateFresh, FrameFresh, WindowFresh, PictureFresh
<1>2. CASE Gate!Open(w) /\ ~wanted[w] /\ UNCHANGED <<renderer, queue>>
  <2>1. ~wanted'[w] /\ open'[w] /\ last'[w] = last[w]
    BY <1>2, <1>v
  <2> QED
    BY <1>2, <2>1
    DEF Fresh, GateFresh, FrameFresh, WindowFresh, PictureFresh, Updating
<1>3. CASE UNCHANGED <<wanted, open, last, renderer, queue>>
  BY <1>3
  DEF Fresh, GateFresh, FrameFresh, WindowFresh, PictureFresh, Updating,
      Redraws, RegionNow, PictureNow
<1> QED BY <1>1, <1>2, <1>3 DEF UpdateDisplay

\* Each action leaves the picture fresh: it posts a redraw, is about to, or
\* changes nothing that is on the screen.
LEMMA NextFresh ==
    ASSUME InvFresh, NEW w \in Widgets, Step(w)
    PROVE  /\ window'[w].life = "new" => Unused(w)'
           /\ window'[w].life = "live" => Fresh(w)'
<1> DEFINE Goal == /\ window'[w].life = "new" => Unused(w)'
                   /\ window'[w].life = "live" => Fresh(w)'
<1> USE WidgetAssumption DEF GuiAt, GuiGoes, GuiIdle, Live
<1>t. /\ TypeOK /\ TurnInv /\ ExitInv(w) /\ QueueType
      /\ window[w].life = "new" => Unused(w)
      /\ window[w].life = "live" => Fresh(w)
  BY TypeParts DEF InvFresh, InvExit
<1>v. /\ window \in [Widgets -> Window] /\ window[w] \in Window
      /\ gui \in [pc : Pcs, w : Widgets \cup {NoWidget}]
      /\ renderer \in [Widgets -> Renderer] /\ renderer[w] \in Renderer
      /\ queue \in [Widgets -> Seq(Event)] /\ queue[w] \in Seq(Event)
      /\ wanted \in [Widgets -> BOOLEAN] /\ open \in [Widgets -> BOOLEAN]
      /\ last \in [Widgets -> Frame]
      /\ posted \in Frame /\ 0 \in Frame
  BY <1>t, BoundsAssumption DEF TypeOK, Pcs, Frame
<1>s. Step(w)
  OBVIOUS
<1>1. CASE RegisterDisplay(w)
  <2>1. /\ Unused(w) /\ gui.w = NoWidget
        /\ window'[w] = [NewWindow EXCEPT !.life = "live"]
        /\ UNCHANGED <<wanted, open, last, gui, queue, renderer>>
    BY <1>1, <1>t, <1>v DEF RegisterDisplay, SetWindow, Unused, TurnInv
  <2> QED
    BY <2>1 DEF Unused, NewWindow, NewRenderer, Fresh, GateFresh, FrameFresh,
            WindowFresh, PictureFresh, Updating, HasUpdate, LastUpdate
<1>2. CASE Show(w)
  <2>1. window[w].life = "live" /\ window'[w].life = "live" /\ Fresh(w)
    BY <1>2, <1>t, <1>v DEF Show, Enable, Call, TurnInv, Closing, SetWindow, Window
  <2>2. /\ open'[w] = open[w] /\ last'[w] = last[w] /\ wanted'[w]
        /\ window' = window /\ queue' = queue
        /\ renderer'[w] = [renderer[w] EXCEPT !.mUpdateEnabled = @ \/ open[w]]
        /\ gui' = [pc |-> "redraw", w |-> w]
        /\ gui = [pc |-> "idle", w |-> NoWidget]
    BY <1>2, <1>v DEF Show, Enable, Call, SetWindow, SetRenderer, Renderer, Window
  <2>a. GateFresh(w)'
    BY <1>v, <2>1, <2>2 DEF Fresh, GateFresh, Updating
  <2>b. FrameFresh(w)'
    BY <1>v, <2>1, <2>2 DEF Fresh, FrameFresh
  <2>c. WindowFresh(w)'
    BY <1>v, <2>1, <2>2 DEF Fresh, WindowFresh
  <2>d. PictureFresh(w)'
    BY <1>v, <2>1, <2>2
    DEF Fresh, GateFresh, FrameFresh, WindowFresh, PictureFresh, Updating,
        Redraws, RegionNow, PictureNow
  <2> QED BY <2>1, <2>a, <2>b, <2>c, <2>d DEF Fresh
<1>3. CASE Hide(w)
  <2>1. window[w].life = "live" /\ window'[w].life = "live" /\ Fresh(w)
    BY <1>3, <1>t, <1>v DEF Hide, Enable, Call, TurnInv, Closing, SetWindow, Window
  <2>2. /\ open'[w] = open[w] /\ last'[w] = last[w] /\ ~wanted'[w]
        /\ window' = window /\ queue' = queue
        /\ renderer'[w] = [renderer[w] EXCEPT !.mUpdateEnabled = FALSE]
        /\ gui' = gui
    BY <1>3, <1>v DEF Hide, Enable, Call, SetWindow, SetRenderer, Renderer, Window
  <2>a. GateFresh(w)'
    BY <1>v, <2>1, <2>2 DEF Fresh, GateFresh, Updating
  <2>b. FrameFresh(w)'
    BY <1>v, <2>1, <2>2 DEF Fresh, FrameFresh
  <2>c. WindowFresh(w)'
    BY <1>v, <2>1, <2>2 DEF Fresh, WindowFresh
  <2>d. PictureFresh(w)'
    BY <1>v, <2>1, <2>2
    DEF Fresh, GateFresh, FrameFresh, WindowFresh, PictureFresh, Updating,
        Redraws, RegionNow, PictureNow
  <2> QED BY <2>1, <2>a, <2>b, <2>c, <2>d DEF Fresh
<1>4. CASE BlurUpdate(w)
  <2>1. window[w].life = "live" /\ window' = window /\ Fresh(w)
        /\ gui = [pc |-> "idle", w |-> NoWidget]
        /\ queue' = queue /\ UNCHANGED <<wanted, open, last>>
    BY <1>4, <1>t, <1>v DEF BlurUpdate, Call
  <2>2. CASE Updating(w)
    <3>1. /\ renderer'[w] = [renderer[w] EXCEPT !.mBlurEnabled = TRUE]
          /\ gui' = [pc |-> "blur", w |-> w]
      BY <1>4, <1>v, <2>2 DEF BlurUpdate, SetRenderer
    <3> QED
      BY <1>v, <2>1, <3>1
      DEF Fresh, GateFresh, FrameFresh, WindowFresh, PictureFresh, Updating,
          Redraws, Renderer
  <2>3. CASE ~Updating(w)
    <3>1. renderer' = renderer /\ gui' = [pc |-> "size", w |-> w]
      BY <1>4, <2>3 DEF BlurUpdate
    <3> QED
      BY <2>1, <3>1
      DEF Fresh, GateFresh, FrameFresh, WindowFresh, PictureFresh, Updating,
          Redraws
  <2> QED BY <2>2, <2>3
<1>5. ASSUME NEW pc \in {"size", "redraw"}, BeginDraw(w, pc)
      PROVE  Goal
  <2>1. window[w].life = "live" /\ window'[w].life = "live" /\ Fresh(w)
    BY <1>5, <1>t, <1>v DEF BeginDraw, Call, TurnInv, Closing, SetWindow, Window
  <2>2. /\ UNCHANGED <<wanted, open, last, window, queue, renderer>>
        /\ gui' = [pc |-> pc, w |-> w]
        /\ gui = [pc |-> "idle", w |-> NoWidget]
    BY <1>5, <1>v DEF BeginDraw, Call, SetWindow, SetRenderer, Renderer, Window
  <2>a. GateFresh(w)'
    BY <1>v, <2>1, <2>2 DEF Fresh, GateFresh, Updating
  <2>b. FrameFresh(w)'
    BY <1>v, <2>1, <2>2 DEF Fresh, FrameFresh
  <2>c. WindowFresh(w)'
    BY <1>v, <2>1, <2>2 DEF Fresh, WindowFresh
  <2>d. PictureFresh(w)'
    BY <1>v, <2>1, <2>2
    DEF Fresh, GateFresh, FrameFresh, WindowFresh, PictureFresh, Updating,
        Redraws, RegionNow, PictureNow
  <2> QED BY <2>1, <2>a, <2>b, <2>c, <2>d DEF Fresh
<1>6. CASE DelayTimer(w)
  <2>1. window[w].life = "live" /\ window'[w].life = "live" /\ Fresh(w)
    BY <1>6, <1>t, <1>v DEF DelayTimer, Call, TurnInv, Closing, SetWindow, Window
  <2>2. /\ ~open[w] /\ last'[w] = last[w] /\ wanted'[w] = wanted[w] /\ open'[w]
        /\ window' = window /\ queue' = queue
        /\ renderer'[w] = [renderer[w] EXCEPT !.mUpdateEnabled = @ \/ wanted[w]]
        /\ gui' = [pc |-> "replay", w |-> w]
        /\ gui = [pc |-> "idle", w |-> NoWidget]
    BY <1>6, <1>v DEF DelayTimer, Call, SetWindow, SetRenderer, Renderer, Window
  <2>a. GateFresh(w)'
    BY <1>v, <2>1, <2>2 DEF Fresh, GateFresh, Updating
  <2>b. FrameFresh(w)'
    BY <1>v, <2>1, <2>2 DEF Fresh, FrameFresh
  <2>c. WindowFresh(w)'
    BY <1>v, <2>1, <2>2 DEF Fresh, WindowFresh
  <2>d. PictureFresh(w)'
    BY <1>v, <2>1, <2>2
    DEF Fresh, GateFresh, FrameFresh, WindowFresh, PictureFresh, Updating,
        Redraws, RegionNow, PictureNow
  <2> QED BY <2>1, <2>a, <2>b, <2>c, <2>d DEF Fresh
<1>7. CASE UnregisterDisplay(w)
  BY <1>7, <1>v DEF UnregisterDisplay, Close, SetWindow, Window
<1>8. CASE BlurStartTimer(w)
  <2>1. window[w].life = "live" /\ window'[w].life = "live" /\ Fresh(w)
    BY <1>8, <1>t, <1>v DEF BlurStartTimer, TurnInv, Closing, SetWindow, Window
  <2>2. /\ renderer' = renderer /\ UNCHANGED <<wanted, open, last>>
        /\ window'[w].timers > 0 /\ window'[w].size = window[w].size
        /\ window'[w].realSize = window[w].realSize
        /\ gui = [pc |-> "blur", w |-> w] /\ gui' = [pc |-> "size", w |-> w]
    BY <1>8, <1>v DEF BlurStartTimer, SetWindow, Window
  <2>3. /\ HasUpdate(queue'[w]) <=> HasUpdate(queue[w])
        /\ LastUpdate(queue[w], last[w]) => LastUpdate(queue'[w], last[w])
    BY <1>8, <1>t, <1>v, PostUpdate DEF BlurStartTimer
  <2>a. GateFresh(w)'
    BY <1>v, <2>1, <2>2, <2>3 DEF Fresh, GateFresh, Updating
  <2>b. FrameFresh(w)'
    BY <1>v, <2>1, <2>2, <2>3 DEF Fresh, FrameFresh
  <2>c. WindowFresh(w)'
    BY <1>v, <2>1, <2>2, <2>3 DEF Fresh, WindowFresh
  <2>d. PictureFresh(w)'
    BY <1>v, <2>1, <2>2, <2>3
    DEF Fresh, GateFresh, FrameFresh, WindowFresh, PictureFresh, Updating,
        Redraws, RegionNow, PictureNow
  <2> QED BY <2>1, <2>a, <2>b, <2>c, <2>d DEF Fresh
<1>9. CASE SetFixedSize(w)
  <2>1. window[w].life = "live" /\ window'[w].life = "live" /\ Fresh(w)
    BY <1>9, <1>t, <1>v DEF SetFixedSize, Call, TurnInv, Closing, SetWindow, Window
  <2>2. /\ UNCHANGED <<wanted, open, last, queue, renderer>>
        /\ window'[w].timers = window[w].timers
        /\ gui = [pc |-> "size", w |-> w]
        /\ gui' = [pc |-> "realSize", w |-> w]
    BY <1>9, <1>v DEF SetFixedSize, Call, SetWindow, SetRenderer, Renderer, Window
  <2>a. GateFresh(w)'
    BY <1>v, <2>1, <2>2 DEF Fresh, GateFresh, Updating
  <2>b. FrameFresh(w)'
    BY <1>v, <2>1, <2>2 DEF Fresh, FrameFresh
  <2>c. WindowFresh(w)'
    BY <1>v, <2>1, <2>2 DEF Fresh, WindowFresh
  <2>d. PictureFresh(w)'
    BY <1>v, <2>1, <2>2
    DEF Fresh, GateFresh, FrameFresh, WindowFresh, PictureFresh, Updating,
        Redraws, RegionNow, PictureNow
  <2> QED BY <2>1, <2>a, <2>b, <2>c, <2>d DEF Fresh
<1>10. CASE SetRealSize(w)
  <2>1. window[w].life = "live" /\ window'[w].life = "live" /\ Fresh(w)
    BY <1>10, <1>t, <1>v DEF SetRealSize, Call, TurnInv, Closing, SetWindow, Window
  <2>2. /\ UNCHANGED <<wanted, open, last, queue, renderer>>
        /\ window'[w].timers = window[w].timers
        /\ window'[w].size = window[w].size
        /\ window'[w].realSize = window'[w].size
        /\ gui = [pc |-> "realSize", w |-> w]
        /\ gui' = [pc |-> "redraw", w |-> w]
    BY <1>10, <1>v DEF SetRealSize, Call, SetWindow, SetRenderer, Renderer, Window
  <2>a. GateFresh(w)'
    BY <1>v, <2>1, <2>2 DEF Fresh, GateFresh, Updating
  <2>b. FrameFresh(w)'
    BY <1>v, <2>1, <2>2 DEF Fresh, FrameFresh
  <2>c. WindowFresh(w)'
    BY <1>v, <2>1, <2>2 DEF Fresh, WindowFresh
  <2>d. PictureFresh(w)'
    BY <1>v, <2>1, <2>2
    DEF Fresh, GateFresh, FrameFresh, WindowFresh, PictureFresh, Updating,
        Redraws, RegionNow, PictureNow
  <2> QED BY <2>1, <2>a, <2>b, <2>c, <2>d DEF Fresh
<1>11. CASE ForceRedraw(w)
  <2>1. /\ window[w].life = "live" /\ window' = window /\ Fresh(w)
        /\ renderer' = renderer /\ UNCHANGED <<wanted, open, last>>
        /\ gui = [pc |-> "redraw", w |-> w]
        /\ gui' = [pc |-> "idle", w |-> NoWidget]
    BY <1>11, <1>t, <1>v DEF ForceRedraw, TurnInv, Closing
  <2>2. /\ HasUpdate(queue'[w]) <=> HasUpdate(queue[w])
        /\ LastUpdate(queue[w], last[w]) => LastUpdate(queue'[w], last[w])
        /\ Updating(w) => queue'[w] # <<>>
    <3>1. CASE Updating(w)
      BY <1>11, <1>t, <1>v, <3>1, PostUpdate DEF ForceRedraw
    <3>2. CASE ~Updating(w)
      BY <1>11, <3>2 DEF ForceRedraw
    <3> QED BY <3>1, <3>2
  <2>a. GateFresh(w)'
    BY <1>v, <2>1, <2>2 DEF Fresh, GateFresh, Updating
  <2>b. FrameFresh(w)'
    BY <1>v, <2>1, <2>2 DEF Fresh, FrameFresh
  <2>c. WindowFresh(w)'
    BY <1>v, <2>1, <2>2 DEF Fresh, WindowFresh
  <2>d. PictureFresh(w)'
    BY <1>v, <2>1, <2>2
    DEF Fresh, GateFresh, FrameFresh, WindowFresh, PictureFresh, Updating,
        Redraws, RegionNow, PictureNow
  <2> QED BY <2>1, <2>a, <2>b, <2>c, <2>d DEF Fresh
<1>12. CASE BlurTimer(w)
  <2>1. CASE ~Live(w)
    <3>1. window[w].life # "new"
      BY <1>12, <1>t, <1>v DEF BlurTimer, Unused, NewWindow
    <3> QED
      BY <1>12, <1>v, <2>1, <3>1 DEF BlurTimer, SetWindow, Window
  <2>2. CASE Live(w)
    <3>1. /\ window'[w].life = "live" /\ Fresh(w)
          /\ window'[w].size = window[w].size
          /\ window'[w].realSize = window[w].realSize
          /\ UNCHANGED <<wanted, open, last, queue>>
          /\ renderer'[w] = [renderer[w] EXCEPT !.mBlurEnabled = FALSE]
          /\ gui = [pc |-> "idle", w |-> NoWidget]
          /\ gui' = [pc |-> "blurRedraw", w |-> w]
      BY <1>12, <1>t, <1>v, <2>2 DEF BlurTimer, SetWindow, SetRenderer, Window
    <3> QED
      BY <1>v, <3>1
      DEF Fresh, GateFresh, FrameFresh, WindowFresh, PictureFresh, Updating,
          Redraws, Renderer
  <2> QED BY <2>1, <2>2
<1>13. CASE BlurTimerRedraw(w)
  <2>1. /\ window[w].life = "live" /\ window' = window /\ Fresh(w)
        /\ renderer' = renderer /\ UNCHANGED <<wanted, open, last>>
        /\ gui = [pc |-> "blurRedraw", w |-> w]
        /\ gui' = [pc |-> "idle", w |-> NoWidget]
    BY <1>13, <1>t, <1>v DEF BlurTimerRedraw, TurnInv, Closing
  <2>2. /\ HasUpdate(queue'[w]) <=> HasUpdate(queue[w])
        /\ LastUpdate(queue[w], last[w]) => LastUpdate(queue'[w], last[w])
        /\ queue'[w] # <<>>
    BY <1>13, <1>t, <1>v, PostUpdate DEF BlurTimerRedraw
  <2>a. GateFresh(w)'
    BY <1>v, <2>1, <2>2 DEF Fresh, GateFresh, Updating
  <2>b. FrameFresh(w)'
    BY <1>v, <2>1, <2>2 DEF Fresh, FrameFresh
  <2>c. WindowFresh(w)'
    BY <1>v, <2>1, <2>2 DEF Fresh, WindowFresh
  <2>d. PictureFresh(w)'
    BY <1>v, <2>1, <2>2
    DEF Fresh, GateFresh, FrameFresh, WindowFresh, PictureFresh, Updating,
        Redraws, RegionNow, PictureNow
  <2> QED BY <2>1, <2>a, <2>b, <2>c, <2>d DEF Fresh
<1>14. CASE DelayTimerReplay(w)
  <2>1. /\ window[w].life = "live" /\ window' = window
        /\ gui = [pc |-> "replay", w |-> w]
        /\ gui' = [pc |-> "idle", w |-> NoWidget]
    BY <1>14, <1>t, <1>v DEF DelayTimerReplay, TurnInv, Closing
  <2>2. PICK f \in Frame : UpdateDisplay(w, f)
    BY <1>14, <1>v, BoundsAssumption DEF DelayTimerReplay, Frame
  <2> QED BY <1>t, <2>1, <2>2, UpdateFresh
<1>15. CASE Quit(w)
  <2>1. window[w].life = "closing" /\ window' = window
    BY <1>15, <1>t, <1>v DEF Quit, TurnInv, Closing
  <2> QED BY <2>1
<1>16. CASE Join(w)
  BY <1>16, <1>v DEF Join, SetWindow, Window
<1>17. ASSUME NEW ok \in BOOLEAN, TakeUpdate(w, ok)
      PROVE  Goal
  <2>1. /\ UNCHANGED <<gui, window, wanted, open, last>>
        /\ queue[w] # <<>> /\ Head(queue[w]).kind = "update"
        /\ queue'[w] = Tail(queue[w]) /\ renderer[w].pc = "loop"
    BY <1>17, <1>t, TakesKinds DEF TakeUpdate, Takes
  <2>2. window[w].life # "new"
    BY <1>t, <2>1 DEF Unused
  <2>3. ASSUME window[w].life = "live"
        PROVE  Fresh(w)'
    <3> DEFINE f == Head(queue[w]).frame
               r == IF renderer[w].mIsReadyForRender THEN renderer[w]
                    ELSE InitDisplay(renderer[w], ok)
    <3>1. /\ Fresh(w) /\ f \in Frame
          /\ HasUpdate(queue[w])
      <4>1. Head(queue[w]) \in Event
        BY <1>v, <2>1, HeadTailProperties
      <4> QED BY <1>t, <1>v, <2>1, <2>3, <4>1, TailUpdate DEF Event
    <3>2. /\ LastUpdate(queue[w], last[w]) => LastUpdate(queue'[w], last[w])
          /\ HasUpdate(queue'[w]) => HasUpdate(queue[w])
          /\ LastUpdate(queue[w], last[w]) /\ ~HasUpdate(queue'[w])
                 => f = last[w]
      BY <1>v, <2>1, TailUpdate
    <3>3. /\ r \in Renderer /\ r.frame = renderer[w].frame
          /\ r.mUpdateEnabled = renderer[w].mUpdateEnabled
          /\ r.mBlurEnabled = renderer[w].mBlurEnabled
          /\ r.pc = renderer[w].pc /\ r.skipped = renderer[w].skipped
          /\ renderer[w].mIsReadyForRender => r = renderer[w]
      <4>1. CASE renderer[w].mIsReadyForRender
        BY <1>v, <4>1
      <4>2. CASE ~renderer[w].mIsReadyForRender
        <5>1. r = InitDisplay(renderer[w], ok)
          BY <4>2
        <5>2. r \in Renderer
          BY <1>v, <1>17, <5>1, RendererFields
        <5> QED BY <1>v, <4>2, <5>1, <5>2 DEF InitDisplay, Renderer
      <4> QED BY <4>1, <4>2
    <3>4. renderer'[w] = IF Drawing(r) THEN Import(r, f)
                         ELSE [r EXCEPT !.skipped = @ \/ ~r.mIsReadyForRender
                                                      \/ ~wanted[w]]
      BY <1>17, <1>v DEF TakeUpdate, SetRenderer
    <3> HIDE DEF r, f
    <3>5. CASE Drawing(r)
      <4>1. /\ renderer'[w].frame = f /\ renderer'[w].pc = "region"
            /\ renderer'[w].mIsReadyForRender
            /\ renderer'[w].mUpdateEnabled = renderer[w].mUpdateEnabled
            /\ renderer'[w].mBlurEnabled = renderer[w].mBlurEnabled
        BY <3>3, <3>4, <3>5 DEF Drawing, Import, Renderer
      <4>2. GateFresh(w)'
        BY <2>1, <3>1, <3>2, <4>1 DEF Fresh, GateFresh, Updating
      <4>3. FrameFresh(w)'
        BY <2>1, <3>1, <3>2, <4>1 DEF Fresh, FrameFresh
      <4>4. WindowFresh(w)'
        BY <2>1, <3>1, <4>1 DEF Fresh, WindowFresh
      <4>5. PictureFresh(w)'
        BY <4>1 DEF PictureFresh
      <4> QED BY <4>2, <4>3, <4>4, <4>5 DEF Fresh
    <3>6. CASE ~Drawing(r)
      <4>1. /\ renderer'[w].frame = renderer[w].frame
            /\ renderer'[w].mIsReadyForRender = r.mIsReadyForRender
            /\ renderer'[w].mUpdateEnabled = renderer[w].mUpdateEnabled
            /\ renderer'[w].mBlurEnabled = renderer[w].mBlurEnabled
            /\ ~r.mIsReadyForRender \/ ~wanted[w] => renderer'[w].skipped
        BY <3>3, <3>4, <3>6 DEF Renderer
      <4>2. ~Updating(w) \/ ~r.mIsReadyForRender
        BY <3>1, <3>3, <3>6 DEF Fresh, GateFresh, Drawing
      <4>3. open[w] /\ (~r.mIsReadyForRender => ~renderer[w].mIsReadyForRender)
        BY <3>1, <3>3 DEF Fresh, GateFresh
      <4>4. GateFresh(w)'
        BY <2>1, <3>1, <3>2, <4>1 DEF Fresh, GateFresh, Updating
      <4>5. FrameFresh(w)'
        BY <2>1, <3>1, <3>2, <4>1, <4>2, <4>3 DEF Fresh, FrameFresh, Updating
      <4>6. WindowFresh(w)'
        BY <2>1, <3>1, <4>1 DEF Fresh, WindowFresh
      <4>7. PictureFresh(w)'
        BY <2>1, <3>1, <4>1, <4>2, <4>3
        DEF Fresh, FrameFresh, PictureFresh, Updating
      <4> QED BY <4>4, <4>5, <4>6, <4>7 DEF Fresh
    <3> QED BY <3>5, <3>6
  <2> QED BY <2>1, <2>2, <2>3
<1>18. CASE TakeRedraw(w)
  <2>1. /\ UNCHANGED <<gui, window, wanted, open, last>>
        /\ queue[w] # <<>> /\ Head(queue[w]).kind = "redraw"
        /\ queue'[w] = Tail(queue[w])
    BY <1>18, <1>t, TakesKinds DEF TakeRedraw
  <2>2. window[w].life # "new"
    BY <1>t, <2>1 DEF Unused
  <2>3. ASSUME window[w].life = "live"
        PROVE  Fresh(w)'
    <3>1. Fresh(w)
      BY <1>t, <2>3
    <3>2. /\ LastUpdate(queue[w], last[w]) => LastUpdate(queue'[w], last[w])
          /\ HasUpdate(queue'[w]) <=> HasUpdate(queue[w])
      <4>1. /\ LastUpdate(queue[w], last[w]) => LastUpdate(Tail(queue[w]), last[w])
            /\ HasUpdate(Tail(queue[w])) => HasUpdate(queue[w])
            /\ Head(queue[w]).kind # "update" /\ HasUpdate(queue[w]) =>
                   HasUpdate(Tail(queue[w]))
        BY <1>v, <2>1, TailUpdate
      <4> QED BY <2>1, <4>1
    <3>3. /\ renderer'[w].frame = renderer[w].frame
          /\ renderer'[w].mIsReadyForRender = renderer[w].mIsReadyForRender
          /\ renderer'[w].mUpdateEnabled = renderer[w].mUpdateEnabled
          /\ renderer'[w].mBlurEnabled = renderer[w].mBlurEnabled
          /\ renderer'[w].skipped = renderer[w].skipped
          /\ Drawing(renderer[w]) => renderer'[w].pc = "region"
      BY <1>18, <1>v DEF TakeRedraw, SetRenderer, Renderer
    <3>4. GateFresh(w)'
      BY <2>1, <3>1, <3>2, <3>3 DEF Fresh, GateFresh, Updating
    <3>5. FrameFresh(w)'
      BY <2>1, <3>1, <3>2, <3>3 DEF Fresh, FrameFresh
    <3>6. WindowFresh(w)'
      BY <2>1, <3>1, <3>3 DEF Fresh, WindowFresh
    <3>7. PictureFresh(w)'
      BY <2>1, <3>1, <3>3
      DEF Fresh, GateFresh, FrameFresh, PictureFresh, Updating, Drawing
    <3> QED BY <3>4, <3>5, <3>6, <3>7 DEF Fresh
  <2> QED BY <2>1, <2>2, <2>3
<1>19. CASE ChooseRegion(w)
  <2>1. UNCHANGED <<gui, window, queue, wanted, open, last>>
    BY <1>19 DEF ChooseRegion, Draws
  <2>2. window[w].life # "new"
    BY <1>19, <1>t DEF ChooseRegion, Unused, NewRenderer
  <2>3. /\ renderer'[w].pc = "shader"
        /\ renderer'[w].region = IF renderer[w].mBlurEnabled THEN MinSize
                                ELSE window[w].size
        /\ renderer'[w].frame = renderer[w].frame
        /\ renderer'[w].mIsReadyForRender = renderer[w].mIsReadyForRender
        /\ renderer'[w].mUpdateEnabled = renderer[w].mUpdateEnabled
        /\ renderer'[w].mBlurEnabled = renderer[w].mBlurEnabled
        /\ renderer'[w].skipped = renderer[w].skipped
    BY <1>19, <1>v DEF ChooseRegion, Draws, SetRenderer, Renderer
  <2>4. ASSUME window[w].life = "live"
        PROVE  Fresh(w)'
    <3>1. Fresh(w)
      BY <1>t, <2>4
    <3>2. GateFresh(w)' /\ FrameFresh(w)' /\ WindowFresh(w)'
      BY <2>1, <2>3, <3>1
      DEF Fresh, GateFresh, FrameFresh, WindowFresh, Updating
    <3>3. PictureFresh(w)'
      BY <2>1, <2>3, <3>1
      DEF Fresh, PictureFresh, WindowFresh, Updating, Redraws, RegionNow, PictureNow
    <3> QED BY <3>2, <3>3 DEF Fresh
  <2> QED BY <2>1, <2>2, <2>4
<1>20. CASE ChooseShader(w)
  <2>1. UNCHANGED <<gui, window, queue, wanted, open, last>>
    BY <1>20 DEF ChooseShader, Draws
  <2>2. window[w].life # "new"
    BY <1>20, <1>t DEF ChooseShader, Unused, NewRenderer
  <2>3. /\ renderer[w].pc = "shader" /\ renderer'[w].pc = "draw"
        /\ renderer'[w].region = renderer[w].region
        /\ renderer'[w].blurred = renderer[w].mBlurEnabled
        /\ renderer'[w].frame = renderer[w].frame
        /\ renderer'[w].mIsReadyForRender = renderer[w].mIsReadyForRender
        /\ renderer'[w].mUpdateEnabled = renderer[w].mUpdateEnabled
        /\ renderer'[w].mBlurEnabled = renderer[w].mBlurEnabled
        /\ renderer'[w].skipped = renderer[w].skipped
    BY <1>20, <1>v DEF ChooseShader, Draws, SetRenderer, Renderer
  <2>4. ASSUME window[w].life = "live"
        PROVE  Fresh(w)'
    <3>1. Fresh(w)
      BY <1>t, <2>4
    <3>2. GateFresh(w)' /\ FrameFresh(w)' /\ WindowFresh(w)'
      BY <2>1, <2>3, <3>1
      DEF Fresh, GateFresh, FrameFresh, WindowFresh, Updating
    <3>3. PictureFresh(w)'
      BY <2>1, <2>3, <3>1
      DEF Fresh, PictureFresh, WindowFresh, Updating, Redraws, RegionNow, PictureNow
    <3> QED BY <3>2, <3>3 DEF Fresh
  <2> QED BY <2>1, <2>2, <2>4
<1>21. CASE DrawDisplay(w)
  <2>1. UNCHANGED <<gui, window, queue, wanted, open, last>>
    BY <1>21 DEF DrawDisplay, Draws
  <2>2. window[w].life # "new"
    BY <1>21, <1>t DEF DrawDisplay, Unused, NewRenderer
  <2>3. /\ renderer[w].pc = "draw" /\ renderer'[w].pc = "loop"
        /\ renderer[w].frame # 0 =>
               renderer'[w].screen = [frame   |-> renderer[w].frame,
                                      region  |-> renderer[w].region,
                                      size    |-> window[w].realSize,
                                      blurred |-> renderer[w].blurred]
        /\ renderer'[w].frame = renderer[w].frame
        /\ renderer'[w].mIsReadyForRender = renderer[w].mIsReadyForRender
        /\ renderer'[w].mUpdateEnabled = renderer[w].mUpdateEnabled
        /\ renderer'[w].mBlurEnabled = renderer[w].mBlurEnabled
        /\ renderer'[w].skipped = renderer[w].skipped
    BY <1>21, <1>v DEF DrawDisplay, Draws, SetRenderer, Renderer
  <2>4. ASSUME window[w].life = "live"
        PROVE  Fresh(w)'
    <3>1. Fresh(w)
      BY <1>t, <2>4
    <3>2. GateFresh(w)' /\ FrameFresh(w)' /\ WindowFresh(w)'
      BY <2>1, <2>3, <3>1
      DEF Fresh, GateFresh, FrameFresh, WindowFresh, Updating
    <3>3. PictureFresh(w)'
      BY <2>1, <2>3, <3>1
      DEF Fresh, PictureFresh, WindowFresh, Updating, Redraws, RegionNow, PictureNow
    <3> QED BY <3>2, <3>3 DEF Fresh
  <2> QED BY <2>1, <2>2, <2>4
<1>22. CASE DestroyDisplay(w)
  <2>1. /\ window' = window /\ queue[w] # <<>>
        /\ Head(queue[w]).kind = "destroy"
    BY <1>22, <1>t, TakesKinds DEF DestroyDisplay
  <2>2. ~NoDestroy(queue[w])
    BY <1>v, <2>1, TailKinds
  <2> QED BY <1>t, <2>1, <2>2 DEF ExitInv
<1>23. CASE Stop(w)
  <2>1. window' = window /\ renderer[w].quitting
    BY <1>23 DEF Stop
  <2> QED BY <1>t, <2>1 DEF ExitInv
<1>24. CASE DecoderFinds(w)
  <2>1. UNCHANGED <<gui, window, queue, renderer, wanted, open, last>>
    BY <1>24 DEF DecoderFinds
  <2> QED
    BY <1>t, <2>1
    DEF Unused, Fresh, GateFresh, FrameFresh, WindowFresh, PictureFresh,
        Updating, Redraws, RegionNow, PictureNow
<1>25. CASE DecoderUpdates(w)
  <2>1. window[w].life = "live" /\ window' = window /\ gui' = gui
    BY <1>25, <1>t, <1>v DEF DecoderUpdates, TurnInv
  <2>2. PICK f \in Frame : UpdateDisplay(w, f)
    BY <1>25, <1>v, BoundsAssumption DEF DecoderUpdates, Frame
  <2> QED BY <1>t, <2>1, <2>2, UpdateFresh
<1> QED
  BY <1>s, <1>1, <1>2, <1>3, <1>4, <1>5, <1>6, <1>7, <1>8, <1>9, <1>10,
     <1>11, <1>12, <1>13, <1>14, <1>15, <1>16, <1>17, <1>18, <1>19, <1>20,
     <1>21, <1>22, <1>23, <1>24, <1>25
  DEF Step, GuiCall, GuiStep, WorkerStep

\* A step on one window leaves the GUI thread alone while it is on another.
LEMMA GuiBusy ==
    ASSUME TypeOK, TurnInv, NEW w \in Widgets, NEW v \in Widgets, v # w,
           ExitInv(w), Step(w)
    PROVE  gui.w # v \/ gui' = gui
<1> SUFFICES ASSUME gui.w = v
             PROVE  gui' = gui
  OBVIOUS
<1>1. gui # GuiIdle /\ \A pc \in Pcs : ~GuiAt(pc, w)
  BY WidgetAssumption DEF GuiIdle, GuiAt
<1>2. ~DestroyDisplay(w)
  <2> SUFFICES ASSUME DestroyDisplay(w) PROVE FALSE
    OBVIOUS
  <2>1. queue[w] # <<>> /\ Head(queue[w]).kind = "destroy"
    BY TypeParts, TakesKinds DEF DestroyDisplay
  <2>2. ~NoDestroy(queue[w])
    BY <2>1, TypeParts, TailKinds DEF QueueType
  <2>3. window[w].life = "closing"
    BY <2>1, <2>2 DEF ExitInv, TypeOK, Window
  <2> QED BY <2>3 DEF TurnInv
<1>3. CASE GuiCall(w)
  BY <1>1, <1>3
  DEF GuiCall, RegisterDisplay, Show, Hide, BlurUpdate, BeginDraw, DelayTimer,
      UnregisterDisplay, Close, Call
<1>4. CASE GuiStep(w)
  BY <1>1, <1>4
  DEF GuiStep, BlurStartTimer, SetFixedSize, SetRealSize, ForceRedraw, BlurTimer,
      BlurTimerRedraw, DelayTimerReplay, Quit, Join, Pcs
<1>5. CASE WorkerStep(w)
  BY <1>2, <1>5
  DEF WorkerStep, TakeUpdate, TakeRedraw, ChooseRegion, ChooseShader,
      DrawDisplay, Stop, Draws, guiVars
<1>6. CASE DecoderFinds(w) \/ DecoderUpdates(w)
  BY <1>6 DEF DecoderFinds, DecoderUpdates
<1> QED BY <1>3, <1>4, <1>5, <1>6 DEF Step

LEMMA InitFresh == Init => InvFresh
<1> SUFFICES ASSUME Init PROVE InvFresh
  OBVIOUS
<1>1. InvExit
  BY InitExit
<1>2. ASSUME NEW w \in Widgets
      PROVE  window[w].life = "new" /\ Unused(w)
  BY DEF Init, Unused, NewWindow
<1> QED BY <1>1, <1>2 DEF InvFresh, Live

LEMMA NextInvFresh == InvFresh /\ [Next]_vars => InvFresh'
<1> SUFFICES ASSUME InvFresh, [Next]_vars PROVE InvFresh'
  OBVIOUS
<1>1. InvExit'
  BY NextInvExit DEF InvFresh
<1>2. CASE UNCHANGED vars
  BY <1>1, <1>2
  DEF vars, InvFresh, Unused, Live, Fresh, GateFresh, FrameFresh, WindowFresh,
      PictureFresh, Updating, Redraws, RegionNow, PictureNow
<1>3. ASSUME NEW w \in Widgets, Step(w) PROVE InvFresh'
  <2>1. ASSUME NEW v \in Widgets
        PROVE  /\ window'[v].life = "new" => Unused(v)'
               /\ window'[v].life = "live" => Fresh(v)'
    <3>1. CASE v = w
      BY <1>3, <3>1, NextFresh
    <3>2. CASE v # w
      <4>1. /\ window'[v] = window[v] /\ queue'[v] = queue[v]
            /\ renderer'[v] = renderer[v]
            /\ wanted'[v] = wanted[v] /\ open'[v] = open[v]
            /\ last'[v] = last[v]
            /\ gui' = gui \/ gui'.w = w \/ gui' = GuiIdle
        BY <1>3, <3>2, OthersUntouched DEF InvFresh, InvExit
      <4>2. /\ window[v].life = "new" => Unused(v)
            /\ window[v].life = "live" => Fresh(v)
        BY DEF InvFresh, Live
      <4>3. window'[v].life = "new" => Unused(v)'
        BY <4>1, <4>2 DEF Unused
      <4>4. ASSUME window[v].life = "live" PROVE Fresh(v)'
        <5>1. Fresh(v) BY <4>2, <4>4
        <5>2. gui' = gui \/ gui'.w # v
          BY <3>2, <4>1, WidgetAssumption DEF GuiIdle
        <5>3. gui.w # v \/ gui' = gui
          BY <1>3, <3>2, GuiBusy DEF InvFresh, InvExit
        <5> QED
          BY <4>1, <5>1, <5>2, <5>3
          DEF Fresh, GateFresh, FrameFresh, WindowFresh, PictureFresh, Updating,
              Redraws, RegionNow, PictureNow
      <4> QED BY <4>1, <4>3, <4>4
    <3> QED BY <3>1, <3>2
  <2> QED BY <1>1, <2>1 DEF InvFresh, Live
<1> QED BY <1>2, <1>3 DEF Next, Step

\* Once nothing is on its way to a renderer whose window is shown, the screen has
\* the newest picture, drawn at the size, in the region and with the blur of now,
\* however the window, its blur timers, the decoder and the worker took turns
\* (gles_display_helper.cpp:80-103, gles_display_work_manager.cpp:59-71).
THEOREM PictureSettles == Spec => []ScreenSettles
<1>1. InvFresh => ScreenSettles
  <2> SUFFICES ASSUME InvFresh, NEW w \in Widgets,
                      Live(w), gui = GuiIdle, renderer[w].pc = "loop",
                      queue[w] = <<>>, Updating(w), renderer[w].mIsReadyForRender
               PROVE  /\ renderer[w].frame = last[w] \/ renderer[w].skipped
                      /\ renderer[w].mBlurEnabled => window[w].timers > 0
                      /\ renderer[w].frame # 0 =>
                             renderer[w].screen = PictureNow(w)
    BY DEF ScreenSettles, PictureNow, RegionNow
  <2>1. Fresh(w)
    BY DEF InvFresh
  <2>2. ~HasUpdate(queue[w]) /\ ~Redraws(w) /\ gui # [pc |-> "blur", w |-> w]
    BY WidgetAssumption DEF HasUpdate, Redraws, GuiIdle
  <2> QED
    BY <2>1, <2>2 DEF Fresh, FrameFresh, WindowFresh, PictureFresh
<1> QED BY <1>1, InitFresh, NextInvFresh, PTL DEF Spec

-----------------------------------------------------------------------------
(* The waits of the GUI thread                                             *)

\* The lock belongs to the call that has taken it, and a worker ends only when
\* it was told to and the GUI thread is about to join it.
LockOwner == /\ listLock = "gui" <=> gui.pc \in Closing \cup {"blur"}
             /\ listLock = "decoder" <=> dec # NoWidget

WorkerEnd(w) == /\ renderer[w].pc = "finished" =>
                       \/ gui = [pc |-> "wait", w |-> w]
                       \/ window[w].life = "freed"
                /\ gui = [pc |-> "quit", w |-> w] => ~renderer[w].quitting
                /\ gui = [pc |-> "wait", w |-> w] => renderer[w].quitting

WaitInv == LockOwner /\ \A w \in Widgets : WorkerEnd(w)

\* Whoever the GUI thread waits for can go on: the lock it wants is not its own
\* but the decoder's, who is updating a display; the worker it called has the
\* call as the last event of its queue and has not ended; the worker it joins
\* was told to quit (displaybackend.cpp:127-137, 186-196,
\* gles_display_work_manager.cpp:32-37).
WaitIsServed ==
    /\ gui.pc = "redraw" /\ listLock # "free" =>
           listLock = "decoder" /\ dec \in Widgets
    /\ \A w \in Widgets :
           /\ gui = [pc |-> "exitRender", w |-> w] =>
                  renderer[w].pc # "finished" /\ EndsDestroy(queue[w])
           /\ gui = [pc |-> "wait", w |-> w] => renderer[w].quitting

Stage == [region |-> 4, shader |-> 3, draw |-> 2, loop |-> 1, finished |-> 0]

WorkerWork(w) == 4 * Len(queue[w]) + Stage[renderer[w].pc]

\* While a renderer is being closed every step of its worker leaves less to do
\* and nobody gives it more: the calls that wait for it end after a bounded
\* number of its steps, though timers, decoder and other windows go on.
WorkerWindsDown ==
    [][\A w \in Widgets :
          window[w].life = "closing" =>
              /\ WorkerStep(w) => WorkerWork(w)' < WorkerWork(w)
              /\ WorkerWork(w)' <= WorkerWork(w)
              /\ WorkerWork(w)' >= 0]_vars

LEMMA NextLockOwner ==
    ASSUME InvExit, WaitInv, NEW w \in Widgets, Step(w)
    PROVE  LockOwner'
<1> USE WidgetAssumption DEF Closing, GuiAt, GuiGoes, GuiIdle
<1>t. LockOwner
  BY DEF WaitInv
<1>v. gui \in [pc : Pcs, w : Widgets \cup {NoWidget}]
  BY DEF InvExit, TypeOK, Pcs
<1>s. Step(w)
  OBVIOUS
<1>1. CASE RegisterDisplay(w)
  BY <1>1, <1>t, <1>v DEF LockOwner, RegisterDisplay
<1>2. CASE Show(w)
  BY <1>2, <1>t, <1>v DEF LockOwner, Show, Enable, Call
<1>3. CASE Hide(w)
  BY <1>3, <1>t, <1>v DEF LockOwner, Hide, Enable, Call
<1>4. CASE BlurUpdate(w)
  BY <1>4, <1>t, <1>v DEF LockOwner, BlurUpdate, Call
<1>5. ASSUME NEW pc \in {"size", "redraw"}, BeginDraw(w, pc)
      PROVE  LockOwner'
  BY <1>5, <1>t, <1>v DEF LockOwner, BeginDraw, Call
<1>6. CASE DelayTimer(w)
  BY <1>6, <1>t, <1>v DEF LockOwner, DelayTimer
<1>7. CASE UnregisterDisplay(w)
  BY <1>7, <1>t, <1>v DEF LockOwner, UnregisterDisplay, Close
<1>8. CASE BlurStartTimer(w)
  BY <1>8, <1>t, <1>v DEF LockOwner, BlurStartTimer
<1>9. CASE SetFixedSize(w)
  BY <1>9, <1>t, <1>v DEF LockOwner, SetFixedSize
<1>10. CASE SetRealSize(w)
  BY <1>10, <1>t, <1>v DEF LockOwner, SetRealSize
<1>11. CASE ForceRedraw(w)
  BY <1>11, <1>t, <1>v DEF LockOwner, ForceRedraw
<1>12. CASE BlurTimer(w)
  BY <1>12, <1>t, <1>v DEF LockOwner, BlurTimer
<1>13. CASE BlurTimerRedraw(w)
  BY <1>13, <1>t, <1>v DEF LockOwner, BlurTimerRedraw
<1>14. CASE DelayTimerReplay(w)
  BY <1>14, <1>t, <1>v DEF LockOwner, DelayTimerReplay
<1>15. CASE Quit(w)
  BY <1>15, <1>t, <1>v DEF LockOwner, Quit
<1>16. CASE Join(w)
  BY <1>16, <1>t, <1>v DEF LockOwner, Join
<1>17. ASSUME NEW ok \in BOOLEAN, TakeUpdate(w, ok)
      PROVE  LockOwner'
  BY <1>17, <1>t, <1>v DEF LockOwner, TakeUpdate
<1>18. CASE TakeRedraw(w)
  BY <1>18, <1>t, <1>v DEF LockOwner, TakeRedraw
<1>19. CASE ChooseRegion(w)
  BY <1>19, <1>t, <1>v DEF LockOwner, ChooseRegion, Draws
<1>20. CASE ChooseShader(w)
  BY <1>20, <1>t, <1>v DEF LockOwner, ChooseShader, Draws
<1>21. CASE DrawDisplay(w)
  BY <1>21, <1>t, <1>v DEF LockOwner, DrawDisplay, Draws
<1>22. CASE DestroyDisplay(w)
  <2>1. gui = [pc |-> "exitRender", w |-> w]
    BY <1>22, DestroyTurn
  <2> QED BY <1>22, <2>1, <1>t DEF DestroyDisplay, LockOwner
<1>23. CASE Stop(w)
  BY <1>23, <1>t, <1>v DEF LockOwner, Stop
<1>24. CASE DecoderFinds(w)
  BY <1>24, <1>t, <1>v DEF LockOwner, DecoderFinds
<1>25. CASE DecoderUpdates(w)
  BY <1>25, <1>t, <1>v DEF LockOwner, DecoderUpdates
<1> QED
  BY <1>s, <1>1, <1>2, <1>3, <1>4, <1>5, <1>6, <1>7, <1>8, <1>9, <1>10,
     <1>11, <1>12, <1>13, <1>14, <1>15, <1>16, <1>17, <1>18, <1>19, <1>20,
     <1>21, <1>22, <1>23, <1>24, <1>25
  DEF Step, GuiCall, GuiStep, WorkerStep

LEMMA NextWorkerEnd ==
    ASSUME InvExit, WaitInv, NEW w \in Widgets, Step(w)
    PROVE  WorkerEnd(w)'
<1> USE WidgetAssumption DEF Closing, GuiAt, GuiGoes, GuiIdle, Live
<1>t. TypeOK /\ TurnInv /\ ExitInv(w) /\ WorkerEnd(w)
  BY DEF InvExit, WaitInv
<1>v. /\ window \in [Widgets -> Window] /\ window[w] \in Window
      /\ gui \in [pc : Pcs, w : Widgets \cup {NoWidget}]
      /\ renderer \in [Widgets -> Renderer] /\ renderer[w] \in Renderer
  BY <1>t DEF TypeOK, Pcs
<1>s. Step(w)
  OBVIOUS
<1>1. CASE RegisterDisplay(w)
  BY <1>1, <1>t, <1>v DEF WorkerEnd, SetWindow, SetRenderer, Window, Renderer, RegisterDisplay
<1>2. CASE Show(w)
  BY <1>2, <1>t, <1>v DEF WorkerEnd, SetWindow, SetRenderer, Window, Renderer, Show, Enable, Call
<1>3. CASE Hide(w)
  BY <1>3, <1>t, <1>v DEF WorkerEnd, SetWindow, SetRenderer, Window, Renderer, Hide, Enable, Call
<1>4. CASE BlurUpdate(w)
  BY <1>4, <1>t, <1>v DEF WorkerEnd, SetWindow, SetRenderer, Window, Renderer, BlurUpdate, Call
<1>5. ASSUME NEW pc \in {"size", "redraw"}, BeginDraw(w, pc)
      PROVE  WorkerEnd(w)'
  BY <1>5, <1>t, <1>v DEF WorkerEnd, SetWindow, SetRenderer, Window, Renderer, BeginDraw, Call
<1>6. CASE DelayTimer(w)
  BY <1>6, <1>t, <1>v DEF WorkerEnd, SetWindow, SetRenderer, Window, Renderer, DelayTimer
<1>7. CASE UnregisterDisplay(w)
  BY <1>7, <1>t, <1>v DEF WorkerEnd, SetWindow, SetRenderer, Window, Renderer, UnregisterDisplay, Close
<1>8. CASE BlurStartTimer(w)
  BY <1>8, <1>t, <1>v DEF WorkerEnd, SetWindow, SetRenderer, Window, Renderer, BlurStartTimer
<1>9. CASE SetFixedSize(w)
  BY <1>9, <1>t, <1>v DEF WorkerEnd, SetWindow, SetRenderer, Window, Renderer, SetFixedSize
<1>10. CASE SetRealSize(w)
  BY <1>10, <1>t, <1>v DEF WorkerEnd, SetWindow, SetRenderer, Window, Renderer, SetRealSize
<1>11. CASE ForceRedraw(w)
  BY <1>11, <1>t, <1>v DEF WorkerEnd, SetWindow, SetRenderer, Window, Renderer, ForceRedraw
<1>12. CASE BlurTimer(w)
  BY <1>12, <1>t, <1>v DEF WorkerEnd, SetWindow, SetRenderer, Window, Renderer, BlurTimer
<1>13. CASE BlurTimerRedraw(w)
  BY <1>13, <1>t, <1>v DEF WorkerEnd, SetWindow, SetRenderer, Window, Renderer, BlurTimerRedraw
<1>14. CASE DelayTimerReplay(w)
  <2>1. /\ renderer'[w].pc = renderer[w].pc
        /\ renderer'[w].quitting = renderer[w].quitting
    BY <1>14, <1>v DEF DelayTimerReplay, UpdateDisplay, SetRenderer, Renderer
  <2>2. gui.pc = "replay" /\ gui' = GuiIdle /\ window' = window
    BY <1>14 DEF DelayTimerReplay
  <2> QED BY <2>1, <2>2, <1>t DEF WorkerEnd
<1>15. CASE Quit(w)
  BY <1>15, <1>t, <1>v DEF WorkerEnd, SetWindow, SetRenderer, Window, Renderer, Quit
<1>16. CASE Join(w)
  BY <1>16, <1>t, <1>v DEF WorkerEnd, SetWindow, SetRenderer, Window, Renderer, Join
<1>17. ASSUME NEW ok \in BOOLEAN, TakeUpdate(w, ok)
      PROVE  WorkerEnd(w)'
  <2>1. /\ renderer'[w].pc # "finished"
        /\ renderer'[w].quitting = renderer[w].quitting
    BY <1>17, <1>v
    DEF TakeUpdate, Takes, SetRenderer, Renderer, Import, InitDisplay
  <2>2. UNCHANGED <<gui, window>>
    BY <1>17 DEF TakeUpdate
  <2> QED BY <2>1, <2>2, <1>t DEF WorkerEnd
<1>18. CASE TakeRedraw(w)
  BY <1>18, <1>t, <1>v DEF WorkerEnd, SetWindow, SetRenderer, Window, Renderer, TakeRedraw
<1>19. CASE ChooseRegion(w)
  BY <1>19, <1>t, <1>v DEF WorkerEnd, SetWindow, SetRenderer, Window, Renderer, ChooseRegion, Draws
<1>20. CASE ChooseShader(w)
  BY <1>20, <1>t, <1>v DEF WorkerEnd, SetWindow, SetRenderer, Window, Renderer, ChooseShader, Draws
<1>21. CASE DrawDisplay(w)
  BY <1>21, <1>t, <1>v DEF WorkerEnd, SetWindow, SetRenderer, Window, Renderer, DrawDisplay, Draws
<1>22. CASE DestroyDisplay(w)
  <2>1. gui = [pc |-> "exitRender", w |-> w] /\ ~renderer[w].quitting
    BY <1>22, <1>t, DestroyTurn DEF ExitInv
  <2>2. /\ renderer'[w].pc = "loop"
        /\ renderer'[w].quitting = renderer[w].quitting
    BY <1>22, <1>v DEF DestroyDisplay, Takes, SetRenderer, Renderer
  <2>3. gui' = [pc |-> "quit", w |-> w]
    BY <1>22 DEF DestroyDisplay
  <2> QED BY <2>1, <2>2, <2>3 DEF WorkerEnd
<1>23. CASE Stop(w)
  <2>1. renderer[w].quitting /\ UNCHANGED <<gui, window>>
        /\ renderer'[w].quitting = renderer[w].quitting
    BY <1>23, <1>v DEF Stop, SetRenderer, Renderer
  <2>2. CASE window[w].life = "closing"
    BY <2>1, <2>2, <1>t, <1>v DEF WorkerEnd, TurnInv, ExitInv, Pcs
  <2>3. CASE window[w].life # "closing"
    BY <2>1, <2>3, <1>t, <1>v DEF WorkerEnd, ExitInv, Window
  <2> QED BY <2>2, <2>3
<1>24. CASE DecoderFinds(w)
  BY <1>24, <1>t, <1>v DEF WorkerEnd, SetWindow, SetRenderer, Window, Renderer, DecoderFinds
<1>25. CASE DecoderUpdates(w)
  <2>1. /\ renderer'[w].pc = renderer[w].pc
        /\ renderer'[w].quitting = renderer[w].quitting
    BY <1>25, <1>v DEF DecoderUpdates, UpdateDisplay, SetRenderer, Renderer
  <2>2. UNCHANGED <<gui, window>>
    BY <1>25 DEF DecoderUpdates
  <2> QED BY <2>1, <2>2, <1>t DEF WorkerEnd
<1> QED
  BY <1>s, <1>1, <1>2, <1>3, <1>4, <1>5, <1>6, <1>7, <1>8, <1>9, <1>10,
     <1>11, <1>12, <1>13, <1>14, <1>15, <1>16, <1>17, <1>18, <1>19, <1>20,
     <1>21, <1>22, <1>23, <1>24, <1>25
  DEF Step, GuiCall, GuiStep, WorkerStep

LEMMA NextWait == InvExit /\ WaitInv /\ [Next]_vars => WaitInv'
<1> SUFFICES ASSUME InvExit, WaitInv, [Next]_vars PROVE WaitInv'
  OBVIOUS
<1>1. CASE UNCHANGED vars
  BY <1>1 DEF vars, WaitInv, LockOwner, WorkerEnd
<1>2. ASSUME NEW w \in Widgets, Step(w) PROVE WaitInv'
  <2>1. LockOwner'
    BY <1>2, NextLockOwner
  <2>2. ASSUME NEW v \in Widgets PROVE WorkerEnd(v)'
    <3>1. CASE v = w
      BY <1>2, <3>1, NextWorkerEnd
    <3>2. CASE v # w
      <4>1. /\ window'[v] = window[v] /\ renderer'[v] = renderer[v]
            /\ gui' = gui \/ gui'.w = w \/ gui' = GuiIdle
        BY <1>2, <3>2, OthersUntouched DEF InvExit
      <4>2. gui' = gui \/ gui'.w # v
        BY <3>2, <4>1, WidgetAssumption DEF GuiIdle
      <4>3. gui.w # v \/ gui' = gui
        BY <1>2, <3>2, GuiBusy DEF InvExit
      <4>4. WorkerEnd(v)
        BY DEF WaitInv
      <4> QED BY <4>1, <4>2, <4>3, <4>4 DEF WorkerEnd
    <3> QED BY <3>1, <3>2
  <2> QED BY <2>1, <2>2 DEF WaitInv
<1> QED BY <1>1, <1>2 DEF Next, Step

LEMMA InitWait == Init => WaitInv
  BY WidgetAssumption
  DEF Init, WaitInv, LockOwner, WorkerEnd, GuiIdle, Closing, NewRenderer

LEMMA SpecWait == Spec => [](InvExit /\ WaitInv)
<1>1. InvExit /\ WaitInv /\ [Next]_vars => InvExit' /\ WaitInv'
  BY NextInvExit, NextWait
<1> QED BY <1>1, InitExit, InitWait, PTL DEF Spec

\* No thread waits for itself or for one that has gone, whatever calls, timers
\* and frames there were: the lock of the list and the two blocking calls at a
\* renderer's end cannot block each other.
THEOREM WaitsAreServed == Spec => []WaitIsServed
<1>1. InvExit /\ WaitInv => WaitIsServed
  <2> SUFFICES ASSUME InvExit, WaitInv PROVE WaitIsServed
    OBVIOUS
  <2>1. /\ listLock \in {"free", "gui", "decoder"}
        /\ dec \in Widgets \cup {NoWidget}
    BY DEF InvExit, TypeOK
  <2>2. gui.pc = "redraw" /\ listLock # "free" =>
            listLock = "decoder" /\ dec \in Widgets
    BY <2>1 DEF WaitInv, LockOwner, Closing
  <2>3. ASSUME NEW w \in Widgets
        PROVE  /\ gui = [pc |-> "exitRender", w |-> w] =>
                      renderer[w].pc # "finished" /\ EndsDestroy(queue[w])
               /\ gui = [pc |-> "wait", w |-> w] => renderer[w].quitting
    <3>1. WorkerEnd(w) /\ ExitInv(w) /\ TurnInv
      BY DEF InvExit, WaitInv
    <3>2. gui = [pc |-> "exitRender", w |-> w] => window[w].life = "closing"
      BY <3>1, WidgetAssumption DEF TurnInv, Closing
    <3> QED BY <3>1, <3>2 DEF WorkerEnd, ExitInv
  <2> QED BY <2>2, <2>3 DEF WaitIsServed
<1> QED BY <1>1, SpecWait, PTL
LEMMA WorkType ==
    ASSUME TypeOK, NEW w \in Widgets
    PROVE  WorkerWork(w) \in Int /\ WorkerWork(w) >= 0
<1>1. Len(queue[w]) \in Nat
  BY DEF TypeOK
<1>2. Stage[renderer[w].pc] \in 0 .. 4
  BY DEF TypeOK, Renderer, Stage
<1> QED BY <1>1, <1>2 DEF WorkerWork

LEMMA WorkTypeNext ==
    ASSUME TypeOK', NEW w \in Widgets
    PROVE  WorkerWork(w)' \in Int /\ WorkerWork(w)' >= 0
<1>1. Len(queue'[w]) \in Nat
  BY DEF TypeOK
<1>2. Stage[renderer'[w].pc] \in 0 .. 4
  BY DEF TypeOK, Renderer, Stage
<1> QED BY <1>1, <1>2 DEF WorkerWork

\* A picture costs less than the event that asks for it.
LEMMA TakesLess ==
    ASSUME TypeOK, NEW w \in Widgets, NEW kind, Takes(w, kind),
           renderer'[w].pc \in {"loop", "region"}
    PROVE  WorkerWork(w)' < WorkerWork(w)
<1>1. /\ queue[w] \in Seq(Event) /\ queue[w] # <<>>
      /\ queue'[w] = Tail(queue[w]) /\ renderer[w].pc = "loop"
  BY TakesKinds, TypeParts
<1>2. Len(queue[w]) \in Nat /\ Len(queue'[w]) = Len(queue[w]) - 1
  BY <1>1
<1>3. Stage[renderer[w].pc] = 1 /\ Stage[renderer'[w].pc] \in {1, 4}
  BY <1>1 DEF Stage
<1> QED BY <1>2, <1>3 DEF WorkerWork

LEMMA WorkerSteps ==
    ASSUME TypeOK, NEW w \in Widgets, WorkerStep(w)
    PROVE  WorkerWork(w)' < WorkerWork(w)
<1>v. renderer \in [Widgets -> Renderer] /\ renderer[w] \in Renderer
  BY DEF TypeOK
<1>q. Len(queue[w]) \in Nat
  BY DEF TypeOK
<1>1. ASSUME NEW ok \in BOOLEAN, TakeUpdate(w, ok)
      PROVE  WorkerWork(w)' < WorkerWork(w)
  <2>1. Takes(w, "update")
    BY <1>1 DEF TakeUpdate
  <2>2. renderer'[w].pc \in {"loop", "region"}
    BY <1>1, <2>1, <1>v
    DEF TakeUpdate, Takes, SetRenderer, Renderer, Import, InitDisplay
  <2> QED BY <2>1, <2>2, TakesLess
<1>2. CASE TakeRedraw(w)
  <2>1. Takes(w, "redraw")
    BY <1>2 DEF TakeRedraw
  <2>2. renderer'[w].pc \in {"loop", "region"}
    BY <1>2, <2>1, <1>v DEF TakeRedraw, Takes, SetRenderer, Renderer
  <2> QED BY <2>1, <2>2, TakesLess
<1>3. CASE DestroyDisplay(w)
  <2>1. Takes(w, "destroy")
    BY <1>3 DEF DestroyDisplay
  <2>2. renderer'[w].pc \in {"loop", "region"}
    BY <1>3, <2>1, <1>v DEF DestroyDisplay, Takes, SetRenderer, Renderer
  <2> QED BY <2>1, <2>2, TakesLess
<1>4. CASE ChooseRegion(w) \/ ChooseShader(w) \/ DrawDisplay(w)
  <2>1. queue' = queue
    BY <1>4 DEF ChooseRegion, ChooseShader, DrawDisplay, Draws
  <2>2. \/ renderer[w].pc = "region" /\ renderer'[w].pc = "shader"
        \/ renderer[w].pc = "shader" /\ renderer'[w].pc = "draw"
        \/ renderer[w].pc = "draw" /\ renderer'[w].pc = "loop"
    <3>1. CASE ChooseRegion(w)
      BY <3>1, <1>v DEF ChooseRegion, Draws, SetRenderer, Renderer
    <3>2. CASE ChooseShader(w)
      BY <3>2, <1>v DEF ChooseShader, Draws, SetRenderer, Renderer
    <3>3. CASE DrawDisplay(w)
      BY <3>3, <1>v DEF DrawDisplay, Draws, SetRenderer, Renderer
    <3> QED BY <1>4, <3>1, <3>2, <3>3
  <2>3. /\ Stage[renderer[w].pc] \in Nat /\ Stage[renderer'[w].pc] \in Nat
        /\ Stage[renderer'[w].pc] < Stage[renderer[w].pc]
    BY <2>2 DEF Stage
  <2> QED BY <2>1, <2>3, <1>q DEF WorkerWork
<1>5. CASE Stop(w)
  <2>1. queue'[w] = <<>> /\ renderer'[w].pc = "finished"
        /\ renderer[w].pc = "loop"
    BY <1>5, <1>v DEF Stop, SetRenderer, Renderer, TypeOK
  <2>2. Len(queue'[w]) = 0 /\ Stage[renderer'[w].pc] = 0
        /\ Stage[renderer[w].pc] = 1
    BY <2>1 DEF Stage
  <2> QED BY <2>2, <1>q DEF WorkerWork
<1> QED BY <1>1, <1>2, <1>3, <1>4, <1>5 DEF WorkerStep

\* Calls, timers and the decoder post nothing to a renderer that is closed.
LEMMA OwnIdle ==
    ASSUME InvExit, NEW w \in Widgets, window[w].life = "closing", Step(w),
           ~WorkerStep(w)
    PROVE  queue'[w] = queue[w] /\ renderer'[w].pc = renderer[w].pc
<1> USE WidgetAssumption DEF Closing
<1>t. /\ TurnInv /\ gui.w = w /\ gui.pc \in Closing
      /\ gui \in [pc : Pcs, w : Widgets \cup {NoWidget}]
      /\ renderer \in [Widgets -> Renderer]
  BY DEF InvExit, TurnInv, TypeOK, Pcs
<1>1. ~GuiCall(w)
  <2>1. gui # GuiIdle
    BY <1>t DEF GuiIdle
  <2> QED BY <2>1 DEF GuiCall, RegisterDisplay, Show, Hide, BlurUpdate,
             BeginDraw, DelayTimer, UnregisterDisplay, Close, Call
<1>2. ~DecoderFinds(w) /\ ~DecoderUpdates(w)
  BY <1>t DEF DecoderFinds, DecoderUpdates, Live, TurnInv
<1>3. CASE GuiStep(w)
  <2>1. Quit(w) \/ Join(w)
    BY <1>3, <1>t DEF GuiStep, BlurStartTimer, SetFixedSize, SetRealSize,
       ForceRedraw, BlurTimer, BlurTimerRedraw, DelayTimerReplay, GuiAt,
       GuiIdle
  <2> QED BY <2>1, <1>t DEF Quit, Join, SetRenderer, Renderer
<1> QED BY <1>1, <1>2, <1>3 DEF Step

\* No call that waits for a worker waits for ever: the worker has a bounded
\* number of steps to make, and WaitsAreServed says that it can make them.
THEOREM WorkersWindDown == Spec => WorkerWindsDown
<1>1. InvExit /\ InvExit' /\ [Next]_vars =>
          \A w \in Widgets :
              window[w].life = "closing" =>
                  /\ WorkerStep(w) => WorkerWork(w)' < WorkerWork(w)
                  /\ WorkerWork(w)' <= WorkerWork(w)
                  /\ WorkerWork(w)' >= 0
  <2> SUFFICES ASSUME InvExit, InvExit', [Next]_vars, NEW w \in Widgets,
                      window[w].life = "closing"
               PROVE  /\ WorkerStep(w) => WorkerWork(w)' < WorkerWork(w)
                      /\ WorkerWork(w)' <= WorkerWork(w)
                      /\ WorkerWork(w)' >= 0
    OBVIOUS
  <2>1. TypeOK /\ TypeOK'
    BY DEF InvExit
  <2>2. /\ WorkerWork(w) \in Int
        /\ WorkerWork(w)' \in Int /\ WorkerWork(w)' >= 0
    BY <2>1, WorkType, WorkTypeNext
  <2>3. CASE WorkerStep(w)
    <3>1. WorkerWork(w)' < WorkerWork(w)
      BY <2>1, <2>3, WorkerSteps
    <3> QED BY <2>2, <3>1
  <2>4. CASE ~WorkerStep(w)
    <3>1. queue'[w] = queue[w] /\ renderer'[w].pc = renderer[w].pc
      <4>1. CASE UNCHANGED vars
        BY <4>1 DEF vars
      <4>2. CASE Step(w)
        BY <2>4, <4>2, OwnIdle
      <4>3. ASSUME NEW v \in Widgets, v # w, Step(v)
            PROVE  queue'[w] = queue[w] /\ renderer'[w].pc = renderer[w].pc
        BY <2>1, <4>3, OthersUntouched
      <4> QED BY <4>1, <4>2, <4>3 DEF Next, Step
    <3>2. WorkerWork(w)' = WorkerWork(w)
      BY <3>1 DEF WorkerWork
    <3> QED BY <2>2, <2>4, <3>2
  <2> QED BY <2>3, <2>4
<1> QED BY <1>1, InitExit, NextInvExit, PTL DEF Spec, WorkerWindsDown
=============================================================================
