--------------------------- MODULE JsContextProofs ---------------------------
(***************************************************************************)
(* Proofs about JsContext, for any number of workers and buffers and any   *)
(* set of circumstances: what one loader guarantees, what a race without   *)
(* failures guarantees, and what a script loaded at startup guarantees.    *)
(***************************************************************************)
EXTENDS JsContext, FiniteSetTheorems, TLAPS

\* The points of svg_init_cache behind its test of the flag, and all points of
\* svg_generate.
Loading == {"alloc", "read", "check", "discard"}
Generating == Loading \cup {"init", "context"}

\* Only the renderers are in svg_generate, and all threads end together.
ControlInv ==
    /\ \A w \in Workers : pc[w] \in Generating => w \in setting.renderers
    /\ \A v, w \in Workers : pc[v] = "ended" => pc[w] = "ended"

Script == js_cache # NULL /\ bufs[js_cache] = "script"

\* A script loaded at startup stays loaded until the end, and nobody loads it
\* again or has a context without it.
EarlyInv ==
    setting.loaded =>
        /\ (initialized /\ Script) \/ \A w \in Workers : pc[w] = "ended"
        /\ \A w \in Workers : pc[w] \notin Loading \cup {"init"}
        /\ \A w \in Workers : ctx[w] # "bare"

\* What one loader has done to the globals at each of its points.
LoaderInv ==
    OneLoader =>
        /\ ~undefined
        /\ initialized => Script /\ \A w \in Workers : pc[w] \notin Loading
        /\ \A b \in Bufs : bufs[b] # "free" =>
               /\ b = js_cache
               /\ initialized \/ \E w \in Workers : pc[w] \in {"read", "check"}
        /\ \A w \in Workers :
               /\ pc[w] \in {"alloc", "read", "check"} => js_len = 1
               /\ pc[w] = "read" => js_cache # NULL /\ bufs[js_cache] = "raw"
               /\ pc[w] = "check" =>
                      /\ js_cache # NULL
                      /\ bufs[js_cache] = IF count[w] = 1 THEN "script" ELSE "partial"

\* What loaders that do not fail guarantee each other: the pointer names an
\* allocated buffer, which is the script once everybody who took one has read
\* into it, the length is the file's, nobody gets to the clean-up.
RaceInv ==
    ~setting.failures =>
        /\ initialized \/ (\E w \in Workers : pc[w] \in {"read", "check"}) =>
               /\ js_cache # NULL /\ bufs[js_cache] # "free"
               /\ bufs[js_cache] = "script" \/ \E w \in Workers : pc[w] = "read"
        /\ \A w \in Workers :
               /\ pc[w] # "discard"
               /\ pc[w] \in {"alloc", "read", "check"} => js_len = 1
               /\ pc[w] = "check" => count[w] = 1

JsInv == TypeOK /\ ControlInv /\ EarlyInv /\ LoaderInv /\ RaceInv

----------------------------------------------------------------------------
\* With one loader all workers in svg_generate are the same worker, unless the
\* script was loaded at startup.
LEMMA SingleRenderer ==
    ASSUME TypeOK, OneLoader, ~setting.loaded,
           NEW v \in setting.renderers, NEW w \in setting.renderers
    PROVE  v = w
<1>. DEFINE R == setting.renderers
<1>1. R \subseteq Workers
  BY JsAssumption DEF TypeOK
<1>2. IsFiniteSet(R) /\ Cardinality(R) \in Nat
  BY <1>1, JsAssumption, FS_Subset, FS_CardinalityType
<1>3. Cardinality(R) <= 1
  BY DEF OneLoader
<1>. HIDE DEF R
<1>4. /\ IsFiniteSet(R \ {v})
      /\ Cardinality(R \ {v}) = Cardinality(R) - 1
  <2>1. v \in R
    BY DEF R
  <2>. QED
    BY <1>2, <2>1, FS_RemoveElement
<1>5. Cardinality(R \ {v}) = 0
  <2>1. Cardinality(R \ {v}) \in Nat
    BY <1>4, FS_CardinalityType
  <2>. QED
    BY <1>2, <1>3, <1>4, <2>1
<1>6. R \ {v} = {}
  BY <1>4, <1>5, FS_EmptySet
<1>. QED
  BY <1>6 DEF R

\* What get_thread_context can leave in the slot of the thread: nothing undefined
\* happens unless the text was not written, and with the script loaded no
\* context becomes bare.
LEMMA ContextEffect ==
    ASSUME TypeOK, NEW w \in Workers, get_thread_context(w), ~undefined
    PROVE  /\ ctx' \in [Workers -> Contexts]
           /\ \A v \in Workers : ctx'[v] = ctx[v] \/ (initialized /\ Script => ctx'[v] # "bare")
           /\ undefined' \in BOOLEAN
           /\ undefined' => initialized /\ js_cache # NULL /\ bufs[js_cache] \in Unwritten
<1>1. CASE UNCHANGED <<ctx, undefined>>
  BY <1>1 DEF TypeOK
<1>2. ASSUME NEW c \in NewContexts, ctx' = [ctx EXCEPT ![w] = c],
             undefined' = (initialized /\ js_cache # NULL /\ bufs[js_cache] \in Unwritten)
      PROVE  /\ ctx' \in [Workers -> Contexts]
             /\ \A v \in Workers : ctx'[v] = ctx[v] \/ (initialized /\ Script => ctx'[v] # "bare")
  <2>1. c \in Contexts /\ (initialized /\ Script => c # "bare")
    <3>1. CASE ~initialized \/ js_cache = NULL
      BY <3>1 DEF NewContexts, Contexts, Script
    <3>2. CASE initialized /\ js_cache # NULL
      <4>1. bufs[js_cache] \in {"script", "empty"} \cup Unwritten
        BY <3>2 DEF TypeOK, Contents, Unwritten
      <4>2. NewContexts = CASE bufs[js_cache] = "script"    -> {"scripted"}
           [] bufs[js_cache] = "empty"     -> {"bare"}
           [] bufs[js_cache] \in Unwritten -> {"none", "bare"}
        BY <3>2 DEF NewContexts
      <4>. QED
        BY <4>1, <4>2 DEF Contexts, Script, Unwritten
    <3>. QED
      BY <3>1, <3>2 DEF TypeOK
  <2>. QED
    BY <1>2, <2>1 DEF TypeOK
<1>. QED
  BY <1>1, <1>2 DEF get_thread_context

----------------------------------------------------------------------------
\* Pre-warming, svg_get_context and the render itself change no global.
LEMMA ContextStep ==
    ASSUME JsInv, ~undefined, NEW w \in Workers,
           svg_prewarm_context(w) \/ svg_get_context(w) \/ RenderInContext(w)
    PROVE  JsInv'
<1>. USE DEF JsInv
<1>1. UNCHANGED <<setting, script, bufs, js_cache, js_len, initialized, count>>
  BY DEF svg_prewarm_context, svg_get_context, RenderInContext, globals
<1>2. \A v \in Workers : pc'[v] = pc[v] \/ (v = w /\ pc'[v] = "idle" /\ pc[v] \in {"boot", "context"})
  BY DEF svg_prewarm_context, svg_get_context, RenderInContext, Goto, TypeOK
<1>3. pc[w] # "ended" /\ pc' \in [Workers -> Points]
  BY DEF svg_prewarm_context, svg_get_context, RenderInContext, Goto, TypeOK, Points
<1>4. /\ ctx' \in [Workers -> Contexts] /\ undefined' \in BOOLEAN
      /\ \A v \in Workers : ctx'[v] = ctx[v] \/ (initialized /\ Script => ctx'[v] # "bare")
      /\ undefined' => initialized /\ js_cache # NULL /\ bufs[js_cache] \in Unwritten
  <2>1. CASE UNCHANGED <<ctx, undefined>>
    BY <2>1 DEF TypeOK
  <2>2. CASE get_thread_context(w)
    BY <2>2, ContextEffect DEF TypeOK
  <2>. QED
    BY <2>1, <2>2 DEF svg_prewarm_context, svg_get_context, RenderInContext
<1>5. TypeOK'
  BY <1>1, <1>3, <1>4 DEF TypeOK
<1>6. ControlInv'
  BY <1>1, <1>2, <1>3 DEF ControlInv, Generating, Loading
<1>7. EarlyInv'
  BY <1>1, <1>2, <1>3, <1>4 DEF EarlyInv, ControlInv, Script, Loading
<1>8. LoaderInv'
  BY <1>1, <1>2, <1>4 DEF LoaderInv, OneLoader, Script, Loading, Unwritten
<1>9. RaceInv'
  BY <1>1, <1>2, <1>4 DEF RaceInv
<1>. QED
  BY <1>5, <1>6, <1>7, <1>8, <1>9

\* The test of the flag only moves the worker.
LEMMA GenerateStep ==
    ASSUME JsInv, ~undefined, NEW w \in Workers, svg_generate(w)
    PROVE  JsInv'
<1>. USE DEF JsInv, svg_generate, Goto
<1>1. TypeOK'
  BY JsAssumption DEF TypeOK, Points, Contents, globals
<1>2. ControlInv'
  BY DEF TypeOK, ControlInv, Generating, Loading, globals
<1>3. EarlyInv'
  BY DEF TypeOK, ControlInv, EarlyInv, Script, Loading, globals
<1>4. LoaderInv'
  BY SingleRenderer, JsAssumption
  DEF TypeOK, ControlInv, EarlyInv, LoaderInv, OneLoader, Script, Generating, Loading, globals
<1>5. RaceInv'
  BY JsAssumption DEF TypeOK, RaceInv, globals
<1>. QED
  BY <1>1, <1>2, <1>3, <1>4, <1>5

\* The loader notes the length of the file.
LEMMA InitOpenStep ==
    ASSUME JsInv, ~undefined, NEW w \in Workers, InitOpen(w)
    PROVE  JsInv'
<1>. USE DEF JsInv, InitOpen, Goto
<1>1. TypeOK'
  BY JsAssumption DEF TypeOK, Points, Contents, globals
<1>2. ControlInv'
  BY DEF TypeOK, ControlInv, Generating, Loading, globals
<1>3. EarlyInv'
  BY DEF TypeOK, ControlInv, EarlyInv, Script, Loading, globals
<1>4. LoaderInv'
  BY SingleRenderer, JsAssumption
  DEF TypeOK, ControlInv, EarlyInv, LoaderInv, OneLoader, Script, Generating, Loading, globals
<1>5. RaceInv'
  BY JsAssumption DEF TypeOK, RaceInv, globals
<1>. QED
  BY <1>1, <1>2, <1>3, <1>4, <1>5

\* The loader takes a free buffer; with one loader no other is allocated.
LEMMA InitAllocStep ==
    ASSUME JsInv, ~undefined, NEW w \in Workers, InitAlloc(w)
    PROVE  JsInv'
<1>. USE DEF JsInv, InitAlloc, Goto
<1>1. TypeOK'
  BY JsAssumption DEF TypeOK, Points, Contents, globals
<1>2. ControlInv'
  BY DEF TypeOK, ControlInv, Generating, Loading, globals
<1>3. EarlyInv'
  BY DEF TypeOK, ControlInv, EarlyInv, Script, Loading, globals
<1>4. LoaderInv'
  BY SingleRenderer, JsAssumption
  DEF TypeOK, ControlInv, EarlyInv, LoaderInv, OneLoader, Script, Generating, Loading, globals
<1>5. RaceInv'
  BY JsAssumption DEF TypeOK, RaceInv, globals
<1>. QED
  BY <1>1, <1>2, <1>3, <1>4, <1>5

\* Without memory nothing was allocated and nothing is.
LEMMA InitNoMemoryStep ==
    ASSUME JsInv, ~undefined, NEW w \in Workers, InitNoMemory(w)
    PROVE  JsInv'
<1>. USE DEF JsInv, InitNoMemory, Goto
<1>1. TypeOK'
  BY JsAssumption DEF TypeOK, Points, Contents, globals
<1>2. ControlInv'
  BY DEF TypeOK, ControlInv, Generating, Loading, globals
<1>3. EarlyInv'
  BY DEF TypeOK, ControlInv, EarlyInv, Script, Loading, globals
<1>4. LoaderInv'
  BY SingleRenderer, JsAssumption
  DEF TypeOK, ControlInv, EarlyInv, LoaderInv, OneLoader, Script, Generating, Loading, globals
<1>5. RaceInv'
  BY JsAssumption DEF TypeOK, RaceInv, globals
<1>. QED
  BY <1>1, <1>2, <1>3, <1>4, <1>5

\* The loader writes the buffer the pointer names by now.
LEMMA InitReadStep ==
    ASSUME JsInv, ~undefined, NEW w \in Workers, InitRead(w)
    PROVE  JsInv'
<1>. USE DEF JsInv, InitRead, Goto
<1>1. TypeOK'
  <2>1. bufs' \in [Bufs -> Contents] /\ undefined' \in BOOLEAN /\ initialized' \in BOOLEAN
    BY DEF TypeOK, Contents
  <2>2. pc' \in [Workers -> Points]
    BY DEF TypeOK, Points
  <2>. QED
    BY <2>1, <2>2 DEF TypeOK
<1>2. ControlInv'
  BY DEF TypeOK, ControlInv, Generating, Loading, globals
<1>3. EarlyInv'
  BY DEF TypeOK, ControlInv, EarlyInv, Script, Loading, globals
<1>4. LoaderInv'
  BY SingleRenderer, JsAssumption
  DEF TypeOK, ControlInv, EarlyInv, LoaderInv, OneLoader, Script, Generating, Loading, globals
<1>5. RaceInv'
  BY JsAssumption DEF TypeOK, RaceInv, globals
<1>. QED
  BY <1>1, <1>2, <1>3, <1>4, <1>5

\* The flag is set after a full read only; a short one frees the buffer.
LEMMA InitCheckStep ==
    ASSUME JsInv, ~undefined, NEW w \in Workers, InitCheck(w)
    PROVE  JsInv'
<1>. USE DEF JsInv, InitCheck, Goto
<1>1. TypeOK'
  BY JsAssumption, ZenonT(60) DEF TypeOK, Points, Contents, globals
<1>2. ControlInv'
  BY DEF TypeOK, ControlInv, Generating, Loading, globals
<1>3. EarlyInv'
  BY DEF TypeOK, ControlInv, EarlyInv, Script, Loading, globals
<1>4. LoaderInv'
  BY SingleRenderer, JsAssumption
  DEF TypeOK, ControlInv, EarlyInv, LoaderInv, OneLoader, Script, Generating, Loading, globals
<1>5. RaceInv'
  BY JsAssumption DEF TypeOK, RaceInv, globals
<1>. QED
  BY <1>1, <1>2, <1>3, <1>4, <1>5

\* The clean-up after a short read ends in the state before the load.
LEMMA InitDiscardStep ==
    ASSUME JsInv, ~undefined, NEW w \in Workers, InitDiscard(w)
    PROVE  JsInv'
<1>. USE DEF JsInv, InitDiscard, Goto
<1>1. TypeOK'
  BY JsAssumption DEF TypeOK, Points, Contents, globals
<1>2. ControlInv'
  BY DEF TypeOK, ControlInv, Generating, Loading, globals
<1>3. EarlyInv'
  BY DEF TypeOK, ControlInv, EarlyInv, Script, Loading, globals
<1>4. LoaderInv'
  BY SingleRenderer, JsAssumption
  DEF TypeOK, ControlInv, EarlyInv, LoaderInv, OneLoader, Script, Generating, Loading, globals
<1>5. RaceInv'
  BY JsAssumption DEF TypeOK, RaceInv, globals
<1>. QED
  BY <1>1, <1>2, <1>3, <1>4, <1>5

\* A script that appears changes nothing that is loaded.
LEMMA DeployStep ==
    ASSUME JsInv, ~undefined, Deploy
    PROVE  JsInv'
<1>. USE DEF JsInv, Deploy, globals
<1>1. TypeOK'
  BY DEF TypeOK
<1>. QED
  BY <1>1 DEF ControlInv, EarlyInv, LoaderInv, RaceInv, OneLoader, Script

\* The end of main() frees the only buffer there is to free.
LEMMA FreeStep ==
    ASSUME JsInv, ~undefined, svg_free_cache
    PROVE  JsInv'
<1>. USE DEF JsInv
<1>1. /\ \A w \in Workers : pc[w] = "idle" /\ pc'[w] = "ended"
      /\ \A w \in Workers : ctx'[w] = "none"
      /\ UNCHANGED <<setting, script, count, undefined>>
      /\ pc' \in [Workers -> Points] /\ ctx' \in [Workers -> Contexts]
  BY DEF svg_free_cache, Points, Contexts
<1>2. \/ js_cache = NULL /\ UNCHANGED <<bufs, js_cache, js_len, initialized>>
      \/ /\ js_cache # NULL /\ bufs' = [bufs EXCEPT ![js_cache] = "free"]
         /\ js_cache' = NULL /\ js_len' = 0 /\ initialized' = FALSE
  BY DEF svg_free_cache, globals
<1>3. TypeOK'
  BY <1>1, <1>2 DEF TypeOK, Contents
<1>4. ControlInv'
  BY <1>1 DEF ControlInv, Generating, Loading
<1>5. EarlyInv'
  BY <1>1 DEF EarlyInv, Loading
<1>6. LoaderInv'
  BY <1>1, <1>2 DEF TypeOK, LoaderInv, OneLoader, Script, Loading
<1>7. RaceInv'
  BY <1>1, <1>2 DEF TypeOK, RaceInv
<1>. QED
  BY <1>3, <1>4, <1>5, <1>6, <1>7

\* The inductive invariant of the script cache and the contexts.
THEOREM JsInvariant == Spec => []JsInv
<1>1. Init => JsInv
  <2>. SUFFICES ASSUME Init PROVE JsInv
    OBVIOUS
  <2>1. /\ \A w \in Workers : pc[w] = "boot" /\ ctx[w] = "none"
        /\ undefined = FALSE
    BY DEF Init
  <2>2. /\ bufs \in [Bufs -> Contents] /\ js_cache \in Bufs \cup {NULL} /\ js_len \in {0, 1}
        /\ initialized \in BOOLEAN
        /\ initialized => Script
        /\ setting.loaded => initialized
        /\ \A b \in Bufs : bufs[b] # "free" => b = js_cache /\ initialized
    BY JsAssumption DEF Init, Contents, Script
  <2>3. TypeOK
    <3>1. script \in BOOLEAN
      BY JsAssumption DEF Init
    <3>. QED
      BY <2>2, <3>1 DEF Init, TypeOK, Points, Contexts
  <2>4. ControlInv
    BY <2>1 DEF ControlInv, Generating, Loading
  <2>5. EarlyInv
    BY <2>1, <2>2 DEF EarlyInv, Loading
  <2>6. LoaderInv
    BY <2>1, <2>2 DEF LoaderInv, Loading
  <2>7. RaceInv
    BY <2>1, <2>2 DEF RaceInv, Script
  <2>. QED
    BY <2>3, <2>4, <2>5, <2>6, <2>7 DEF JsInv
<1>2. JsInv /\ [Next]_vars => JsInv'
  <2>. SUFFICES ASSUME JsInv, [Next]_vars PROVE JsInv'
    OBVIOUS
  <2>1. CASE UNCHANGED vars
    BY <2>1 DEF vars, JsInv, TypeOK, ControlInv, EarlyInv, LoaderInv, RaceInv, OneLoader, Script
  <2>2. ASSUME ~undefined, NEW w \in Workers, Thread(w) PROVE JsInv'
    BY <2>2, ContextStep, GenerateStep, InitOpenStep, InitAllocStep, InitNoMemoryStep,
       InitReadStep, InitCheckStep, InitDiscardStep DEF Thread
  <2>. QED
    BY <2>1, <2>2, DeployStep, FreeStep DEF Next, Ended, AfterUndefined
<1>. QED
  BY <1>1, <1>2, PTL DEF Spec

\* Every variable keeps its type.
THEOREM TypeCorrect == Spec => []TypeOK
BY JsInvariant, PTL DEF JsInv

\* With one loader the flag of svg_init_cache means what it says.
THEOREM FlagMeansLoaded == Spec => []InitializedMeansLoaded
<1>1. JsInv => InitializedMeansLoaded
  BY DEF JsInv, LoaderInv, InitializedMeansLoaded, Script
<1>. QED
  BY <1>1, JsInvariant, PTL

\* With one loader no buffer is freed twice, used after it, or lost.
THEOREM NoBufferLost == Spec => []BuffersAccounted
<1>1. JsInv => BuffersAccounted
  BY DEF JsInv, LoaderInv, BuffersAccounted
<1>. QED
  BY <1>1, JsInvariant, PTL

\* However many threads are in svg_init_cache at once, as long as neither malloc
\* nor fread fails the text under the flag is the script, or becomes it with
\* an fread that is still to come.
THEOREM RaceEndsLoaded == Spec => []RaceLeavesScript
<1>1. JsInv => RaceLeavesScript
  BY DEF JsInv, RaceInv, RaceLeavesScript
<1>. QED
  BY <1>1, JsInvariant, PTL

\* With the script loaded at startup no thread has a context without it.
THEOREM ScriptInContexts == Spec => []ContextsHaveScript
<1>1. JsInv => ContextsHaveScript
  BY DEF JsInv, EarlyInv, ContextsHaveScript
<1>. QED
  BY <1>1, JsInvariant, PTL
=============================================================================
