------------------------------ MODULE JsContext ------------------------------
(***************************************************************************)
(* The JavaScript side of rendering, src/src/rrd/svg.c: the script text    *)
(* read once into the globals js_cache / js_cache_len behind the flag      *)
(* js_cache_initialized, and one Duktape context per worker thread, in     *)
(* which the script is evaluated when the context is created and at no     *)
(* other time.  main() calls svg_init_cache before the server starts and   *)
(* ignores its result; svg_generate calls it again, on the worker, while   *)
(* the flag is not set.  No lock protects the globals, so every access is  *)
(* a step of its own here.                                                 *)
(*                                                                         *)
(* Touching a freed or NULL buffer is undefined behaviour, and so is the   *)
(* evaluation of a buffer that was not written: `undefined' records it and *)
(* the model says nothing about what follows.                              *)
(***************************************************************************)
EXTENDS Naturals, FiniteSets

CONSTANTS
    Workers,         \* threads of the server; one worker is HTTP mode
    Bufs,            \* addresses at which malloc can put the script text
    Settings,        \* the circumstances svgd runs in
    NULL

ASSUME JsAssumption ==
    /\ IsFiniteSet(Workers)
    /\ NULL \notin Bufs
    /\ Settings \subseteq
           [loaded    : BOOLEAN,          \* main() could read the script
            failures  : BOOLEAN,          \* malloc and fread may fail later
            grafana   : BOOLEAN,          \* workers also serve _grafana/query
            renderers : SUBSET Workers]   \* workers that get render requests

VARIABLES
    setting,      \* one of Settings, fixed
    script,       \* the file js_script_path names exists
    bufs,         \* content of each buffer
    js_cache,     \* the global pointer
    js_len,       \* js_cache_len: 0 or the length of the script (1)
    initialized,  \* js_cache_initialized
    ctx,          \* the thread-local context of each worker
    pc,           \* where each worker is
    count,        \* read_bytes of the worker's fread
    undefined     \* a step with undefined behaviour was taken

vars == <<setting, script, bufs, js_cache, js_len, initialized, ctx, pc, count, undefined>>
globals == <<bufs, js_cache, js_len, initialized>>

\* "raw" is malloc'ed and not yet written, "partial" a truncated script,
\* "empty" the empty string.
Contents == {"free", "raw", "partial", "empty", "script"}
Contexts == {"none", "bare", "scripted"}
Points == {"boot", "idle", "init", "alloc", "read", "check", "discard", "context",
           "ended"}

TypeOK ==
    /\ setting \in Settings
    /\ script \in BOOLEAN
    /\ bufs \in [Bufs -> Contents]
    /\ js_cache \in Bufs \cup {NULL}
    /\ js_len \in {0, 1}
    /\ initialized \in BOOLEAN
    /\ ctx \in [Workers -> Contexts]
    /\ pc \in [Workers -> Points]
    /\ count \in [Workers -> {0, 1}]
    /\ undefined \in BOOLEAN

\* The state after main()'s init_js_cache: the script is loaded, or the file
\* was not there and nothing is set.
Init ==
    /\ setting \in Settings
    /\ script = setting.loaded
    /\ \E b \in Bufs :
           IF setting.loaded
           THEN /\ bufs = [c \in Bufs |-> IF c = b THEN "script" ELSE "free"]
                /\ js_cache = b /\ js_len = 1 /\ initialized = TRUE
           ELSE /\ bufs = [c \in Bufs |-> "free"]
                /\ js_cache = NULL /\ js_len = 0 /\ initialized = FALSE
    /\ ctx = [w \in Workers |-> "none"]
    /\ pc = [w \in Workers |-> "boot"]
    /\ count = [w \in Workers |-> 0]
    /\ undefined = FALSE

Goto(w, point) == pc' = [pc EXCEPT ![w] = point]

\* The buffer does not hold a text with its terminating zero: it was freed, or
\* malloc'ed and not read, or read short.
Unwritten == {"free", "raw", "partial"}

\* Mutant: the script is not evaluated in a new context.
NewContextsBare == {"bare"}

\* What get_thread_context leaves in the thread-local slot of a worker for which
\* it has created a heap.  Evaluating memory that was not written may fail or
\* succeed without defining anything.
NewContexts ==
    IF ~initialized \/ js_cache = NULL THEN {"bare"}
    ELSE CASE bufs[js_cache] = "script"    -> {"scripted"}
           [] bufs[js_cache] = "empty"     -> {"bare"}
           [] bufs[js_cache] \in Unwritten -> {"none", "bare"}

\* get_thread_context: a context is created once per thread.  Without memory for
\* the heap, or for the evaluation of the script in it, the slot stays empty.
get_thread_context(w) ==
    \/ /\ ctx[w] # "none" \/ setting.failures
       /\ UNCHANGED <<ctx, undefined>>
    \/ /\ ctx[w] = "none"
       /\ \E c \in NewContexts : ctx' = [ctx EXCEPT ![w] = c]
       /\ undefined' = (initialized /\ js_cache # NULL /\ bufs[js_cache] \in Unwritten)

----------------------------------------------------------------------------
\* svg_prewarm_context at the start of a worker.
svg_prewarm_context(w) ==
    /\ pc[w] = "boot"
    /\ IF initialized THEN get_thread_context(w) ELSE UNCHANGED <<ctx, undefined>>
    /\ Goto(w, "idle")
    /\ UNCHANGED <<setting, script, globals, count>>

\* svg_get_context, from grafana_query.
svg_get_context(w) ==
    /\ setting.grafana
    /\ pc[w] = "idle"
    /\ get_thread_context(w)
    /\ UNCHANGED <<setting, script, globals, pc, count>>

\* svg_generate tests the flag.
svg_generate(w) ==
    /\ w \in setting.renderers
    /\ pc[w] = "idle"
    /\ Goto(w, IF initialized THEN "context" ELSE "init")
    /\ UNCHANGED <<setting, script, globals, ctx, count, undefined>>

\* Mutant: js_cache_len counts the terminating zero.
InitOpenCountsZero(w) ==
    /\ pc[w] = "init"
    /\ IF initialized THEN Goto(w, "context") /\ UNCHANGED js_len
       ELSE IF ~script THEN Goto(w, "idle") /\ UNCHANGED js_len
       ELSE Goto(w, "alloc") /\ js_len' = 2
    /\ UNCHANGED <<setting, script, bufs, js_cache, initialized, ctx, count, undefined>>

\* svg_init_cache: the flag again, fopen, js_cache_len = ftell.
InitOpen(w) ==
    /\ pc[w] = "init"
    /\ IF initialized THEN Goto(w, "context") /\ UNCHANGED js_len
       ELSE IF ~script THEN Goto(w, "idle") /\ UNCHANGED js_len
       ELSE Goto(w, "alloc") /\ js_len' = 1
    /\ UNCHANGED <<setting, script, bufs, js_cache, initialized, ctx, count, undefined>>

\* Mutant: the flag is set before the text is read.
InitAllocSetsFlag(w) ==
    /\ pc[w] = "alloc"
    /\ \E b \in Bufs :
           /\ bufs[b] = "free"
           /\ bufs' = [bufs EXCEPT ![b] = "raw"]
           /\ js_cache' = b
    /\ initialized' = TRUE
    /\ Goto(w, "read")
    /\ UNCHANGED <<setting, script, js_len, ctx, count, undefined>>

\* svg_init_cache: js_cache = malloc; the previous pointer is forgotten.
InitAlloc(w) ==
    /\ pc[w] = "alloc"
    /\ \E b \in Bufs :
           /\ bufs[b] = "free"
           /\ bufs' = [bufs EXCEPT ![b] = "raw"]
           /\ js_cache' = b
    /\ Goto(w, "read")
    /\ UNCHANGED <<setting, script, js_len, initialized, ctx, count, undefined>>

\* svg_init_cache: js_cache = malloc returns NULL.
InitNoMemory(w) ==
    /\ setting.failures
    /\ pc[w] = "alloc"
    /\ js_cache' = NULL
    /\ Goto(w, "idle")
    /\ UNCHANGED <<setting, script, bufs, js_len, initialized, ctx, count, undefined>>

\* Mutant: the flag is tested again behind malloc, and the text not read when
\* another thread has set it.
InitReadSkipped(w) ==
    /\ pc[w] = "read"
    /\ IF initialized
       THEN Goto(w, "context") /\ UNCHANGED <<bufs, count>>
       ELSE /\ count' = [count EXCEPT ![w] = js_len]
            /\ bufs' = [bufs EXCEPT ![js_cache] = "script"]
            /\ Goto(w, "check")
    /\ UNCHANGED <<setting, script, js_cache, js_len, initialized, ctx, undefined>>

\* svg_init_cache: fread into whatever js_cache points to by now, as much as
\* js_cache_len says by now, and the terminating zero.
InitRead(w) ==
    /\ pc[w] = "read"
    /\ IF js_cache = NULL \/ bufs[js_cache] = "free"
       THEN undefined' = TRUE /\ UNCHANGED <<bufs, count>>
       ELSE /\ UNCHANGED undefined
            /\ \E n \in {js_len} \cup (IF setting.failures THEN {0} ELSE {}) :
                   /\ count' = [count EXCEPT ![w] = n]
                   /\ bufs' = [bufs EXCEPT ![js_cache] =
                          IF js_len = 0 THEN "empty"
                          ELSE IF n = 0 THEN "partial" ELSE "script"]
    /\ Goto(w, "check")
    /\ UNCHANGED <<setting, script, js_cache, js_len, initialized, ctx>>

\* Mutant: the buffer of a short read is not freed.
InitCheckLeaks(w) ==
    /\ pc[w] = "check"
    /\ IF count[w] = js_len
       THEN initialized' = TRUE /\ Goto(w, "context")
       ELSE UNCHANGED initialized /\ Goto(w, "discard")
    /\ UNCHANGED <<setting, script, bufs, js_cache, js_len, ctx, count, undefined>>

\* svg_init_cache: after a short read the buffer is freed; otherwise the flag
\* is set.
InitCheck(w) ==
    /\ pc[w] = "check"
    /\ IF count[w] = js_len
       THEN /\ initialized' = TRUE
            /\ Goto(w, "context")
            /\ UNCHANGED <<bufs, undefined>>
       ELSE /\ undefined' = (js_cache # NULL /\ bufs[js_cache] = "free")
            /\ bufs' = [b \in Bufs |-> IF b = js_cache THEN "free" ELSE bufs[b]]
            /\ Goto(w, "discard")
            /\ UNCHANGED initialized
    /\ UNCHANGED <<setting, script, js_cache, js_len, ctx, count>>

\* svg_init_cache: and the globals are cleared.
InitDiscard(w) ==
    /\ pc[w] = "discard"
    /\ js_cache' = NULL
    /\ js_len' = 0
    /\ Goto(w, "idle")
    /\ UNCHANGED <<setting, script, bufs, initialized, ctx, count, undefined>>

\* svg_generate takes the context of its thread and looks up generateSVG;
\* without it, or without a context, the request fails.
RenderInContext(w) ==
    /\ pc[w] = "context"
    /\ get_thread_context(w)
    /\ Goto(w, "idle")
    /\ UNCHANGED <<setting, script, globals, count>>

Thread(w) ==
    \/ svg_prewarm_context(w) \/ svg_get_context(w) \/ svg_generate(w)
    \/ InitOpen(w) \/ InitAlloc(w) \/ InitNoMemory(w)
    \/ InitRead(w) \/ InitCheck(w) \/ InitDiscard(w) \/ RenderInContext(w)

\* The administrator puts the missing script in place.
Deploy ==
    /\ ~script
    /\ script' = TRUE
    /\ UNCHANGED <<setting, globals, ctx, pc, count, undefined>>

\* The end of main(): the server has returned and with it every thread, whose
\* destructor frees its context; free_js_cache frees the text.
svg_free_cache ==
    /\ \A w \in Workers : pc[w] = "idle"
    /\ pc' = [w \in Workers |-> "ended"]
    /\ ctx' = [w \in Workers |-> "none"]
    /\ IF js_cache = NULL THEN UNCHANGED globals
       ELSE /\ bufs' = [bufs EXCEPT ![js_cache] = "free"]
            /\ js_cache' = NULL /\ js_len' = 0 /\ initialized' = FALSE
    /\ UNCHANGED <<setting, script, count, undefined>>

\* Nothing follows the end, and nothing is said of what follows undefined
\* behaviour.
Ended == (\A w \in Workers : pc[w] = "ended") /\ UNCHANGED vars

AfterUndefined == undefined /\ UNCHANGED vars

Next ==
    \/ AfterUndefined
    \/ ~undefined /\ (Deploy \/ svg_free_cache \/ Ended \/ \E w \in Workers : Thread(w))

Spec == Init /\ [][Next]_vars

----------------------------------------------------------------------------
\* The text was loaded before the server started, or a single thread renders
\* and so loads it (HTTP mode; LSRP with one busy worker).
OneLoader == setting.loaded \/ Cardinality(setting.renderers) <= 1

\* With one loader: once the flag is set the pointer is set and the buffer
\* holds the whole script, also after failures of malloc and short reads, so
\* nobody evaluates text that is being read.
InitializedMeansLoaded ==
    OneLoader /\ initialized => js_cache # NULL /\ bufs[js_cache] = "script"

\* With one loader svg_init_cache touches no freed buffer, frees none twice,
\* and the only buffer that stays allocated is the one js_cache points to, so
\* that svg_free_cache leaves none at the end.
BuffersAccounted ==
    OneLoader => /\ ~undefined
                 /\ \A b \in Bufs : bufs[b] # "free" => b = js_cache

\* Workers may run svg_init_cache at the same time (the flag is tested before
\* the file is read, with no lock around both), and the flag may then be set
\* over a buffer a later malloc has put in js_cache and nobody has read into.
\* Without failures that ends: the flag is over text that is not the whole
\* script only while some worker has its fread still to do.
RaceLeavesScript ==
    ~setting.failures /\ initialized =>
        js_cache # NULL /\ (bufs[js_cache] = "script" \/ \E w \in Workers : pc[w] = "read")

\* When the script was loaded at startup no context of any worker, whether
\* made by pre-warming, by a Grafana query or by a render, lacks generateSVG.
ContextsHaveScript == setting.loaded => \A w \in Workers : ctx[w] # "bare"

\* include/rrd/svg.h:5 promises thread-safe generation with cached contexts:
\* no worker is left with a context without generateSVG, in which every later
\* request fails because the script is never evaluated again.
NoBareContext == \A w \in Workers : ctx[w] # "bare"
=============================================================================
