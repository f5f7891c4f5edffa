# svgd in TLA+

svgd turns RRD files and live sources into SVG charts. A browser talks HTTP to
`svgd-gate`, which checks a token, selects a backend and forwards the request
over LSRP to `svgd`; `svgd` reads the data through a cache and renders it with
a JavaScript function in an embedded Duktape context. This directory holds the
models of the parts that keep state, what TLC checks about them, and what
TLAPS proves. All paths below are relative to the repository's root.

## 1. The system

| Part | State | Operations | Meets |
|---|---|---|---|
| RRD data cache, `src/rrd/cache.c` | 64 hash chains of entries that own a `MetricData`, time to live, flag; one mutex | init, get (returns a clone), put (takes ownership), free | every worker thread |
| Request handling, `src/main.c`, `src/handler.c`, `src/metric_source.c` | per thread: request, data in hand | route, fetch (get, read, put, get again), render, answer | cache, reader, contexts |
| RRD reader, `src/rrd/reader.c` | none kept | choice of the step, fetch, `sum` transform | librrd |
| JavaScript contexts, `src/rrd/svg.c` | script text, its length and flag as globals without a lock; one context per thread | load, pre-warm, get context, render, free | worker threads, the script file |
| Live CPU source, `src/proc_source.c` | previous sample under a mutex | sample, difference, store | worker threads, `/proc/stat` |
| Prometheus source, `src/prometheus_source.c` | none kept | GET and parse | a remote exporter |
| Configuration, `src/cfg.c`, `src/path_util.c` | array of metrics, read once | load, lookup by longest prefix, path expansion, list as JSON | request handling |
| HTTP server of svgd, `src/main.c`, `src/http.c`, `src/handler.c` | listener, one connection, flag of the loop, allocations of a request | accept, recv, handle, send, signal handler | clients, sources, signals |
| LSRP client and server, `lsrp/` | (submodule, not in the tree) | | gate, svgd |
| Datasource list, `gate/main.c` | array of 16, default name, `datasources.json` | load, save, add, remove, set default | gate loop, operator |
| Gate loop, `gate/main.c` | one connection | accept, receive with timeout, route, forward | clients, backends |
| Authentication, `gate/auth/auth.c` | password, secret, expiry | load, login, validate | gate loop, clock |
| Dashboard, `gate/static/script.js`, `auth.js` | panels per datasource in localStorage, elements, timers, open requests | load, select, add, remove, drag, resize, refresh, import, reset, manage datasources | gate, user |

Hard to test, and therefore what the properties are aimed at:

* workers interleave between two calls of the cache, and the clock runs there;
  the same object is rendered by one and replaced by another;
* ownership of `MetricData` moves: fresh data to the cache, clones to workers;
* the script is loaded lazily by whichever worker comes first, without a lock;
* samples of `/proc/stat` reach the mutex out of order;
* `datasources.json` is rewritten in place and parsed by substring search; the
  process may end in between, an operator may edit the file;
* one thread serves all clients of the gate, requests may stop arriving;
* tokens outlive restarts, changes of the secret and of the expiry setting;
* svgd's HTTP server is one thread with a signal handler that closes the
  listener by its number; `recv` and `send` have no timeout there;
* `handler_process` has many early returns, each with something to free;
* an exporter may stop in the middle of its page, reset the connection, or send
  it in chunks;
* the user of the dashboard goes on while requests, timers and the loading of
  the page are under way, and responses are applied in the order they arrive.

`PROJECT.json` lists these at their lines, with the properties that cover them
or the reason why none does.

## 2. Modules

| Module | Models | Composition |
|---|---|---|
| `RrdCache` | `cache.c`, with a heap of `MetricData` cells | |
| `MetricSource` | workers from request to answer (RRD branch), start, stop | extends `RrdCache` |
| `TtlMap` | what `include/rrd/cache.h` promises | implemented by `MetricSource` |
| `StepSelection` | `select_optimal_step`, `select_step_from_rras` | |
| `JsContext` | `svg.c` | |
| `ProcCpu` | `read_cpu` | |
| `Datasources` | list, file, parser of the gate | |
| `Gate` | connection, routing, authentication | extends `Datasources` |
| `Config` | `cfg.c`, `path_util.c` as operators | |
| `Prometheus` | `prometheus_source_fetch` as operators, broken pages | |
| `HttpServer` | HTTP mode: loop, handler, sources' descriptors, signals | extends `Config`, `Prometheus` |
| `Dashboard` | `script.js` between its awaits, with storage and gate | |
| `MC...` | instances for TLC: requests, files, settings, symmetry | extend the above |
| `CountingLemmas` | induction over the positions of a list, values of a loop | |
| `MetricSourceProofs`, `JsContextProofs`, `ProcCpuProofs`, `StepSelectionProofs`, `GateProofs`, `HttpServerProofs`, `DashboardProofs` | theorems | each extends the module it is named after; those with loops (`StepSelection`, `Gate`, `HttpServer`) also `CountingLemmas` |

### RrdCache and MetricSource

`slots` is `cache_slots`, a sequence per chain; `Find` is the walk along a
chain, `Hit` the test of `rrd_cache_get`. `heap` maps addresses to contents or
`Free`; an allocation takes any free address, so reuse of a freed address is
included. A content is what answers can be told apart by: file, period,
transform, second of the read. Each cache function runs under `cache_mutex`
and is one step; between them a worker is at one of the points `get`, `read`,
`put`, `reget`, `render`, `fail`. `CloneFails` and `CachePutFails` are the
failing allocations inside the cache, `ReadFails` every NULL of
`rrd_fetch_data`. `build_cache_key` cuts the period off a key whose path fills
the 512 bytes; the hash is any function (a constant).

`Stop` is the end of `main` after the server has returned and assumes that the
LSRP server has joined its threads. `Start` is a new process: `leaked` and
`oom` begin again. The values of points, the width and height and the theme are
left out; no property here depends on them.

### JsContext

No lock protects the globals, so every access of `svg_init_cache` is a step:
test and open, `malloc` into the global pointer, `fread` through the global
pointer and length, check, discard. The terminating zero is written after the
`fread`, so evaluating a buffer that has not been read into, or only in part,
runs over memory nobody wrote. This, like touching a freed or NULL buffer, sets
`undefined`, and nothing is said of what follows (`AfterUndefined`). A heap that
cannot be created, or a script that does not evaluate, leaves the thread's slot
empty. `setting` is chosen at the start and fixed: whether `main` could
load the script, whether allocations and reads may fail later, who renders.

### ProcCpu

`stat` is `/proc/stat` (external): one jiffy per step, busy or idle, and busy
may fall back. `ReadStat` is outside the mutex, `Difference` inside. `covered`
is a history of the jiffies the computed differences extend over. The failing
reads of `/proc/stat` return before any state is touched and are left out, as
is `read_load`, which keeps no state.

### StepSelection

One behaviour is one call, one step one iteration of the loop. The window of
100 to 2400 points is a pair of constants. `step_rras` is the loop that collects
the archives from the keys of `rrd_info_r`. It closes an entry at every `cf`, and
librrd (external) lists the `cf` of an archive before its `pdp_per_row`: an entry
has the `cf` of one archive and the `pdp_per_row` of the archive before, the first
`cf` and the last `pdp_per_row` are dropped. `FirstPoints` is what `rrd_first_r`
may say, which is asked about `AVERAGE` entries only.

### Datasources and Gate

The file is modelled by what `load_datasources` can find in it; a write that
does not complete leaves one of its prefixes (`TornTexts`), in which the last
port may have lost digits. `ParsedEntry` is the substring search: an entry
whose name is spelled like a key is read differently. The search for the next
object is one for a `}` and a `{` behind it, in names and hosts too: `Braces`
gives the braces of each text, `Reopened` the places in an entry where an object
is taken to begin, `InName` and `InHost` what is read there (the name of the next
entry with this one's port), and `phantom` remembers that a load met one. A host
spelled like the key `"name"` is left out. `Exit` may happen at any
point and keeps only the file. A request has a method, a route, a name in its
path or query, a body, and a flag for a right password or a query that fits its
buffer. `ReceiveAll` ends the receive loop with the whole request,
`ReceivePart` with what has arrived when `recv` times out or the client
closes: nothing, no request line, headers without the token, or a part of the
body. `Handle` is one action per handler; the routing order of the loop is in
the guards. An answer that may be larger than the socket's buffer, or a call of
the LSRP client, can leave the thread `blocked` on its peer (`AnswerLarge`);
`Unblock` is the return of that call. `lsrp_client_send` is external:
unreachable, error or data. A token
is its secret and two times; base64 and HMAC are not modelled.
Assumptions: the port on the command line is in 1..65535, and an operator does
not list one name twice (`load_datasources` does not look for duplicates).

### Config, Prometheus and HttpServer

`Config` holds what `load_config` makes of a file, the lookup, and the buffer
arithmetic of `generate_metrics_json`; a path is a sequence of segments, so
that "prefix up to a slash" is a prefix of sequences and a trailing slash is an
empty last segment. `load_config` yields a set of arrays: the slot of an
element that is no object is never written, so it holds one of `Leftovers`. An
entry of the JSON may have any length: `json.over` records the first text that
was longer than what the buffer had left.
`Prometheus` has a page as lines of a name and a value. `http_get_body` does not
decode a chunked transfer, so the end of a chunk may cut a line: `Bodies` puts any
of its `Pieces` in its place, the rest of a line, which may parse as a sample of
another name, included. `Until` is a page that stops early. At most one piece of
a cut line is taken to match. That `next_line` splits lines longer than its buffer
of 1023 bytes is left out.

`HttpServer` is the thread from `main` to its exit. `pc` names the next system
call or phase; a call that may block has a second point (`accepting`,
`receiving`, `sending`) in which a signal interrupts it. `fds` gives each
descriptor number its owner, with reuse of the lowest free number, so that a
`close` by number can hit another owner (`stray`). `live` names the
allocations of the request, `leaked` what a finished request left. `Signal`
may happen between any two steps of the serving thread; `ExporterBreaksPipe`
is SIGPIPE, for which the same handler is installed. `FetchCached` stands for
the cache, whose inside is `MetricSource`; values, periods, sizes and the text
of answers are left out. `malloc` failing, `strdup` and `calloc` included
(`LookupLosesParam`), is a choice bounded by `MaxOom`. `Abort` ends the process: a
Grafana body that is `null`, or has `null` where a list or a target is expected,
throws out of an unprotected `duk_get_prop_string` (`handler.c:198`, 216, 227);
and the allocator may find a buffer that was overrun.

### Dashboard

A step is what JavaScript runs between two awaits. `runs` are the calls of
`updatePanel` and `updateAllPanels` at their await, oldest first; `old` marks
one whose element has been replaced since. `removals` and `delayed` are the
timers of `removePanel`, `stopResize` and `toggleFullscreen`. `Fresh` is a page
load: only localStorage survives. `seen` records the panels the user last had
for a datasource, `mixed` and `drifted` when the code is known to confuse them
(see the deviations). Panels are a set of ids, since no property depends on
their order. Restrictions: one request to the datasource API at a time, and the
last datasource is not deleted. `dragend` may or may not fire for an element
that has been replaced. The gate appears as its list and default, which change
as `Datasources` lets them.

## 3. Runs

"Bounds" says why the small numbers suffice.

| Run | Properties | Bounds |
|---|---|---|
| `cache` | `TypeOK`, `OwnedOnce`, `ChainsWellFormed`, `OnlyFailedPutsLeak`, `PutIsFound`, `TtlBoundsEntries`, `RepeatsAreServedFromCache` | Two workers, two keys in one chain, five cells (two entries, two workers, one leaked), time to live 1 and a clock to 2: every entry can expire and be replaced. The setting 0 stands for every value that is not positive. |
| `cache_map` | `ImplementsTtlMap`, `AnswersTheQuestion` | Two files, one with a cut key, two periods: three keys in two chains, one expiry. |
| `js` | `TypeOK`, `InitializedMeansLoaded`, `BuffersAccounted`, `RaceLeavesScript`, `ContextsHaveScript` | Three workers and a buffer for each; three settings. |
| `gate_list` | `ListWellFormed`, `DefaultResolves`, `FileHoldsList`, `CreatedIsListed` | A list of three holds a name with braces, the entry that follows it and the object met between them; an ordinary name, the default one and those spelled like keys; one port of two digits, which loses one, and one out of range. With and without failing and torn writes, one edit by hand. |
| `gate_auth` | `TypeOK`, `TokensExpire`, `ChangesNeedToken`, `EveryConnectionEnds` | All routes and methods; two secrets and none; lifetime 1 and three days, so that tokens expire and are then used; requests that stop arriving, clients that do not read. |
| `step` | `StepMeetsContract` | All files of up to four archives out of eight, and of five, one more than are looked at; a base step below, at and above the constant, a window of 3 to 5 points: archives below, in and above the window in every order, one too coarse to count. |
| `proc` | `TypeOK`, `JiffiesCovered` | Three workers, three jiffies, busy falling by one. |
| `http` | `TypeOK`, `NoDescriptorLeaks`, `OnlyOwnersClose`, `OnlyThemesLeak`, `AnswersItsPath`, `OnlyDeclaredMetrics`, `SeriesAreSamples`, `JsonFits`, `StopsWhenTold`, `ConnectionsEnd` | Eight configurations: two prefixes of one path in both orders, both live sources, entries without their fields, an element that is no object, no metrics. Three descriptors are the listener, a client and a source. Two signals are one more than the code handles well, one failing allocation reaches every error path. `MaxSeries` 2 on a page of four lines, two of them samples, of which chunks cut any two: three may then match. Entries of the JSON have 85 bytes, the 512 that are kept free, and 906 and 1900, as escaping makes them: the buffer grows, is overrun, or has just enough left. |
| `dash` | `TypeOK`, `ShowsActive`, `KeepsLayouts`, `GraphsCatchUp` | Two datasources, panels, periods and updates under way; any two actions of the user at any moment of the loading, with and without panels stored under the old key. Two are a change and a second one that races it; three (2.9 million states) hold as well. The page may stay closed, so deadlock is not checked. |
| `lost_fresh_data` | `OnlyOomLosesFreshData`, violated | |
| `js_race` | `NoBareContext`, violated | |
| `gate_stall` | `AddedAsSent`, violated | |

Every action of every next-state relation is taken in some passing run, and
each property of a passing run is broken by a change of the code it is about
(the operators marked "Mutant", paired with their runs in `PROJECT.json`).

### Fairness

`Gate!FairSpec` is weak fairness of `ReceivePart` and `Handle`:
`recv` has a timeout of `CLIENT_RECV_TIMEOUT_SEC` seconds and the buffer has an
end, so the receive loop ends whatever the client does, and a handler runs to
its answer. `SO_RCVTIMEO` is the only timeout that is set (`gate/main.c:960`): a
`send` to a client that does not read, and `lsrp_client_send`, may block for ever.
Nothing is assumed of `Unblock`; `EveryConnectionEnds` has the premise
`[]<>(conn.at # "blocked")`.

`HttpServer!Spec` is weak fairness of `Thread`, the steps of the one thread
that need nobody else: `accept` returning, a client sending or reading are not
in it, and both temporal properties assume `[]<>~WaitsForClient`, that no client
holds the thread for ever. An exporter needs no such condition, since its
socket has a receive timeout of 5 s and its page a limit of 8 MB. The calls of
rrdcached's client (`reader.c:163-178`) have no timeout that the code shows; that
they return is assumed.

`Dashboard!Spec` is weak fairness of `Browser` (timers fire, requests of the
page and of the API are answered), of `Tick`, and of the oldest `Response`.
`fetchWithAuth` aborts a request whose headers have not arrived after ten seconds,
but clears that timer once they have (`auth.js:109-111`): that the body then
arrives or fails is assumed.
The user and the arrival of the other responses are not fair.

### What the violations show

* `lost_fresh_data`: the file was read, the entry is put, the second ends and
  with it the time to live, the second `rrd_cache_get` finds nothing, the
  client gets an error. The comment names only a failed clone. `PutIsFound` is
  the part that holds: nothing else can lose the entry.
* `js_race`: a worker that has finished reading sets the flag after another
  worker has stored its own unread buffer in `js_cache`; a context made now is
  empty and stays so for the life of the thread.
* `gate_stall`: a POST that stops inside its port number adds an entry with
  the digits that have arrived.

### Known deviations

Met while modelling; the passing properties are stated up to them.

* Two metrics on one file with and without `"sum"` share a cache entry, since
  the transform is applied before the put and is not part of the key
  (`metric_source.c:41`); `AnswersTheQuestion` speaks of the metrics of a file.
* A port above 65535 is refused by `add_datasource` and answered 201
  (`gate/main.c:363`); excepted in `CreatedIsListed`.
* An entry named like a JSON key is written but read back differently
  (`gate/main.c:131`); excepted in `FileHoldsList`.
* A name or a host with a `{` behind a `}` makes `load_datasources` meet an object
  inside the entry (`gate/main.c:158`), which has the name of the next entry: after
  a restart that name is listed twice. Excepted in `FileHoldsList`, and through
  `phantom` in `ListWellFormed` and `DefaultResolves`.
* A client that does not read its answer holds the gate's only thread in `send`
  (`gate/main.c:527`); premise of `EveryConnectionEnds`.
* A metric path with a dot behind its last slash is taken for a static file
  (`gate/main.c:564`).
* A Grafana query on a thread before the script is loaded leaves it with a
  context without the script (`svg.c:41`); `ContextsHaveScript` requires the
  script at startup.
* `select_optimal_step` passes the constant 15 as `base_step`, not the step it
  has read from the file (`reader.c:146`), although `reader.h:57` describes the
  parameter as the base step of the RRD; archives with a smaller step are
  considered only as a last resort, also when they are inside the window. An
  array without `AVERAGE` entries gives the constant too. Both are excepted in
  `StepMeetsContract`, which otherwise takes the base step to be the RRD's.
* The array of archives pairs the `cf` of one with the `pdp_per_row` of the one
  before (`reader.c:98`). `StepMeetsContract` is about the array that is built,
  whatever its relation to the file.
* A delayed sample of `/proc/stat` replaces a newer one: it reports 0 % and the
  next call counts those jiffies twice (`proc_source.c:130`).
  `JiffiesCovered` is what remains: none is lost.
* Live sources do not go through the cache (`metric_source.c:65`), although
  the comments there and in `proc_source.c` say that bursts are joined by it.
* `docs/configuration.md:233` allows edits of `datasources.json` at runtime; the
  next change over the API writes the list in memory over them
  (`gate/main.c:239`).
* A `config.json` that is not JSON throws out of the unprotected
  `duk_json_decode` and aborts (`cfg.c:173`), although the next lines expect an
  error value; an element of `metrics` that is no object leaves its slot of the
  array unwritten (`cfg.c:232`), excepted in `OnlyDeclaredMetrics`.
* After the first signal the number of the listener is free and may be taken by
  a file or an exporter's socket; a second signal, or the close at the end,
  closes that number again (`main.c:60`, `main.c:164`). `OnlyOwnersClose` is for
  one signal, where the close at the end finds nothing of anybody's.
* An exporter that resets the connection before the request is written raises
  SIGPIPE, and the handler stops the server (`prometheus_source.c:193`).
* A page that stops early or comes in chunks is parsed as if it were whole
  (`prometheus_source.c:210`): each cut line can lose its value, give a wrong one,
  or give a value to another metric. `SeriesAreSamples` is what holds of the lines
  that are not cut.
* `generate_metrics_json` compares what is left of its buffer with 512 after an
  entry is written (`cfg.c:349`), and escaping makes entries of up to about 1980
  bytes: a longer one may run past the buffer. `JsonFits` says that nothing else
  does.
* A Grafana query whose body is `null`, or `{"targets":[null]}`, ends the process
  (`handler.c:198`).
* Early returns of `handler_process` leave the copy of `?theme=` allocated
  (`handler.c:427`); excepted in `OnlyThemesLeak`.
* A Grafana target that needs a parameter and has none is fetched without it
  (`handler.c:260`).
* Dashboard: deleting the active datasource, or a new default when the user
  never chose, changes the active one without rendering, and the panels on
  display are then saved for it (`script.js:279`); a removal fires for the
  datasource that is active 300 ms later (`script.js:823`); a select while the
  page loads stores the panels that are not loaded yet (`script.js:462`). The
  histories `drifted` and `mixed` except these. `addPanel` does not save
  (`script.js:845`), so a reload before the next save loses the panel.
* Dashboard, seen and not modelled: the refresh interval "Off" is not kept over
  a reload, and metric lists asked for two datasources may arrive in the other
  order (`script.js:190`).

## 4. Proofs

Every invariant and action property of the passing runs is also a theorem,
`Spec => []P` or `Spec => P`, proved for all values of the constants, and so is
the refinement of `TtlMap`. TLC checks the same definitions on the small
instances of section 3, and it has checked the inductive invariants below before
they were proved. "For all values" means: any number of workers, slots, cells,
buffers, metrics, archives, descriptors, panels and requests, any hash function,
any texts, any bound on clocks, failures, signals and edits. What the constants
are assumed to satisfy is in the `ASSUME`s; besides types they say:

| Assumption | Beyond types |
|---|---|
| `CacheAssumption`, `SourceAssumption` | the default time to live is positive |
| `NullAssumption`, `ViewAssumption` | NULL is no object, key, content or map entry |
| `JsAssumption` | finitely many worker threads |
| `SourcesAssumption` | the port on the command line is valid, there is room for one datasource |
| `GateAssumption` | a file edited by hand lists no name twice and its default is one of the entries that are read |
| `StepAssumption` | steps and periods are positive, the window is not empty |
| `JsonAssumption` | the buffer of the metrics JSON begins with more than its head and the room kept for an entry; the closing brackets fit that room; entries may be of any length |
| `PageAssumption` | MAX_SERIES is positive |
| `ServerAssumption` | three descriptors; the directory of the RRD files is not itself an RRD file |
| `DashboardAssumption` | the default datasource exists |

### Cache and request handling (`MetricSourceProofs`)

`CacheInv == TypeOK /\ ChainsWellFormed /\ OwnedOnce /\ ControlInv` is inductive
(`CacheInvariant`), and `TypeCorrect`, `Ownership` and `Chains` follow. None of
the parts is inductive alone. That a put does not give one object two owners
needs the control state (a worker at `put` has an object, no other worker has
it); that the replaced object is not in use needs ownership; that the replaced
entry is the only one with its key needs the shape of the chains, which in turn
needs that `Find` returns 0 only if no entry has the key (`FindLemma`). There is
one lemma per action; `CachePutStep` is the long one, with a case for
replacing and one for appending.

`ContentInv` is inductive on top of it and is about what the objects hold: no
content is of the future, entries and workers hold what fits their key, entries
live as long as the time to live says, an object without an owner is in
`leaked`, a worker behind its put finds the key. `NothingElseLeaks`,
`PutsAreFound`, `TtlRespected` and `RightAnswer` are its parts;
`RepeatsServed` is the action property, from `Hit` and the chains.

`Refinement` maps the hash table to the map: a key to the content of the entry
`Find` returns, a caller to the key it asked for and the copy it was given.
`rrd_cache_get` is `Get`, or a hidden step when it returns nothing,
`rrd_cache_put` is `Put`, requests and answers are `Ask` and `Leave`, start and stop
`Boot` and `Clear`. It needs `CacheInv` (a put of one key leaves the view
of all others alone) and `CacheUsers` (who bypasses the cache is never at a
cache call).

### JavaScript contexts (`JsContextProofs`)

`JsInv` has a part for each regime the properties speak of: a script loaded at
startup (`EarlyInv`: nobody ever gets into the loading code), one loader
(`LoaderInv`: pointer, length and content of the buffer at each of its points),
and several loaders without failures (`RaceInv`: the pointer names an allocated
buffer whenever anybody reads through it, nobody reaches the clean-up that frees
it, and a thread that has read has left the script in the buffer of that moment).
`RaceEndsLoaded` follows: text that is not the script is under the flag only while
somebody has yet to read. That one loader excludes two threads in the loading code is the only
place where the number of threads matters (`SingleRenderer`, a cardinality
argument).

### Live CPU source (`ProcCpuProofs`)

`TypeCorrect` bounds every reported value by 0 and 100 (`UtilizationInRange`,
integer division of the clamped differences), for counters that fall back and
samples that come late; `Coverage` proves `JiffiesCovered` from the
strengthening that before the first stored sample `prev.total` is 0, so that
every difference begins where the stored sample ends.

### Choice of the step (`StepSelectionProofs`)

`ScanInv` says of the loop that what it remembers is the best of the archives it
has passed (`BestSoFar`): none of them in the window, the most points, and the
smallest step when there are too many points. That more points means a smaller
step is `num_points` being monotonic, from facts about integer division.
That the constant the code compares with lets the same entries pass as the RRD's
base step does, unless that is smaller, is `UsableLemma`.

### Gate (`GateProofs`)

`GateInv == ListInv /\ AuthInv /\ LoopInv /\ CreatedIsListed`. The list stays
well-formed only because the file does: it has no duplicates either, unless a load
met an object inside another (`phantom`), and (without faults) its default is among the entries a start will read (`FileDefault`).
A write that is cut short leaves a prefix, and a prefix has no duplicates
(`SaveLemma`). What `load_datasources` makes of a file is a loop over its
entries, with the invariant in `ParsedLemma`. `TokensEnd` follows from the
bound on the expiry setting at the time a token is issued. `NothingWithoutToken`
goes through all handlers: those before the token check neither write the list
nor contact a backend.

### HTTP server (`HttpServerProofs`)

`ServerInv` is `FdInv`, who has which descriptor at each stage of the loop,
together with the configuration as loaded (`ConfInv`), the request (`ReqInv`),
its memory (`MemInv`), its metric (`PathInv`) and the JSON buffer (`JsonInv`).
`FdInv` needs that the server runs exactly while no signal has come, and that a
source may have got the listener's number after a signal: then a second signal
takes it away, which is why `OnlyOwnersClose` ends at one. `MemInv` needs that
an allocation named `data` goes with data in hand, and that nobody handles a
request whose client has not sent. `JsonInv` says that as long as every text has
fitted there is room for `JsonRoom` bytes more, and that a text that did not fit
was longer (`EntryLemma`, over the growth of the buffer and its failure).

`FoundLemma` is about `find_metric_config` for any array and path: the index it
returns is 0 or the best match; its second pass is a loop, with
`LongestOf` as invariant. `DeclaredAnswer` comes from it and from what
`load_config` leaves in a slot. `SamplesServed` has its own invariant
(`SeriesInv`). `SeriesLemma` says which lines the loop of
`prometheus_source_fetch` takes, `BodyLemma` that all lines of a body but those
that were cut are lines of the page or do not parse, for any number of cuts.

### Dashboard (`DashboardProofs`)

`DashInv` is the state of the page (`PageInv`), what is on display (`ViewInv`)
and the layouts (`KeepInv`). `ShowsActive` needs that every update under way
whose element is still there was asked for the active datasource; switching
keeps this by replacing the elements, so the updates become `old`. `KeepsLayouts` needs
a clause for the loading page: until the gate has named its default, and if the
user never chose, the layout of the active datasource is kept too, because the
default may replace it without a save.

### Loops

The provers have no induction rule, and the library's cannot be instantiated.
`CountingLemmas` gets induction over list positions out of the well-foundedness
of the natural numbers: a non-empty set of numbers has a least one, so a set that
contains 0 and the successors of its elements contains all (`CountUp`), and a loop
whose rounds stay in a set has values (`LoopValues`). With these, what a
recursive function over the positions of a list computes is proved as a lemma
with a loop invariant.

### Checked by TLC only

* The liveness properties `EveryConnectionEnds`, `StopsWhenTold`, `ConnectionsEnd`
  and `GraphsCatchUp`: fairness and `ENABLED` are out of the prover's reach.
* The three violations, which are counterexamples.

## 5. Not modelled

* LSRP and the collector: submodules that are not part of the tree. `main`'s
  LSRP mode appears as the workers of `MetricSource`.
* `generate_svg.js`, markup, the login page, packaging, examples, load tests:
  formatting and data.
* Of the dashboard: themes, exports, snapshots, the search box and the list of
  metrics, which do not touch panels, datasources or graphs.
* Of the reader: the values it fetches, which are librrd's.
* Growth of the cache: expired entries stay until the process ends; noted as a
  hazard.

## 6. Plan

1. `RrdCache`, `MetricSource`, `TtlMap` and their invariant - done.
2. `JsContext`, `ProcCpu`, `StepSelection` - done.
3. `Datasources`, `Gate` - done.
4. `Config`, `Prometheus`, `HttpServer` - done.
5. `Dashboard` - done.
6. Proofs of all invariants and action properties, and of the refinement - done.
7. Left: the growth of the cache, noted as a hazard without a property; facts
   about the loops of the models that no property needs yet.
