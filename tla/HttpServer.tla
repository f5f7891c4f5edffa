----------------------------- MODULE HttpServer -----------------------------
(***************************************************************************)
(* svgd in HTTP mode (src/src/main.c, run_http_server; src/src/http.c;     *)
(* src/src/handler.c): one thread accepts a connection, receives once,     *)
(* answers and closes.  SIGINT, SIGTERM and SIGPIPE run                    *)
(* http_signal_handler between any two of its steps and interrupt the call *)
(* it blocks in.  Descriptors are numbers that are reused; allocations of  *)
(* a request are names in `live'.  The RRD cache behind metric_source_fetch*)
(* is module MetricSource and appears here as "may answer without a read". *)
(***************************************************************************)
EXTENDS Config, Prometheus

CONSTANTS
    Files,       \* the config.json files a server may be started with
    Requests,    \* what clients send
    RrdFiles,    \* the RRD files that exist, as build_rrd_path names them
    Descriptors, \* the descriptors above stdio
    MaxSignals,  \* bound on the signals in the life of a process
    MaxOom       \* bound on the allocations that fail

\* There is room for the listener, a connection and what it reads from; the
\* directory of the RRD files, which an empty rrd_path names, is no RRD file.
ASSUME ServerAssumption ==
    /\ Descriptors \subseteq Nat
    /\ \E a, b, c \in Descriptors : a # b /\ b # c /\ a # c
    /\ MaxSignals \in Nat
    /\ MaxOom \in Nat
    /\ \A f \in Files : f.metrics = NotArray \/ f.metrics \in Seq(Texts \cup {NotObject})
    /\ \A r \in Requests : r.path \in Seq(Strings) /\ r.targets \in Seq(Seq(Strings))
    /\ \A f \in RrdFiles : f[1] # ""

VARIABLES
    pc,           \* where the thread is
    file,         \* the config.json it was started with
    metrics,      \* config.metrics
    running,      \* the flag of the loop
    signals,      \* signals delivered so far
    fds,          \* who has each descriptor: "free", "listen", "client", "source"
    client_sock,  \* the local of run_http_server
    sock,         \* the descriptor of a file or exporter being read
    client,       \* the peer: "none", "silent", "sent" or "gone"
    req,          \* the request it sent
    metric,       \* the metric being fetched, an index of metrics
    rest,         \* grafana_query: targets not yet fetched
    data,         \* MetricData of the fetch: what it was made of
    json,         \* generate_metrics_json: its buffer, and entries to come
    answer,       \* what is sent: "none", "error", "svg", "json"
    live,         \* allocations of the request
    leaked,       \* history: allocations a finished request left behind
    stray,        \* history: a close took a descriptor of another owner
    oom           \* allocations that failed so far

sockVars == <<fds, client_sock, sock, stray>>
workVars == <<metric, rest, data, json, answer>>
memVars  == <<live, leaked, oom>>
vars == <<pc, file, metrics, running, signals, client, req, sockVars, workVars, memVars>>

\* A request: `line' says whether one recv delivered the request line and
\* http_parse_request can split it; `body' what a _grafana/query carries:
\* "none", "bad" JSON, "null" where an object is expected, or its targets.
NoRequest ==
    [method |-> "", path |-> <<>>, line |-> "torn", theme |-> FALSE, body |-> "none", targets |-> <<>>]
NoData == [source |-> "none"]
NoJson == [off |-> 0, size |-> 0, left |-> 0, over |-> 0]
Allocations == {"theme", "param", "data", "targets", "out", "json", "result"}
Blocked == {"accepting", "receiving", "sending"}
Serving ==
    {"test", "accept", "recv", "handle", "config", "targets", "fetch", "read", "ask",
     "fetched", "send", "close"} \cup Blocked

TypeOK ==
    /\ pc \in Serving \cup {"boot", "aborted", "exited"}
    /\ \A i \in DOMAIN metrics : metrics[i].source \in {"rrd", "proc", "prometheus"}
    /\ running \in BOOLEAN
    /\ signals \in 0..MaxSignals
    /\ fds \in [Descriptors -> {"free", "listen", "client", "source"}]
    /\ {client_sock, sock} \subseteq Descriptors \cup {-1}
    /\ metric \in 0..Len(metrics)
    /\ answer \in {"none", "error", "svg", "json"}
    /\ live \subseteq Allocations
    /\ leaked \subseteq Allocations
    /\ stray \in BOOLEAN
    /\ oom \in 0..MaxOom

Init ==
    /\ pc = "boot"
    /\ file = [text |-> "missing", metrics |-> NotArray]
    /\ metrics = <<>>
    /\ running = TRUE
    /\ signals = 0
    /\ fds = [d \in Descriptors |-> "free"]
    /\ client_sock = -1
    /\ sock = -1
    /\ client = "none"
    /\ req = NoRequest
    /\ metric = 0
    /\ rest = <<>>
    /\ data = NoData
    /\ json = NoJson
    /\ answer = "none"
    /\ live = {}
    /\ leaked = {}
    /\ stray = FALSE
    /\ oom = 0

----------------------------------------------------------------------------
\* The kernel: the lowest free descriptor is taken, close frees a number
\* whoever has it and fails silently if nobody has.
LowestFree == Min({d \in Descriptors : fds[d] = "free"})
server_sock == Min(Descriptors)

Open(owner) == fds' = [fds EXCEPT ![LowestFree] = owner]

Close(d, owner) ==
    /\ fds' = [fds EXCEPT ![d] = "free"]
    /\ stray' = (stray \/ fds[d] \notin {"free", owner})

\* An allocation may fail.
OutOfMemory == oom < MaxOom /\ oom' = oom + 1

----------------------------------------------------------------------------
\* main: load the configuration and listen.  A text that is not JSON throws
\* out of the unprotected duk_json_decode and aborts; no metrics, or a port
\* that is taken, end the program.
Boot(f) ==
    /\ pc = "boot"
    /\ file' = f
    /\ \/ /\ f.text = "broken"
          /\ pc' = "aborted"
          /\ UNCHANGED <<metrics, fds>>
       \/ /\ f.text # "broken"
          /\ metrics' \in load_config(f)
          /\ \/ /\ metrics' # <<>>
                /\ pc' = "test"
                /\ Open("listen")
             \/ pc' = "exited" /\ UNCHANGED fds
    /\ UNCHANGED <<running, signals, client, req, client_sock, sock, stray, workVars, memVars>>

\* run_http_server: the test of the loop, and the end behind it, where main
\* frees the configuration.
Test ==
    /\ pc = "test"
    /\ IF running
       THEN pc' = "accept" /\ UNCHANGED <<metrics, fds, stray>>
       ELSE pc' = "exited" /\ Close(server_sock, "listen") /\ metrics' = <<>>
    /\ UNCHANGED <<file, running, signals, client, req, client_sock, sock, workVars, memVars>>

\* accept has no connection to return and waits.
AcceptWaits ==
    /\ pc = "accept"
    /\ fds[server_sock] = "listen"
    /\ pc' = "accepting"
    /\ UNCHANGED <<file, metrics, running, signals, client, req, sockVars, workVars, memVars>>

\* accept fails: the listener is closed, or the connection was reset.
AcceptFails ==
    /\ pc = "accept"
    /\ pc' = "test"
    /\ UNCHANGED <<file, metrics, running, signals, client, req, sockVars, workVars, memVars>>

\* A client connects.
Accept ==
    /\ pc \in {"accept", "accepting"}
    /\ fds[server_sock] = "listen"
    /\ Open("client")
    /\ client_sock' = LowestFree
    /\ client' = "silent"
    /\ pc' = "recv"
    /\ UNCHANGED <<file, metrics, running, signals, req, sock, stray, workVars, memVars>>

\* The client sends its request, or closes its end.
ClientSends(r) ==
    /\ client = "silent"
    /\ client' = "sent"
    /\ req' = r
    /\ UNCHANGED <<pc, file, metrics, running, signals, sockVars, workVars, memVars>>

ClientCloses ==
    /\ client \in {"silent", "sent"}
    /\ client' = "gone"
    /\ req' = IF client = "silent" THEN NoRequest ELSE req
    /\ UNCHANGED <<pc, file, metrics, running, signals, sockVars, workVars, memVars>>

\* recv finds nothing and waits, without a timeout.
RecvWaits ==
    /\ pc = "recv"
    /\ client = "silent"
    /\ pc' = "receiving"
    /\ UNCHANGED <<file, metrics, running, signals, client, req, sockVars, workVars, memVars>>

\* Mutant: a connection without a request is not closed.
AfterRecvSkips(r) ==
    CASE r = NoRequest -> "test"
      [] r # NoRequest /\ r.method = "OPTIONS" -> "close"
      [] r # NoRequest /\ r.method # "OPTIONS" /\ r.line # "whole" -> "send"
      [] OTHER -> "handle"

\* What follows recv: nothing came; a preflight, answered whatever else the
\* line holds; a line without its end or too long, answered with 400.
AfterRecv(r) ==
    CASE r = NoRequest -> "close"
      [] r # NoRequest /\ r.method = "OPTIONS" -> "close"
      [] r # NoRequest /\ r.method # "OPTIONS" /\ r.line # "whole" -> "send"
      [] OTHER -> "handle"

\* recv returns what the client has sent, or the end of the stream.
Recv ==
    /\ pc \in {"recv", "receiving"}
    /\ client # "silent"
    /\ pc' = AfterRecv(req)
    /\ answer' = IF pc' = "send" THEN "error" ELSE "none"
    /\ UNCHANGED <<file, metrics, running, signals, client, req, sockVars, metric, rest,
                   data, json, memVars>>

----------------------------------------------------------------------------
\* handler_process.  Its early returns are errors; the copy of the theme
\* parameter, made at its beginning, is freed only behind the rendering.
Grafana == req.path = <<"_grafana", "query">>

Themed == IF req.theme THEN live \cup {"theme"} ELSE live

Finish(kind, allocations) ==
    /\ pc' = "send"
    /\ answer' = kind
    /\ live' = allocations \cup {"result"}

Here == <<file, metrics, running, signals, client, req, leaked>>

\* _config/metrics: malloc of the buffer, then one entry per metric.
ConfigStart ==
    /\ pc = "handle"
    /\ req.path = <<"_config", "metrics">>
    /\ \/ /\ pc' = "config"
          /\ json' = JsonStart(Len(metrics))
          /\ live' = Themed \cup {"json"}
          /\ UNCHANGED <<answer, oom>>
       \/ OutOfMemory /\ Finish("error", Themed) /\ UNCHANGED json
    /\ UNCHANGED <<Here, sockVars, metric, rest, data>>

\* An entry, and the realloc behind it when the next may not fit.
ConfigEntry(len) ==
    /\ pc = "config"
    /\ json.left > 0
    /\ \/ /\ json' = JsonEntry(json, len)
          /\ UNCHANGED <<pc, answer, live, oom>>
       \/ /\ JsonGrows(JsonWrite(json, len))
          /\ OutOfMemory
          /\ json' = JsonWrite(json, len)
          /\ Finish("error", live \ {"json"})
    /\ UNCHANGED <<Here, sockVars, metric, rest, data>>

\* The end of the list, and the result that takes the text over.
ConfigEnd ==
    /\ pc = "config"
    /\ json.left = 0
    /\ json' = JsonEnd(json)
    /\ \/ Finish("json", live \ {"json"}) /\ UNCHANGED oom
       \/ OutOfMemory /\ Finish("error", live \ {"json"})
    /\ UNCHANGED <<Here, sockVars, metric, rest, data>>

\* _grafana/search: the endpoints as JSON.
GrafanaSearch ==
    /\ pc = "handle"
    /\ req.path = <<"_grafana", "search">>
    /\ \/ Finish("json", Themed) /\ UNCHANGED oom
       \/ OutOfMemory /\ Finish("error", Themed)
    /\ UNCHANGED <<Here, sockVars, metric, rest, data, json>>

\* grafana_query: its body is missing or no JSON, or the thread has no
\* JavaScript context or no memory for the answer.
GrafanaRefused ==
    /\ pc = "handle"
    /\ Grafana
    /\ Finish("error", Themed)
    /\ \/ req.body \in {"none", "bad"} /\ UNCHANGED oom
       \/ OutOfMemory
    /\ UNCHANGED <<Here, sockVars, metric, rest, data, json>>

\* grafana_query: the targets are copied out of the body; without memory for
\* their array the answer is made of none.
GrafanaQuery ==
    /\ pc = "handle"
    /\ Grafana
    /\ req.body = "targets"
    /\ pc' = "targets"
    /\ \/ rest' = req.targets /\ live' = Themed \cup {"targets", "out"} /\ UNCHANGED oom
       \/ rest' = <<>> /\ live' = Themed \cup {"out"} /\ OutOfMemory
    /\ UNCHANGED <<Here, sockVars, metric, data, json, answer>>

\* The process dies and the kernel closes what it had open: grafana_query reads
\* a property of null outside of a protected call (a body null, or null among
\* its targets), or the allocator finds what was written behind a buffer.
Abort ==
    /\ \/ pc = "handle" /\ Grafana /\ req.body = "null"
       \/ pc \in {"config", "send", "close"} /\ json.over # 0
    /\ pc' = "aborted"
    /\ fds' = [d \in Descriptors |-> "free"]
    /\ client' = "none"
    /\ UNCHANGED <<file, metrics, running, signals, req, client_sock, sock, stray, workVars, memVars>>

\* Mutant: a target without a metric is looked up again.
NextTargetSame(targets) == targets

\* grafana_query: behind a target without a metric.
NextTarget(targets) == Tail(targets)

\* grafana_query: the next target; one without a metric is passed over, one
\* that requires a parameter and has none is fetched all the same.
GrafanaTarget ==
    /\ pc = "targets"
    /\ rest # <<>>
    /\ metric' = find_metric_config(metrics, Head(rest))
    /\ IF metric' = 0
       THEN rest' = NextTarget(rest) /\ UNCHANGED <<pc, live>>
       ELSE /\ pc' = "fetch"
            /\ live' = IF /\ metrics[metric'].requires_param
                          /\ extract_param_from_path(Head(rest), metrics[metric'].endpoint) # <<>>
                       THEN live \cup {"param"} ELSE live
            /\ UNCHANGED rest
    /\ UNCHANGED <<Here, sockVars, data, json, answer, oom>>

\* grafana_query: the copy of a target failed, and NULL has no metric; or the
\* copy of its parameter did, and a template without one names no file.
GrafanaLosesTarget ==
    /\ pc = "targets"
    /\ rest # <<>>
    /\ OutOfMemory
    /\ rest' = Tail(rest)
    /\ UNCHANGED <<pc, Here, sockVars, metric, data, json, answer, live>>

\* grafana_query: the series are appended to the answer, if there is memory.
GrafanaAppend ==
    /\ pc = "fetched"
    /\ Grafana
    /\ data' = NoData
    /\ \/ /\ pc' = "targets"
          /\ rest' = Tail(rest)
          /\ live' = live \ {"data"}
          /\ UNCHANGED <<answer, oom>>
       \/ /\ data # NoData
          /\ OutOfMemory
          /\ Finish("error", live \ {"data", "targets", "out"})
          /\ UNCHANGED rest
    /\ UNCHANGED <<Here, sockVars, metric, json>>

\* grafana_query: the answer is complete.
GrafanaEnd ==
    /\ pc = "targets"
    /\ rest = <<>>
    /\ \/ Finish("json", live \ {"targets", "out"}) /\ UNCHANGED oom
       \/ OutOfMemory /\ Finish("error", live \ {"targets", "out"})
    /\ UNCHANGED <<Here, sockVars, metric, rest, data, json>>

\* Any other path: the metric it names, and its parameter.
Other ==
    pc = "handle" /\ ~Grafana /\ req.path \notin {<<"_config", "metrics">>, <<"_grafana", "search">>}

Lookup ==
    /\ Other
    /\ metric' = find_metric_config(metrics, req.path)
    /\ IF metric' = 0
       THEN Finish("error", Themed)
       ELSE IF ~metrics[metric'].requires_param
       THEN pc' = "fetch" /\ live' = Themed /\ UNCHANGED answer
       ELSE IF extract_param_from_path(req.path, metrics[metric'].endpoint) = <<>>
       THEN Finish("error", Themed)
       ELSE pc' = "fetch" /\ live' = Themed \cup {"param"} /\ UNCHANGED answer
    /\ UNCHANGED <<Here, sockVars, rest, data, json, oom>>

\* The copy of the parameter failed: an error like a missing one.
LookupLosesParam ==
    /\ Other
    /\ metric' = find_metric_config(metrics, req.path)
    /\ metric' # 0 /\ metrics[metric'].requires_param
    /\ OutOfMemory
    /\ Finish("error", Themed)
    /\ UNCHANGED <<Here, sockVars, rest, data, json>>

----------------------------------------------------------------------------
\* metric_source_fetch.  `param' is the caller's copy of the parameter.
Path == IF Grafana THEN Head(rest) ELSE req.path
Param ==
    IF metrics[metric].requires_param
    THEN extract_param_from_path(Path, metrics[metric].endpoint) ELSE <<>>
RrdFile == build_rrd_path(metrics[metric].rrd_path, Param)

\* Mutant: the parameter is not freed.
FetchedKeepsParam(result) ==
    /\ pc' = "fetched"
    /\ data' = result
    /\ live' = live \cup (IF result = NoData THEN {} ELSE {"data"})

\* The source returns; its caller frees the parameter.
Fetched(result) ==
    /\ pc' = "fetched"
    /\ data' = result
    /\ live' = (live \ {"param"}) \cup (IF result = NoData THEN {} ELSE {"data"})

\* SRC_RRD with use_cache: rrd_cache_get has the data of this file.
FetchCached ==
    /\ pc = "fetch"
    /\ ~Grafana
    /\ metrics[metric].source = "rrd"
    /\ RrdFile \in RrdFiles
    /\ Fetched([source |-> "rrd", of |-> RrdFile])
    /\ UNCHANGED <<Here, sockVars, metric, rest, json, answer, oom>>

\* What opens: an RRD file that exists, /proc/stat or /proc/loadavg, or a
\* connection to the exporter of an http:// URL.
Opens ==
    CASE metrics[metric].source = "rrd" -> RrdFile \in RrdFiles
      [] metrics[metric].source = "proc" -> metrics[metric].spec \in {"cpu", "load"}
      [] metrics[metric].source = "prometheus" -> metrics[metric].spec = "http"

\* The source cannot be opened, resolved or connected.
FetchFails ==
    /\ pc = "fetch"
    /\ Fetched(NoData)
    /\ UNCHANGED <<Here, sockVars, metric, rest, json, answer, oom>>

FetchOpens ==
    /\ pc = "fetch"
    /\ Opens
    /\ Open("source")
    /\ sock' = LowestFree
    /\ pc' = IF metrics[metric].source = "prometheus" THEN "ask" ELSE "read"
    /\ UNCHANGED <<Here, client_sock, stray, workVars, live, oom>>

\* The file is read and closed, or reading fails; it does fail if the
\* descriptor is gone.
ReadFile ==
    /\ pc = "read"
    /\ \/ /\ fds[sock] = "source"
          /\ Fetched([source |-> metrics[metric].source,
                      of |-> IF metrics[metric].source = "rrd" THEN RrdFile
                             ELSE <<metrics[metric].spec, <<>> >>])
       \/ Fetched(NoData)
    /\ Close(sock, "source")
    /\ sock' = -1
    /\ UNCHANGED <<Here, client_sock, metric, rest, json, answer, oom>>

\* What prometheus_source_fetch makes of a body; NULL without series.
OfPage(page, body, cut) ==
    LET series == Series(body, metrics[metric].endpoint)
    IN  IF series = <<>> THEN NoData
        ELSE [source |-> "prometheus", page |-> page, cut |-> cut, series |-> series]

\* http_get_body: the request is sent and the answer received until the
\* exporter closes, as lines or in chunks.
ExporterAnswers(page) ==
    /\ pc = "ask"
    /\ fds[sock] = "source"
    /\ \E cut \in Cuts(page) : \E body \in Bodies(page, cut) : Fetched(OfPage(page, body, cut))
    /\ Close(sock, "source")
    /\ sock' = -1
    /\ UNCHANGED <<Here, client_sock, metric, rest, json, answer, oom>>

\* http_get_body: the loop ends early, without the end of the headers or with
\* the beginning of the page; or there is no memory for it.
ExporterStalls(page) ==
    /\ pc = "ask"
    /\ \/ Fetched(NoData)
       \/ \E n \in DOMAIN page : \E cut \in Cuts(SubSeq(page, 1, n - 1)) :
              \E body \in Bodies(page, cut \cup {n}) :
                 Fetched(OfPage(page, Until(body, n), cut \cup (n..Len(page))))
    /\ Close(sock, "source")
    /\ sock' = -1
    /\ UNCHANGED <<Here, client_sock, metric, rest, json, answer, oom>>

----------------------------------------------------------------------------
\* handler_process: no data, or no picture of it, is an error.
NoPicture ==
    /\ pc = "fetched"
    /\ ~Grafana
    /\ data = NoData
    /\ Finish("error", live)
    /\ UNCHANGED <<Here, sockVars, metric, rest, data, json, oom>>

Render ==
    /\ pc = "fetched"
    /\ ~Grafana
    /\ data # NoData
    /\ data' = NoData
    /\ \/ Finish("svg", live \ {"data", "theme"}) /\ UNCHANGED oom
       \/ OutOfMemory /\ Finish("error", live \ {"data", "theme"})
    /\ UNCHANGED <<Here, sockVars, metric, rest, json>>

\* http_send_response, http_send_error: one send, whose result is ignored.
Send ==
    /\ pc = "send"
    /\ pc' = "close"
    /\ UNCHANGED <<Here, sockVars, workVars, live, oom>>

\* The client does not read, and the answer is larger than the socket buffer.
SendWaits ==
    /\ pc = "send"
    /\ answer \in {"svg", "json"}
    /\ client = "sent"
    /\ pc' = "sending"
    /\ UNCHANGED <<Here, sockVars, workVars, live, oom>>

\* The client reads after all, or has closed.
SendEnds ==
    /\ pc = "sending"
    /\ pc' = "close"
    /\ UNCHANGED <<Here, sockVars, workVars, live, oom>>

\* The end of the loop's body: handler_result_free and close.
CloseClient ==
    /\ pc = "close"
    /\ Close(client_sock, "client")
    /\ client_sock' = -1
    /\ client' = "none"
    /\ req' = NoRequest
    /\ leaked' = leaked \cup (live \ {"result"})
    /\ live' = {}
    /\ answer' = "none"
    /\ metric' = 0
    /\ rest' = <<>>
    /\ json' = NoJson
    /\ pc' = "test"
    /\ UNCHANGED <<file, metrics, running, signals, sock, data, oom>>

----------------------------------------------------------------------------
\* Mutant: the handler also closes the connection, to wake a blocked recv.
HandlerClosesClient ==
    /\ running' = FALSE
    /\ signals' = signals + 1
    /\ fds' = [d \in Descriptors |-> IF d \in {server_sock, client_sock} THEN "free" ELSE fds[d]]
    /\ stray' = (stray \/ client_sock # -1)

\* Mutant: the handler only clears the flag.
HandlerOnlyFlag ==
    /\ running' = FALSE
    /\ signals' = signals + 1
    /\ UNCHANGED <<fds, stray>>

\* http_signal_handler.
http_signal_handler ==
    /\ running' = FALSE
    /\ signals' = signals + 1
    /\ Close(server_sock, "listen")

\* Where an interrupted call continues: accept and recv return -1, a send
\* that has begun returns what it sent.  (An interrupted connect is one of the
\* ways of FetchFails, an interrupted recv in http_get_body of ExporterStalls.)
Interrupted ==
    CASE pc = "accepting" -> "test"
      [] pc \in {"receiving", "sending"} -> "close"
      [] OTHER -> pc

\* SIGINT or SIGTERM.
Signal ==
    /\ pc \in Serving
    /\ signals < MaxSignals
    /\ http_signal_handler
    /\ pc' = Interrupted
    /\ UNCHANGED <<file, metrics, client, req, client_sock, sock, workVars, memVars>>

\* http_get_body: the exporter has reset the connection before send, which
\* has no MSG_NOSIGNAL: SIGPIPE runs the same handler, the fetch fails.
ExporterBreaksPipe ==
    /\ pc = "ask"
    /\ fds[sock] = "source"
    /\ signals < MaxSignals
    /\ running' = FALSE
    /\ signals' = signals + 1
    /\ fds' = [fds EXCEPT ![server_sock] = "free", ![sock] = "free"]
    /\ stray' = (stray \/ fds[server_sock] \notin {"free", "listen"})
    /\ sock' = -1
    /\ Fetched(NoData)
    /\ UNCHANGED <<file, metrics, client, req, client_sock, metric, rest, json, answer,
                   leaked, oom>>

Ended == pc \in {"aborted", "exited"} /\ UNCHANGED vars

\* The thread runs on; a peer it waits for need not act.
Thread ==
    \/ Test \/ AcceptFails \/ AcceptWaits \/ Recv \/ RecvWaits
    \/ ConfigStart \/ ConfigEnd \/ \E len \in EntryLens : ConfigEntry(len)
    \/ GrafanaSearch \/ GrafanaRefused \/ GrafanaQuery \/ GrafanaTarget
    \/ GrafanaLosesTarget \/ GrafanaAppend \/ GrafanaEnd \/ Lookup \/ LookupLosesParam \/ Abort
    \/ FetchCached \/ FetchFails \/ FetchOpens \/ ReadFile
    \/ \E page \in Pages : ExporterAnswers(page) \/ ExporterStalls(page)
    \/ ExporterBreaksPipe
    \/ NoPicture \/ Render \/ Send \/ SendWaits \/ CloseClient
    \/ client = "gone" /\ SendEnds

Peer ==
    \/ Accept \/ ClientCloses \/ SendEnds
    \/ \E r \in Requests : ClientSends(r)

Next == (\E f \in Files : Boot(f)) \/ Thread \/ Peer \/ Signal \/ Ended

Spec == Init /\ [][Next]_vars /\ WF_vars(Thread)

----------------------------------------------------------------------------
\* When the loop comes round, whatever way the request before took (recv
\* failed or was interrupted, 400, preflight, exporter or file failing half
\* way, a signal), only the listener is open, and it is open while the
\* server runs.
NoDescriptorLeaks ==
    pc = "test" => \A d \in Descriptors :
        fds[d] = IF d = server_sock /\ running THEN "listen" ELSE "free"

\* Up to one signal, SIGPIPE included, nothing but its owner closes a
\* descriptor: http_signal_handler closes server_sock by number and the end of
\* run_http_server closes the number again.  (After the first signal a file or
\* an exporter's connection may get that number, and a second signal takes it.)
OnlyOwnersClose == signals <= 1 => ~stray

\* Every path through handler_process and grafana_query, a failing allocation
\* anywhere included, frees what it allocated, except the copy of ?theme=,
\* which stays behind whenever the answer is not a picture.
OnlyThemesLeak ==
    /\ leaked \subseteq {"theme"}
    /\ pc \in {"send", "sending"} =>
          live \ {"result"} \subseteq (IF answer = "svg" THEN {} ELSE {"theme"})

\* What the lookup has to find: an exact match before prefixes, a longer
\* prefix before shorter ones, the first among equals.
IsMatch(m, path) ==
    \/ metrics[m].endpoint = path
    \/ /\ metrics[m].requires_param
       /\ metrics[m].endpoint # <<>>
       /\ IsStrictPrefix(metrics[m].endpoint, path)
BestMatch(path) ==
    {m \in DOMAIN metrics :
        /\ IsMatch(m, path)
        /\ \A n \in DOMAIN metrics : IsMatch(n, path) =>
              \/ Len(metrics[n].endpoint) < Len(metrics[m].endpoint)
              \/ Len(metrics[n].endpoint) = Len(metrics[m].endpoint) /\ n >= m}

\* What is rendered, or put under a Grafana target, is data of the metric that
\* matches the path of the request, or of that target, best (cfg.c:282: the
\* longest prefix wins), and of the file of the path's parameter.
AnswersItsPath ==
    pc = "fetched" /\ data # NoData =>
        /\ metric \in BestMatch(Path)
        /\ data.source = metrics[metric].source
        /\ data.source = "rrd" => data.of = RrdFile

\* An entry of config.json without its required fields is never answered with
\* data, also not for the empty path that its cleared slot matches.  (A slot
\* of an element that is no object is never written and may hold anything.)
OnlyDeclaredMetrics ==
    pc = "fetched" /\ data # NoData =>
        LET element == file.metrics[metric]
        IN  element = NotObject \/
            /\ element.endpoint # <<>>
            /\ element.source \notin {"proc", "prometheus"} => element.rrd_path # ""

\* The lines of a page that are samples of a metric: its name, a finite value.
Samples(page, name) ==
    {k \in DOMAIN page : page[k].name = name /\ page[k].value \notin {"none", "NaN", "Inf"}}

\* d has the values of the samples on its page in the order of their lines, of
\* all of them or of the first MAX_SERIES; only a line that was cut may be
\* missing, have another value or be taken for a sample when it is none.
MadeOfSamples(d, name) ==
    LET samples == Samples(d.page, name)
        index   == DOMAIN d.series
    IN  /\ Len(d.series) <= MaxSeries
        /\ \E line \in [index -> DOMAIN d.page] :
              /\ \A i, j \in index : i < j => line[i] < line[j]
              /\ \A i \in index :
                    line[i] \notin d.cut => line[i] \in samples /\ d.series[i] = d.page[line[i]].value
              /\ \A k \in samples \ d.cut :
                    \/ \E i \in index : line[i] = k
                    \/ Len(d.series) = MaxSeries /\ \A i \in index : line[i] < k

\* What is rendered of an exporter's page are the samples of the metric asked
\* for, also when the page stopped early or came in any number of chunks, but
\* for what comes of the lines that were cut.
SeriesAreSamples ==
    pc = "fetched" /\ data.source = "prometheus" =>
        MadeOfSamples(data, metrics[metric].endpoint)

\* generate_metrics_json: only an entry longer than the 512 bytes that are kept
\* free for it can run past the buffer.  Shorter ones, and the closing brackets
\* with their NUL, never do, also behind longer ones that found room and behind
\* a buffer that grew.
JsonFits == json.over = 0 \/ json.over > JsonRoom

\* The thread waits for a peer that may never act.
WaitsForClient == (pc = "receiving" /\ client = "silent") \/ (pc = "sending" /\ client # "gone")

\* A signal at any point (between the test of the loop and accept too, where
\* no call is interrupted) ends the server, unless a client holds the thread
\* in recv or send for ever: there is no timeout.
StopsWhenTold == []<>~WaitsForClient => (~running ~> pc \in {"aborted", "exited"})

\* Every accepted connection is closed, unless a client holds the thread.
ConnectionsEnd == []<>~WaitsForClient => (client # "none" ~> client = "none")
=============================================================================
