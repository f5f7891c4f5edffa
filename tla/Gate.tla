-------------------------------- MODULE Gate --------------------------------
(***************************************************************************)
(* svgd-gate, the HTTP front end (src/gate/main.c): a single-threaded loop *)
(* that accepts a connection, reads one request under a receive timeout,   *)
(* routes it - login, token check (src/gate/auth/auth.c), the datasource   *)
(* API, static files, metric and Grafana requests forwarded to a backend - *)
(* answers and closes.  The process can stop at any point and start again. *)
(***************************************************************************)
EXTENDS Datasources

CONSTANTS
    Secrets,     \* values of jwt_secret
    NoSecret,    \* auth.json is absent or incomplete
    ExpiryDays,  \* values of token_expiry_days in auth.json
    DefaultDays, \* the 7 of auth_load_config
    MaxDays,     \* the 365 of auth_load_config
    MaxNow,      \* bound on the clock, in days
    Requests,    \* the requests clients send
    EditedFiles  \* what an operator may write into datasources.json

Methods == {"GET", "POST", "PUT", "DELETE", "OPTIONS"}
\* "dotted" is a metric path whose last component has a dot in it.
Routes == {"/_auth/login", "/_auth/verify", "/grafana/search", "/grafana/query",
           "/grafana/annotations", "/grafana", "/_datasources", "/_datasources/n",
           "/_datasources/n/default", "/index.html", "/metric", "dotted"}
Tokens == [secret : Secrets, iat : Nat, exp : Nat]
NoToken == [secret |-> NoSecret, iat |-> 0, exp |-> 0]
NoBody == [name |-> NoName, host |-> NoName, port |-> 0, nameFirst |-> TRUE]

\* A request: body is the datasource of a POST, with "name" as its first or
\* its last key; ds the name in the path or in ?datasource=; good says whether
\* the password is right (login) or what is forwarded fits its buffers.
RequestType ==
    [method : Methods, route : Routes, ds : Names \cup {NoName},
     good : BOOLEAN, body : [name : Names \cup {NoName}, host : Hosts \cup {NoName},
                              port : Int, nameFirst : BOOLEAN]]
NoRequest == [route |-> "none"]

ASSUME GateAssumption ==
    /\ NoSecret \notin Secrets
    /\ ExpiryDays \subseteq Int
    /\ MaxDays \in Nat /\ DefaultDays \in 1..MaxDays
    /\ MaxNow \in Nat
    /\ Requests \subseteq RequestType
    /\ EditedFiles \subseteq [default : Names \cup {NoName}, entries : Seq(Source)]
    /\ \A f \in EditedFiles : \A i, j \in DOMAIN f.entries :
           f.entries[i].name = f.entries[j].name => i = j
    /\ \A f \in EditedFiles : f.entries # <<>> =>
           \E i \in DOMAIN f.entries : i <= MaxSources /\ f.entries[i].name = f.default

VARIABLES
    now,     \* time(NULL), in days
    up,      \* the gate runs
    secret,  \* g_auth_config.jwt_secret, or NoSecret while not loaded
    days,    \* g_auth_config.token_expiry_days
    issued,  \* tokens handed out so far (clients keep them)
    conn,    \* the connection being served
    reply,   \* the last answer: status and, if forwarded, the backend
    edited   \* history: an operator's edit of datasources.json not yet loaded

authVars == <<now, secret, days, issued>>
vars == <<sourceVars, loadVars, authVars, up, conn, reply, edited>>

\* A connection: nothing accepted, receiving, a request ready to be handled, or
\* handled and the thread blocked in a call on a peer; `whole' says whether all
\* of the request arrived, `token' what it carries.
NoConn == [at |-> "none", req |-> NoRequest, token |-> NoToken, whole |-> FALSE]
NoReply == [status |-> 0, to |-> NoName, req |-> NoRequest]

TypeOK ==
    /\ SourcesTypeOK
    /\ now \in 0..MaxNow
    /\ up \in BOOLEAN
    /\ secret \in Secrets \cup {NoSecret}
    /\ days \in 1..MaxDays
    /\ issued \in SUBSET Tokens
    /\ conn.at \in {"none", "recv", "ready", "blocked"}
    /\ conn.at # "none" => conn.req \in RequestType
    /\ reply.status \in {0, 200, 201, 204, 400, 401, 404, 409, 413, 500}
    /\ edited \in BOOLEAN

Init ==
    /\ items = <<>> /\ default_name = NoName /\ file = EmptyFile
    /\ faults \in FaultSettings /\ phantom = FALSE
    /\ now = 0
    /\ up = FALSE
    /\ secret = NoSecret /\ days = DefaultDays
    /\ issued = {}
    /\ conn = NoConn
    /\ reply = NoReply
    /\ edited = FALSE

----------------------------------------------------------------------------
\* Mutant: the expiry is not checked.
LoadAnyExpiry(s, d) == secret' = s /\ days' = d

\* auth_load_config: an expiry out of range is replaced by the default.
auth_load_config(s, d) ==
    /\ secret' = s
    /\ days' = IF d \in 1..MaxDays THEN d ELSE DefaultDays

\* Mutant: the expiry of a token is not looked at.
ValidateSignatureOnly(token) == secret # NoSecret /\ token.secret = secret

\* auth_validate_token: the signature is the current secret's and the token
\* has not expired.
auth_validate_token(token) ==
    /\ secret # NoSecret
    /\ token.secret = secret
    /\ token.exp >= now

\* A path with a dot behind its last slash is a static file, whatever else it
\* could name; the list API never is.
is_static_request(route) == route \in {"/index.html", "dotted"}

\* Mutant: the Grafana routes were forgotten.
RequiresAuthButGrafana(route) ==
    ~is_static_request(route)
    /\ route \notin {"/_auth/login", "/_auth/verify", "/grafana/search", "/grafana/query"}

\* Everything but static files and the two auth endpoints.
requires_auth(route) ==
    ~is_static_request(route) /\ route \notin {"/_auth/login", "/_auth/verify"}

\* The answer goes out and the connection is closed.
Answer(status, to) ==
    /\ reply' = [status |-> status, to |-> to, req |-> conn.req]
    /\ conn' = NoConn

\* An answer that may be larger than the socket's buffer: send blocks for as
\* long as the client does not read, because only SO_RCVTIMEO is set.
AnswerLarge(status, to) ==
    /\ reply' = [status |-> status, to |-> to, req |-> conn.req]
    /\ conn' \in {NoConn, [conn EXCEPT !.at = "blocked"]}

NoChange == UNCHANGED <<sourceVars, loadVars, authVars, up, edited>>

----------------------------------------------------------------------------
\* main: load datasources.json and auth.json, then listen.
Boot ==
    /\ ~up
    /\ LoadOrCreate
    /\ \E s \in Secrets \cup {NoSecret}, d \in ExpiryDays : auth_load_config(s, d)
    /\ up' = TRUE
    /\ edited' = FALSE
    /\ UNCHANGED <<faults, now, issued, conn, reply>>

\* The process ends (signal, crash, power) between two requests or inside
\* one; memory is gone, the file stays as it is.
Exit ==
    /\ up
    /\ up' = FALSE
    /\ items' = <<>> /\ default_name' = NoName
    /\ secret' = NoSecret /\ days' = DefaultDays
    /\ conn' = NoConn /\ reply' = NoReply
    /\ UNCHANGED <<file, loadVars, now, issued, edited>>

Day ==
    /\ now < MaxNow
    /\ now' = now + 1
    /\ UNCHANGED <<sourceVars, loadVars, secret, days, issued, up, conn, reply, edited>>

\* An operator edits datasources.json.
Edit ==
    /\ \E f \in EditedFiles : file' = f /\ f # file
    /\ edited' = TRUE
    /\ UNCHANGED <<items, default_name, loadVars, authVars, up, conn, reply>>

\* accept: a client connects; it has one of the tokens or none.
Accept ==
    /\ up /\ conn.at = "none"
    /\ \E r \in Requests, t \in issued \cup {NoToken} :
           conn' = [at |-> "recv", req |-> r, token |-> t, whole |-> FALSE]
    /\ reply' = NoReply
    /\ NoChange

\* The receive loop ends with the complete request.
ReceiveAll ==
    /\ conn.at = "recv"
    /\ conn' = [conn EXCEPT !.at = "ready", !.whole = TRUE]
    /\ UNCHANGED reply
    /\ NoChange

\* A body cut at its end: in the number of its port, or before its name.
TornBodies(body) ==
    IF body.nameFirst
    THEN {[body EXCEPT !.port = p] : p \in {0, body.port} \cup TornPort(body.port)}
    ELSE {[body EXCEPT !.name = NoName]}

\* What can have arrived of a connection's request behind its first line: a
\* part of the headers, or all of them and a part of the body.
PartsOf(c) ==
    {[c EXCEPT !.token = NoToken, !.req.good = FALSE, !.req.body = NoBody]}
    \cup {[c EXCEPT !.req.good = c.req.good /\ c.req.method = "GET", !.req.body = part] :
             part \in TornBodies(c.req.body)}

\* Mutant: a timeout of recv is tried again.
ReceiveAgain == conn.at = "recv" /\ UNCHANGED <<conn, reply>> /\ NoChange

\* recv times out (CLIENT_RECV_TIMEOUT_SEC) or the client closes.  With
\* nothing received the connection is dropped; otherwise what has arrived is
\* handled as it is: without a complete request line it is answered 400, the
\* token may be missing, and so may the end of the body.
ReceivePart ==
    /\ conn.at = "recv"
    /\ \/ conn' = NoConn /\ UNCHANGED reply
       \/ Answer(400, NoName)
       \/ /\ \E part \in PartsOf(conn) : conn' = [part EXCEPT !.at = "ready"]
          /\ UNCHANGED reply
    /\ NoChange

\* The routing order of the loop.
Ready(route) == conn.at = "ready" /\ conn.req.route = route
Denied == requires_auth(conn.req.route) /\ ~auth_validate_token(conn.token)
Admitted(route) == Ready(route) /\ conn.req.method # "OPTIONS" /\ ~Denied

\* POST /_auth/login exchanges the password for a token; auth_create_token
\* may run out of memory, the body may not have arrived.
handle_login ==
    /\ Ready("/_auth/login")
    /\ \/ /\ conn.req.method = "POST" /\ conn.req.good /\ secret # NoSecret
          /\ \/ /\ issued' = issued \cup {[secret |-> secret, iat |-> now, exp |-> now + days]}
                /\ Answer(200, NoName)
             \/ Answer(500, NoName) /\ UNCHANGED issued
       \/ /\ conn.req.method = "POST" /\ ~(conn.req.good /\ secret # NoSecret)
          /\ \E status \in {401} \cup (IF conn.whole THEN {} ELSE {400}) : Answer(status, NoName)
          /\ UNCHANGED issued
       \/ /\ conn.req.method # "POST"
          /\ Answer(IF conn.req.method = "OPTIONS" THEN 200 ELSE 404, NoName)
          /\ UNCHANGED issued
    /\ UNCHANGED <<sourceVars, loadVars, now, secret, days, up, edited>>

\* GET /_auth/verify
Verify ==
    /\ Ready("/_auth/verify")
    /\ Answer(CASE conn.req.method = "OPTIONS" -> 200
                [] conn.req.method = "GET" ->
                       IF auth_validate_token(conn.token) THEN 200 ELSE 401
                [] OTHER -> 404, NoName)
    /\ NoChange

\* CORS preflight is answered before the token is looked at.
handle_options ==
    /\ conn.at = "ready" /\ conn.req.method = "OPTIONS"
    /\ conn.req.route \notin {"/_auth/login", "/_auth/verify"}
    /\ Answer(200, NoName)
    /\ NoChange

send_401_auth ==
    /\ conn.at = "ready" /\ conn.req.method # "OPTIONS" /\ Denied
    /\ Answer(401, NoName)
    /\ NoChange

\* The substring search of handle_post_datasource meets the same names that
\* load_datasources does, unless "name" comes behind the other keys.
ParsedBody(body) == IF body.nameFirst THEN ParsedEntry(body) ELSE body

\* POST /_datasources; add_datasource's -3 (port out of range) is answered
\* like success.
handle_post_datasource ==
    /\ Admitted("/_datasources") /\ conn.req.method = "POST"
    /\ LET new == ParsedBody(conn.req.body)
           r   == add_result(new.name, new.port)
       IN  IF new.name = NoName \/ new.host = NoName \/ new.port <= 0
           THEN Answer(400, NoName) /\ UNCHANGED sourceVars
           ELSE /\ Answer(CASE r = -1 -> 500 [] r = -2 -> 409 [] OTHER -> 201, NoName)
                /\ IF r = 0 THEN add_datasource(new.name, new.host, new.port)
                   ELSE UNCHANGED sourceVars
    /\ edited' = (edited /\ file' = file)
    /\ UNCHANGED <<loadVars, authVars, up>>

\* GET /_datasources; other methods get no answer at all.
handle_get_datasources ==
    /\ Admitted("/_datasources") /\ conn.req.method # "POST"
    /\ Answer(IF conn.req.method = "GET" THEN 200 ELSE 0, NoName)
    /\ NoChange

\* DELETE /_datasources/<name>, also with "/default" behind it.
handle_delete_datasource ==
    /\ Admitted("/_datasources/n") \/ Admitted("/_datasources/n/default")
    /\ conn.req.method = "DELETE"
    /\ IF find_datasource(conn.req.ds) # 0
       THEN Answer(204, NoName) /\ remove_datasource(conn.req.ds)
       ELSE Answer(404, NoName) /\ UNCHANGED sourceVars
    /\ edited' = (edited /\ file' = file)
    /\ UNCHANGED <<loadVars, authVars, up>>

\* PUT /_datasources/<name>/default
handle_set_default ==
    /\ Admitted("/_datasources/n/default") /\ conn.req.method = "PUT"
    /\ IF find_datasource(conn.req.ds) # 0
       THEN Answer(200, NoName) /\ set_default(conn.req.ds)
       ELSE Answer(404, NoName) /\ UNCHANGED sourceVars
    /\ edited' = (edited /\ file' = file)
    /\ UNCHANGED <<loadVars, authVars, up>>

\* Anything else below /_datasources/.
OtherDatasourceRequest ==
    /\ \/ Admitted("/_datasources/n") /\ conn.req.method # "DELETE"
       \/ Admitted("/_datasources/n/default") /\ conn.req.method \notin {"DELETE", "PUT"}
    /\ Answer(404, NoName)
    /\ NoChange

\* serve_static_file: a metric path names no file below static_path; a page
\* may be missing, too large or unreadable.
serve_static_file ==
    /\ Admitted("/index.html") \/ Admitted("dotted")
    /\ \/ conn.req.route = "/index.html" /\ AnswerLarge(200, NoName)
       \/ conn.req.route = "/index.html" /\ Answer(400, NoName)
       \/ Answer(404, NoName)
    /\ NoChange

\* lsrp_client_send to the selected backend (external): it is unreachable,
\* answers with an error or with data, or leaves the gate waiting (status 0).
\* Grafana sees an error as no data.
Forward(grafana) ==
    IF conn.req.ds # NoName /\ find_datasource(conn.req.ds) = 0
    THEN Answer(404, NoName)
    ELSE \/ \E status \in {0, 200} : AnswerLarge(status, Target(conn.req.ds))
         \/ Answer(400, Target(conn.req.ds))
         \/ grafana /\ Answer(200, Target(conn.req.ds))

\* Only GET requests with a path and query that fit are metric requests.
ForwardMetric ==
    /\ Admitted("/metric")
    /\ IF conn.req.method = "GET" /\ conn.req.good THEN Forward(FALSE) ELSE Answer(400, NoName)
    /\ NoChange

\* POST /grafana/search and /grafana/query are forwarded, the others answered
\* by the gate itself.  A query is not forwarded without its body, if the
\* encoded body is too long, or for want of memory.
handle_grafana ==
    /\ \E route \in {"/grafana", "/grafana/search", "/grafana/query", "/grafana/annotations"} :
           Admitted(route)
    /\ CASE conn.req.method = "GET" -> Answer(200, NoName)
         [] conn.req.method \in {"PUT", "DELETE"} -> Answer(404, NoName)
         [] conn.req.method = "POST" ->
                CASE conn.req.route = "/grafana/annotations" -> Answer(200, NoName)
                  [] conn.req.route = "/grafana" -> Answer(404, NoName)
                  [] conn.req.route = "/grafana/search" -> Forward(TRUE)
                  [] conn.req.route = "/grafana/query" ->
                         \/ Forward(TRUE)
                         \/ ~conn.req.good /\ \E status \in {400, 413, 500} : Answer(status, NoName)
    /\ NoChange

Handle ==
    \/ handle_login \/ Verify \/ handle_options \/ send_401_auth
    \/ handle_post_datasource \/ handle_get_datasources \/ handle_delete_datasource
    \/ handle_set_default \/ OtherDatasourceRequest
    \/ serve_static_file \/ ForwardMetric \/ handle_grafana

\* The peer goes on: the client reads or closes, the backend answers or its
\* connection breaks.
Unblock ==
    /\ conn.at = "blocked"
    /\ conn' = NoConn
    /\ UNCHANGED reply
    /\ NoChange

\* The single thread of the gate, once it has accepted a connection.
Serve == ReceiveAll \/ ReceivePart \/ Handle \/ Unblock

Next == Boot \/ Exit \/ Day \/ Edit \/ Accept \/ Serve

Spec == Init /\ [][Next]_vars

\* The loop keeps running while the process does.  A client may never send
\* the rest of its request, but recv has a timeout and the buffer an end: the
\* receive loop ends without ReceiveAll too.  A thread blocked in send or in
\* lsrp_client_send depends on its peer, so nothing is assumed of Unblock.
FairSpec == Spec /\ WF_vars(ReceivePart) /\ WF_vars(Handle)

----------------------------------------------------------------------------
\* While the gate runs its list fits the array and has no duplicates, also when
\* it was read from a file cut short by a crash or edited by hand (without
\* listing a name twice), as long as load_datasources has never met an object
\* inside the name or the host of another.
ListWellFormed == up => Len(items) <= MaxSources /\ (~phantom => UniqueNames)

\* While the gate runs without faults the default entry exists, through any
\* sequence of adds, deletes, set-defaults and restarts, unless the default is
\* the name that load_datasources drops because it is spelled like a key, or
\* objects met inside others have taken the room of the array.
DefaultResolves == up /\ ~faults /\ ~phantom /\ default_name # PortKey => DefaultIsListed

\* Every answer that changed the list or its default is durable: without
\* faults the file holds what is in memory, after a restart too, so long as no
\* name in it is spelled like a key of the JSON object (load_datasources reads
\* such an entry with another host, or drops it), no text of it has a '{'
\* behind a '}' (another object is met there) and it lists no more entries
\* than the array holds.
FileHoldsList ==
    /\ up /\ ~faults /\ ~edited
    /\ NamesIn(file.entries) \cap {HostKey, PortKey} = {}
    /\ ~HasPhantoms(file)
    /\ Len(file.entries) <= MaxSources
    => file = Text(items, default_name)

\* Nothing below the token check changes for a client without a valid token:
\* the list, its default and the file change, and a backend is contacted,
\* only for requests whose token was signed with the loaded secret and had
\* not expired; with no auth.json for none at all.
ChangesNeedToken ==
    [][/\ conn.at = "ready" /\ conn' # conn /\ up'
       /\ sourceVars' # sourceVars \/ reply'.to # NoName
       => auth_validate_token(conn.token)]_vars

\* No token is accepted for longer than the longest lifetime auth.json can
\* ask for, whatever happens to the gate and its configuration meanwhile.
TokensExpire ==
    \A t \in issued : auth_validate_token(t) => now <= t.iat + MaxDays

\* Every accepted connection is answered or dropped, provided that no client
\* and no backend holds the single thread in a call for ever.
EveryConnectionEnds ==
    []<>(conn.at # "blocked") => (conn.at # "none" ~> conn.at = "none")

\* A client that is told 201 finds its datasource in the list, except when the
\* port is out of range: add_datasource's -3 is answered like success.
CreatedIsListed ==
    reply.status = 201 /\ reply.req.body.port <= MaxPort =>
        reply.req.body.name \in NamesIn(items)

\* gate/main.c:962 "Read full request": an entry added over the API is the one
\* in a request some client sent, with its port.
AddedAsSent ==
    [][up /\ up' /\ Len(items') > Len(items) =>
          \E r \in Requests : LET new == Last(items')
                             IN  r.body.name = new.name /\ r.body.port = new.port]_vars
=============================================================================
