------------------------------- MODULE MCGate -------------------------------
(* Small instances of Gate for TLC. *)
EXTENDS Gate
CONSTANTS n1, n2, brace, h1, h2, s1, s2

\* One name and one host have a '}' and then a '{' in them.
BracesIn ==
    [t \in Names \cup Hosts \cup {NoName} |->
        IF t \in {brace, h2} THEN <<"close", "open">> ELSE <<>>]

Req(method, route, ds) ==
    [method |-> method, route |-> route, ds |-> ds, good |-> TRUE, body |-> NoBody]
Post(name, port) ==
    [Req("POST", "/_datasources", NoName) EXCEPT
        !.body = [name |-> name, host |-> h1, port |-> port, nameFirst |-> TRUE]]
Login(good) == [Req("POST", "/_auth/login", NoName) EXCEPT !.good = good]

\* What changes the list: with an ordinary name, with the name PortKey, which only
\* reaches add_datasource from a body in which "name" is the last key, with one in
\* whose text an object begins and with a port out of range.
ListRequests ==
    {Login(TRUE), Post(n1, 90), Post(n1, 99), Post(brace, 9),
     [Post(PortKey, 9) EXCEPT !.body.nameFirst = FALSE, !.body.host = h2]}
    \cup {Req("DELETE", "/_datasources/n", n) : n \in {n1, DefaultName}}
    \cup {Req("PUT", "/_datasources/n/default", n1)}

\* Every route, and what obtains and checks tokens.
AllRoutes ==
    {Req(m, r, NoName) : m \in {"GET", "POST", "OPTIONS"}, r \in Routes}
    \cup {Login(FALSE), Login(TRUE), Req("PUT", "/grafana/query", NoName),
          [Req("GET", "/metric", NoName) EXCEPT !.good = FALSE],
          Req("PUT", "/_datasources/n/default", DefaultName),
          Req("DELETE", "/_datasources/n", DefaultName)}

OnePost == {Login(TRUE), Post(n1, 80)}

NoEdits == {}
Edits ==
    {[default |-> HostKey, entries |-> <<[name |-> HostKey, host |-> h1, port |-> 9]>>]}
=============================================================================
