-------------------------- MODULE HttpServerProofs --------------------------
(***************************************************************************)
(* Proofs about svgd in HTTP mode, for any configuration files, requests,  *)
(* pages and RRD files, any number of descriptors, signals and failing     *)
(* allocations: descriptors, memory, which metric answers a path, and what *)
(* series are made of an exporter's page.                                  *)
(***************************************************************************)
EXTENDS HttpServer, CountingLemmas

\* Min is the least element.
LEMMA MinLemma ==
    ASSUME NEW T, T \subseteq Nat, T # {}
    PROVE  Min(T) \in T /\ \A y \in T : Min(T) <= y
<1>1. \E x \in T : \A y \in T : x <= y
  BY LeastNumber
<1>. QED
  BY <1>1 DEF Min

\* A strict prefix is shorter.
LEMMA PrefixLemma ==
    ASSUME NEW s \in Seq(Strings), NEW t \in Seq(Strings), IsStrictPrefix(s, t)
    PROVE  Len(s) < Len(t)
<1>1. Len(s) <= Len(t) /\ SubSeq(s, 1, Len(s)) = SubSeq(t, 1, Len(s)) /\ s # t
  BY DEF IsStrictPrefix, IsPrefix
<1>2. SubSeq(s, 1, Len(s)) = s /\ SubSeq(t, 1, Len(t)) = t
  OBVIOUS
<1>. QED
  BY <1>1, <1>2

\* The second pass of find_metric_config: its candidates, one round of it, and
\* what it has found after n rounds.
Candidate(path, n) == metrics[n].requires_param /\ IsStrictPrefix(metrics[n].endpoint, path)
PickStep(path, best, n) ==
    IF n = 0 THEN 0
    ELSE IF /\ metrics[n].requires_param
            /\ IsStrictPrefix(metrics[n].endpoint, path)
            /\ Longer(metrics, best[n - 1], n)
         THEN n ELSE best[n - 1]
LongestOf(path, m, n) ==
    /\ m \in 0..n
    /\ m = 0 => \A j \in 1..n : Candidate(path, j) => Len(metrics[j].endpoint) = 0
    /\ m # 0 => /\ Candidate(path, m)
                /\ Len(metrics[m].endpoint) > 0
                /\ \A j \in 1..n : Candidate(path, j) =>
                      \/ Len(metrics[j].endpoint) < Len(metrics[m].endpoint)
                      \/ Len(metrics[j].endpoint) = Len(metrics[m].endpoint) /\ j >= m

\* The array and the endpoints in it are sequences.
LEMMA LengthsLemma ==
    ASSUME metrics \in Seq(MetricConfig)
    PROVE  /\ Len(metrics) \in Nat /\ DOMAIN metrics = 1..Len(metrics)
           /\ \A j \in 1..Len(metrics) : /\ metrics[j].endpoint \in Seq(Strings)
                                         /\ Len(metrics[j].endpoint) \in Nat
<1>1. \A j \in 1..Len(metrics) : metrics[j] \in Texts
  BY DEF MetricConfig
<1>2. \A j \in 1..Len(metrics) : metrics[j].endpoint \in Seq(Strings)
  BY <1>1 DEF Texts
<1>. QED
  BY <1>2

\* The second pass finds the longest prefix, the first of that length.
LEMMA LongestLemma ==
    ASSUME metrics \in Seq(MetricConfig), NEW path
    PROVE  LET best == CHOOSE h : h = [n \in 0..Len(metrics) |-> PickStep(path, h, n)]
           IN  LongestOf(path, best[Len(metrics)], Len(metrics))
<1>. DEFINE m == Len(metrics)
            S == 0..m
            zero == 0
            len(n) == Len(metrics[n].endpoint)
            g == [n \in 1..m |-> [v \in S |->
                     IF Candidate(path, n) /\ Longer(metrics, v, n) THEN n ELSE v]]
            Body(h) == [n \in 0..m |-> PickStep(path, h, n)]
            best == CHOOSE h : h = Body(h)
<1>1. m \in Nat /\ \A n \in 1..m : len(n) \in Nat
  BY LengthsLemma
<1>2. \A h, n : PickStep(path, h, n) =
                   IF n = 0 THEN 0
                   ELSE IF Candidate(path, n) /\ Longer(metrics, h[n - 1], n) THEN n ELSE h[n - 1]
  BY DEF PickStep, Candidate
<1>3. \A v, n : Longer(metrics, v, n) <=> len(n) > (IF v = 0 THEN 0 ELSE len(v))
  BY DEF Longer
<1>. HIDE DEF m, best, PickStep, Longer, Candidate, len
<1>4. \A n \in 1..m : \A v \in S : g[n][v] \in S
  BY <1>1
<1>5. \A n \in 1..m : \A v \in S :
          g[n][v] = IF Candidate(path, n) /\ Longer(metrics, v, n) THEN n ELSE v
  OBVIOUS
<1>6. zero \in S
  BY <1>1
<1>. HIDE DEF g
<1>7. PICK k : RunsLoop(k, m, S, zero, g)
  <2>. HIDE DEF S, zero
  <2>. QED
    BY <1>1, <1>4, <1>6, LoopValues
<1>8. ASSUME NEW n \in 0..m PROVE k[n] = PickStep(path, k, n)
  <2>1. CASE n = 0
    BY <1>2, <1>7, <2>1 DEF RunsLoop
  <2>2. CASE n # 0
    <3>1. n \in 1..m /\ n - 1 \in 0..m
      BY <1>1, <2>2
    <3>2. k[n] = g[n][k[n - 1]] /\ k[n - 1] \in S
      BY <1>7, <3>1 DEF RunsLoop
    <3>. QED
      BY <1>2, <1>5, <2>2, <3>1, <3>2
  <2>. QED
    BY <2>1, <2>2
<1>9. best = Body(best)
  <2>1. k \in [0..m -> S]
    BY <1>7 DEF RunsLoop
  <2>2. k = Body(k)
    BY <1>8, <2>1
  <2>. HIDE DEF Body
  <2>. QED
    BY <2>2 DEF best
<1>10. \A n \in 0..m : best[n] = PickStep(path, best, n)
  BY <1>9
<1>. DEFINE T == {n \in 0..m : LongestOf(path, best[n], n)}
<1>11. 0 \in T
  <2>1. 0 \in 0..m /\ best[0] = 0
    BY <1>1, <1>2, <1>10
  <2>. QED
    BY <2>1 DEF LongestOf
<1>12. ASSUME NEW n \in 0..m, n < m, n \in T PROVE n + 1 \in T
  <2>1. n \in Nat /\ n + 1 \in 1..m /\ n + 1 \in 0..m /\ n + 1 # 0 /\ (n + 1) - 1 = n
    BY <1>1, <1>12
  <2>. DEFINE b == best[n]
              c == best[n + 1]
  <2>2. /\ b \in 0..n
        /\ b = 0 => \A j \in 1..n : Candidate(path, j) => len(j) = 0
        /\ b # 0 => /\ Candidate(path, b) /\ len(b) > 0
                    /\ \A j \in 1..n : Candidate(path, j) =>
                           len(j) < len(b) \/ (len(j) = len(b) /\ j >= b)
    BY <1>12 DEF LongestOf, len
  <2>3. c = IF Candidate(path, n + 1) /\ len(n + 1) > (IF b = 0 THEN 0 ELSE len(b))
            THEN n + 1 ELSE b
    BY <1>2, <1>3, <1>10, <2>1
  <2>. HIDE DEF b, c
  <2>4. \A j \in 1..(n + 1) : j \in 1..n \/ j = n + 1
    BY <2>1
  <2>5. \A j \in 1..n : j \in 1..m /\ len(j) \in Nat
    BY <1>1, <2>1
  <2>6. len(n + 1) \in Nat
    BY <1>1, <2>1
  <2>7. /\ c \in 0..(n + 1)
        /\ c = 0 => \A j \in 1..(n + 1) : Candidate(path, j) => len(j) = 0
        /\ c # 0 => /\ Candidate(path, c) /\ len(c) > 0
                    /\ \A j \in 1..(n + 1) : Candidate(path, j) =>
                           len(j) < len(c) \/ (len(j) = len(c) /\ j >= c)
    <3>1. CASE Candidate(path, n + 1) /\ len(n + 1) > (IF b = 0 THEN 0 ELSE len(b))
      <4>1. c = n + 1
        BY <2>3, <3>1
      <4>2. b # 0 => b \in 1..n /\ len(b) \in Nat
        BY <2>1, <2>2, <2>5
      <4>3. \A j \in 1..n : Candidate(path, j) => len(j) < len(n + 1)
        BY <2>2, <2>5, <2>6, <3>1, <4>2
      <4>4. len(n + 1) > 0
        BY <2>2, <2>6, <3>1, <4>2
      <4>. QED
        BY <2>1, <2>4, <2>6, <3>1, <4>1, <4>3, <4>4
    <3>2. CASE ~(Candidate(path, n + 1) /\ len(n + 1) > (IF b = 0 THEN 0 ELSE len(b)))
      <4>1. c = b /\ c \in 0..(n + 1)
        BY <2>1, <2>2, <2>3, <3>2
      <4>2. CASE b = 0
        BY <2>2, <2>4, <2>6, <3>2, <4>1, <4>2
      <4>3. CASE b # 0
        <5>1. b \in 1..n /\ len(b) \in Nat
          BY <2>1, <2>2, <2>5, <4>3
        <5>2. Candidate(path, n + 1) => len(n + 1) < len(b) \/ (len(n + 1) = len(b) /\ n + 1 >= b)
          BY <2>1, <2>6, <3>2, <4>3, <5>1
        <5>. QED
          BY <2>2, <2>4, <4>1, <4>3, <5>2
      <4>. QED
        BY <4>2, <4>3
    <3>. QED
      BY <3>1, <3>2
  <2>. QED
    BY <2>1, <2>7 DEF LongestOf, len, c
<1>13. m \in T
  <2>1. \A n \in 0..m : n < m /\ n \in T => n + 1 \in T
    BY <1>12
  <2>. HIDE DEF T
  <2>2. \A n \in 0..m : n \in T
    BY <1>1, <1>11, <2>1, CountUp
  <2>. QED
    BY <1>1, <2>2
<1>. QED
  BY <1>13 DEF m, best

\* find_metric_config returns 0 or the best match of the path.
LEMMA FoundLemma ==
    ASSUME metrics \in Seq(MetricConfig), NEW path \in Seq(Strings)
    PROVE  LET m == find_metric_config(metrics, path)
           IN  m \in 0..Len(metrics) /\ (m # 0 => m \in BestMatch(path))
<1>. DEFINE exact == {i \in DOMAIN metrics : metrics[i].endpoint = path}
            best == CHOOSE h : h = [n \in 0..Len(metrics) |-> PickStep(path, h, n)]
            len(n) == Len(metrics[n].endpoint)
<1>1. /\ Len(metrics) \in Nat /\ DOMAIN metrics = 1..Len(metrics)
      /\ \A j \in 1..Len(metrics) : metrics[j].endpoint \in Seq(Strings) /\ len(j) \in Nat
  BY LengthsLemma
<1>2. find_metric_config(metrics, path) = IF exact # {} THEN Min(exact) ELSE best[Len(metrics)]
  BY DEF find_metric_config, PickStep
<1>3. LongestOf(path, best[Len(metrics)], Len(metrics))
  BY LongestLemma
<1>. HIDE DEF best
<1>4. CASE exact # {}
  <2>. DEFINE m == Min(exact)
  <2>1. exact \subseteq Nat
    BY <1>1
  <2>2. m \in exact /\ \A y \in exact : m <= y
    <3>. HIDE DEF exact
    <3>. QED
      BY <1>4, <2>1, MinLemma
  <2>. HIDE DEF m
  <2>3. m \in 1..Len(metrics) /\ metrics[m].endpoint = path
    BY <1>1, <2>2
  <2>4. ASSUME NEW n \in DOMAIN metrics, IsMatch(n, path)
        PROVE  len(n) < len(m) \/ (len(n) = len(m) /\ n >= m)
    <3>1. CASE metrics[n].endpoint = path
      BY <1>1, <2>2, <2>3, <3>1
    <3>2. CASE IsStrictPrefix(metrics[n].endpoint, path)
      BY <1>1, <2>3, <3>2, PrefixLemma
    <3>. QED
      BY <2>4, <3>1, <3>2 DEF IsMatch
  <2>5. m \in BestMatch(path)
    BY <1>1, <2>3, <2>4 DEF BestMatch, IsMatch
  <2>. QED
    BY <1>1, <1>2, <1>4, <2>3, <2>5 DEF m
<1>5. CASE exact = {}
  <2>. DEFINE m == best[Len(metrics)]
  <2>. HIDE DEF m
  <2>1. LongestOf(path, m, Len(metrics))
    BY <1>3 DEF m
  <2>2. m \in 0..Len(metrics)
    BY <2>1 DEF LongestOf
  <2>3. ASSUME m # 0 PROVE m \in BestMatch(path)
    <3>1. m \in DOMAIN metrics
      BY <1>1, <2>2, <2>3
    <3>2. /\ Candidate(path, m) /\ len(m) > 0
          /\ \A j \in 1..Len(metrics) : Candidate(path, j) =>
                len(j) < len(m) \/ (len(j) = len(m) /\ j >= m)
      BY <2>1, <2>3 DEF LongestOf
    <3>3. \A n \in DOMAIN metrics : IsMatch(n, path) => Candidate(path, n)
      BY <1>5 DEF IsMatch, Candidate
    <3>4. IsMatch(m, path)
      BY <1>1, <3>1, <3>2 DEF IsMatch, Candidate
    <3>. QED
      BY <1>1, <3>1, <3>2, <3>3, <3>4 DEF BestMatch
  <2>. QED
    BY <1>2, <1>5, <2>2, <2>3 DEF m
<1>. QED
  BY <1>4, <1>5

----------------------------------------------------------------------------
\* The stages of the loop: no connection, a connection, and a source being read
\* for it.
Idle == {"test", "accept", "accepting"}
Reading == {"read", "ask"}
Busy == Serving \ (Idle \cup Reading)

\* What a descriptor is outside the connection and the source.
Rest(d) == IF d = server_sock /\ running THEN "listen" ELSE "free"

\* Which descriptors are open at each stage.  A source may have got the number
\* of the listener after a signal, and lose it to the next signal.
FdInv ==
    /\ pc \in Serving \cup {"boot", "aborted", "exited"}
    /\ running \in BOOLEAN
    /\ signals \in 0..MaxSignals
    /\ running <=> signals = 0
    /\ stray \in BOOLEAN /\ (stray => signals >= 2)
    /\ fds \in [Descriptors -> {"free", "listen", "client", "source"}]
    /\ {client_sock, sock} \subseteq Descriptors \cup {-1}
    /\ pc = "boot" => /\ client_sock = -1 /\ sock = -1 /\ running
                      /\ \A d \in Descriptors : fds[d] = "free"
    /\ pc \in Idle => /\ client_sock = -1 /\ sock = -1
                      /\ \A d \in Descriptors : fds[d] = Rest(d)
    /\ pc \in Busy => /\ sock = -1
                      /\ client_sock \in Descriptors \ {server_sock}
                      /\ \A d \in Descriptors :
                            fds[d] = IF d = client_sock THEN "client" ELSE Rest(d)
    /\ pc \in Reading => /\ client_sock \in Descriptors \ {server_sock}
                         /\ sock \in Descriptors \ {client_sock}
                         /\ sock = server_sock => ~running
                         /\ \/ fds[sock] = "source"
                            \/ fds[sock] = "free" /\ sock = server_sock /\ signals >= 2
                         /\ \A d \in Descriptors \ {sock} :
                               fds[d] = IF d = client_sock THEN "client" ELSE Rest(d)

\* The stages are disjoint.
LEMMA Stages ==
    /\ \A p \in Idle : p \notin Busy /\ p \notin Reading /\ p # "boot" /\ p \in Serving
    /\ \A p \in Busy : p \notin Idle /\ p \notin Reading /\ p # "boot" /\ p \in Serving
    /\ \A p \in Reading : p \notin Busy /\ p \notin Idle /\ p # "boot" /\ p \in Serving
    /\ \A p \in Serving : p \in Idle \/ p \in Busy \/ p \in Reading
    /\ {"recv", "receiving", "handle", "config", "targets", "fetch", "fetched", "send",
        "sending", "close"} \subseteq Busy
    /\ {"boot", "aborted", "exited"} \cap Serving = {}
BY DEF Idle, Busy, Reading, Serving, Blocked

\* The listener has the lowest descriptor, and there is always a free one for the
\* next.
LEMMA Lowest ==
    /\ server_sock \in Descriptors
    /\ -1 \notin Descriptors
    /\ \A d \in Descriptors : fds[d] = "free" =>
           LowestFree \in Descriptors /\ fds[LowestFree] = "free" /\ LowestFree <= d
    /\ \A d \in Descriptors : server_sock <= d
    /\ \A x, y : \E d \in Descriptors : d # x /\ d # y
<1>1. Descriptors \subseteq Nat /\ \E a, b, c \in Descriptors : a # b /\ b # c /\ a # c
  BY ServerAssumption
<1>2. Descriptors # {} /\ -1 \notin Descriptors
  BY <1>1
<1>3. server_sock \in Descriptors /\ \A d \in Descriptors : server_sock <= d
  BY <1>1, <1>2, MinLemma DEF server_sock
<1>. DEFINE F == {d \in Descriptors : fds[d] = "free"}
<1>4. F \subseteq Nat
  BY <1>1
<1>5. F # {} => LowestFree \in F /\ \A y \in F : LowestFree <= y
  <2>1. LowestFree = Min(F)
    BY DEF LowestFree
  <2>. HIDE DEF F
  <2>. QED
    BY <1>4, <2>1, MinLemma
<1>6. \A x, y : \E d \in Descriptors : d # x /\ d # y
  BY <1>1
<1>. QED
  BY <1>2, <1>3, <1>5, <1>6

\* Steps that leave the descriptors alone and stay in their stage.
LEMMA FdStay ==
    ASSUME FdInv, UNCHANGED <<fds, client_sock, sock, stray, running, signals>>,
           \/ pc' = pc
           \/ pc \in Idle /\ pc' \in Idle
           \/ pc \in Busy /\ pc' \in Busy
           \/ pc' \in {"aborted", "exited"}
    PROVE  FdInv'
<1>1. \A d : Rest(d)' = Rest(d)
  BY DEF Rest, server_sock
<1>2. server_sock' = server_sock
  BY DEF server_sock
<1>. QED
  BY <1>1, <1>2, Stages DEF FdInv

\* main begins to listen.
LEMMA FdBoot ==
    ASSUME FdInv, NEW f, Boot(f)
    PROVE  FdInv'
<1>1. UNCHANGED <<client_sock, sock, stray, running, signals>> /\ pc = "boot"
  BY DEF Boot
<1>2. CASE UNCHANGED fds /\ pc' \in {"aborted", "exited"}
  BY <1>1, <1>2, FdStay
<1>3. CASE pc' = "test" /\ Open("listen")
  <2>1. running /\ \A d \in Descriptors : fds[d] = "free"
    BY <1>1 DEF FdInv
  <2>2. LowestFree = server_sock
    <3>1. LowestFree \in Descriptors /\ LowestFree <= server_sock /\ server_sock <= LowestFree
      BY <2>1, Lowest
    <3>2. LowestFree \in Nat /\ server_sock \in Nat
      BY <3>1, Lowest, ServerAssumption
    <3>. QED
      BY <3>1, <3>2
  <2>3. fds' = [fds EXCEPT ![server_sock] = "listen"]
    BY <1>3, <2>2 DEF Open
  <2>4. \A d \in Descriptors : fds'[d] = Rest(d)'
    BY <1>1, <2>1, <2>3, Lowest DEF Rest, FdInv, server_sock
  <2>5. fds' \in [Descriptors -> {"free", "listen", "client", "source"}]
    BY <2>3 DEF FdInv
  <2>. QED
    BY <1>1, <1>3, <2>4, <2>5, Stages DEF FdInv, Idle
<1>. QED
  BY <1>2, <1>3 DEF Boot

\* The end of the loop: the number of the listener is closed again.
LEMMA FdTest ==
    ASSUME FdInv, Test
    PROVE  FdInv'
<1>1. UNCHANGED <<client_sock, sock, running, signals>> /\ pc = "test"
  BY DEF Test
<1>2. CASE running
  <2>1. UNCHANGED <<fds, stray>> /\ pc' = "accept"
    BY <1>2 DEF Test
  <2>. QED
    BY <1>1, <2>1, FdStay DEF Idle
<1>3. CASE ~running
  <2>1. pc' = "exited" /\ Close(server_sock, "listen")
    BY <1>3 DEF Test
  <2>2. fds[server_sock] = "free"
    BY <1>1, <1>3, Lowest DEF FdInv, Idle, Rest
  <2>3. stray' = stray
    BY <2>1, <2>2 DEF Close, FdInv
  <2>4. fds' \in [Descriptors -> {"free", "listen", "client", "source"}]
    BY <2>1 DEF Close, FdInv
  <2>. QED
    BY <1>1, <2>1, <2>3, <2>4, Stages DEF FdInv
<1>. QED
  BY <1>2, <1>3

\* A connection gets a descriptor of its own.
LEMMA FdAccept ==
    ASSUME FdInv, Accept
    PROVE  FdInv'
<1>. DEFINE c == LowestFree
<1>1. /\ UNCHANGED <<sock, stray, running, signals>> /\ pc \in Idle /\ pc' = "recv"
      /\ fds[server_sock] = "listen" /\ client_sock' = c /\ fds' = [fds EXCEPT ![c] = "client"]
  BY DEF Accept, Open, Idle
<1>2. sock = -1 /\ \A d \in Descriptors : fds[d] = Rest(d)
  BY <1>1 DEF FdInv
<1>3. c \in Descriptors /\ fds[c] = "free"
  <2>1. \E d \in Descriptors : d # server_sock
    BY Lowest
  <2>2. \E d \in Descriptors : fds[d] = "free"
    BY <1>2, <2>1 DEF Rest
  <2>. QED
    BY <2>2, Lowest
<1>. HIDE DEF c
<1>4. c # server_sock
  BY <1>1, <1>3
<1>5. fds' \in [Descriptors -> {"free", "listen", "client", "source"}]
  BY <1>1 DEF FdInv
<1>6. \A d \in Descriptors : fds'[d] = IF d = c THEN "client" ELSE Rest(d)
  BY <1>1, <1>2, <1>3 DEF FdInv
<1>7. \A d : Rest(d)' = Rest(d) /\ server_sock' = server_sock
  BY <1>1 DEF Rest, server_sock
<1>8. pc' \in Busy
  BY <1>1, Stages
<1>. QED
  BY <1>1, <1>2, <1>3, <1>4, <1>5, <1>6, <1>7, <1>8, Stages DEF FdInv

\* So does a source, possibly the number the listener had.
LEMMA FdOpens ==
    ASSUME FdInv, FetchOpens
    PROVE  FdInv'
<1>. DEFINE c == LowestFree
<1>1. /\ UNCHANGED <<client_sock, stray, running, signals>> /\ pc \in Busy /\ pc' \in Reading
      /\ sock' = c /\ fds' = [fds EXCEPT ![c] = "source"]
  BY Stages DEF FetchOpens, Open, Reading, Here
<1>2. /\ client_sock \in Descriptors \ {server_sock}
      /\ \A d \in Descriptors : fds[d] = IF d = client_sock THEN "client" ELSE Rest(d)
  BY <1>1 DEF FdInv
<1>3. c \in Descriptors /\ fds[c] = "free"
  <2>1. PICK d \in Descriptors : d # server_sock /\ d # client_sock
    BY Lowest
  <2>2. fds[d] = "free"
    BY <1>2, <2>1 DEF Rest
  <2>. QED
    BY <2>2, Lowest
<1>. HIDE DEF c
<1>4. c # client_sock /\ (c = server_sock => ~running)
  BY <1>2, <1>3 DEF Rest
<1>5. fds' \in [Descriptors -> {"free", "listen", "client", "source"}] /\ fds'[c] = "source"
  BY <1>1, <1>3 DEF FdInv
<1>6. \A d \in Descriptors \ {c} : fds'[d] = IF d = client_sock THEN "client" ELSE Rest(d)
  BY <1>1, <1>2, <1>3 DEF FdInv
<1>7. \A d : Rest(d)' = Rest(d) /\ server_sock' = server_sock
  BY <1>1 DEF Rest, server_sock
<1>. QED
  BY <1>1, <1>2, <1>3, <1>4, <1>5, <1>6, <1>7, Stages DEF FdInv

\* The source is closed by its number; that is still its own, or nobody's.
LEMMA FdCloses ==
    ASSUME FdInv, pc \in Reading, pc' = "fetched", Close(sock, "source"), sock' = -1,
           UNCHANGED <<client_sock, running, signals>>
    PROVE  FdInv'
<1>1. /\ client_sock \in Descriptors \ {server_sock}
      /\ sock \in Descriptors \ {client_sock}
      /\ sock = server_sock => ~running
      /\ fds[sock] \in {"source", "free"}
      /\ \A d \in Descriptors \ {sock} : fds[d] = IF d = client_sock THEN "client" ELSE Rest(d)
  BY DEF FdInv
<1>2. stray' = stray
  BY <1>1 DEF Close, FdInv
<1>3. fds' \in [Descriptors -> {"free", "listen", "client", "source"}]
  BY DEF Close, FdInv
<1>4. \A d \in Descriptors : fds'[d] = IF d = client_sock THEN "client" ELSE Rest(d)
  BY <1>1 DEF Close, FdInv, Rest
<1>5. \A d : Rest(d)' = Rest(d) /\ server_sock' = server_sock
  BY DEF Rest, server_sock
<1>6. pc' \in Busy
  BY Stages
<1>. QED
  BY <1>1, <1>2, <1>3, <1>4, <1>5, <1>6, Stages DEF FdInv

\* The connection is closed by its number, which is its own.
LEMMA FdCloseClient ==
    ASSUME FdInv, CloseClient
    PROVE  FdInv'
<1>1. /\ UNCHANGED <<sock, running, signals>> /\ pc = "close" /\ pc' = "test"
      /\ client_sock' = -1 /\ Close(client_sock, "client")
  BY DEF CloseClient
<1>2. /\ client_sock \in Descriptors \ {server_sock} /\ sock = -1
      /\ \A d \in Descriptors : fds[d] = IF d = client_sock THEN "client" ELSE Rest(d)
  BY <1>1, Stages DEF FdInv
<1>3. stray' = stray
  BY <1>1, <1>2 DEF Close, FdInv
<1>4. fds' \in [Descriptors -> {"free", "listen", "client", "source"}]
  BY <1>1 DEF Close, FdInv
<1>5. \A d \in Descriptors : fds'[d] = Rest(d)
  BY <1>1, <1>2 DEF Close, FdInv, Rest
<1>6. \A d : Rest(d)' = Rest(d)
  BY <1>1 DEF Rest, server_sock
<1>7. pc' \in Idle
  BY <1>1 DEF Idle
<1>. QED
  BY <1>1, <1>2, <1>3, <1>4, <1>5, <1>6, <1>7, Stages DEF FdInv

\* One more signal.
LEMMA OneMore ==
    ASSUME FdInv, signals < MaxSignals, signals' = signals + 1, running' = FALSE
    PROVE  /\ signals' \in 0..MaxSignals /\ signals' > 0
           /\ running' \in BOOLEAN /\ (running' <=> signals' = 0)
           /\ ~running => signals' >= 2
           /\ stray => signals' >= 2
<1>1. signals \in 0..MaxSignals /\ MaxSignals \in Nat
  BY ServerAssumption DEF FdInv
<1>2. (running <=> signals = 0) /\ (stray => signals >= 2)
  BY DEF FdInv
<1>3. signals' \in 0..MaxSignals /\ signals' > 0 /\ signals' # 0
  BY <1>1
<1>4. ~running => signals' >= 2
  <2>1. signals # 0 => signals' >= 2
    BY <1>1
  <2>. QED
    BY <1>2, <2>1, Zenon
<1>5. stray => signals' >= 2
  <2>1. signals >= 2 => signals' >= 2
    BY <1>1
  <2>. QED
    BY <1>2, <2>1, Zenon
<1>6. running' \in BOOLEAN /\ (running' <=> signals' = 0)
  BY <1>3, Zenon
<1>. QED
  BY <1>3, <1>4, <1>5, <1>6

\* A signal closes the listener's number, whoever has it.
LEMMA FdSignal ==
    ASSUME FdInv, Signal
    PROVE  FdInv'
<1>1. /\ pc \in Serving /\ running' = FALSE /\ signals' = signals + 1 /\ signals < MaxSignals
      /\ Close(server_sock, "listen") /\ UNCHANGED <<client_sock, sock>>
  BY DEF Signal, http_signal_handler
<1>0. /\ signals' \in 0..MaxSignals /\ signals' > 0
      /\ running' \in BOOLEAN /\ (running' <=> signals' = 0)
      /\ ~running => signals' >= 2
      /\ stray => signals' >= 2
  BY <1>1, OneMore
<1>2. pc' \in Serving /\ (pc \in Idle => pc' \in Idle) /\ (pc \in Busy => pc' \in Busy)
      /\ (pc \in Reading => pc' = pc)
  <2>1. /\ pc = "accepting" => pc' = "test"
        /\ pc \in {"receiving", "sending"} => pc' = "close"
        /\ pc \notin {"accepting", "receiving", "sending"} => pc' = pc
    BY DEF Signal, Interrupted
  <2>. QED
    BY <1>1, <2>1 DEF Idle, Busy, Reading, Serving, Blocked
<1>3. fds' \in [Descriptors -> {"free", "listen", "client", "source"}]
      /\ fds' = [fds EXCEPT ![server_sock] = "free"]
  BY <1>1 DEF Close, FdInv
<1>4. \A d : Rest(d)' = "free" /\ server_sock' = server_sock
  BY <1>1 DEF Rest, server_sock
<1>5. CASE pc \in Idle
  <2>1. stray' = stray
    BY <1>1, <1>5, Lowest DEF Close, FdInv, Rest
  <2>2. \A d \in Descriptors : fds'[d] = "free"
    BY <1>3, <1>5 DEF FdInv, Rest
  <2>. QED
    BY <1>0, <1>1, <1>2, <1>3, <1>4, <1>5, <2>1, <2>2, Stages DEF FdInv
<1>6. CASE pc \in Busy
  <2>1. stray' = stray
    BY <1>1, <1>6, Lowest DEF Close, FdInv, Rest
  <2>2. \A d \in Descriptors : fds'[d] = IF d = client_sock THEN "client" ELSE "free"
    BY <1>3, <1>6 DEF FdInv, Rest
  <2>. QED
    BY <1>0, <1>1, <1>2, <1>3, <1>4, <1>6, <2>1, <2>2, Stages DEF FdInv
<1>7. CASE pc \in Reading
  <2>1. /\ client_sock \in Descriptors \ {server_sock}
        /\ sock \in Descriptors \ {client_sock}
        /\ sock = server_sock => ~running
        /\ \A d \in Descriptors \ {sock} : fds[d] = IF d = client_sock THEN "client" ELSE Rest(d)
    BY <1>7 DEF FdInv
  <2>2. \A d \in Descriptors \ {sock} : fds'[d] = IF d = client_sock THEN "client" ELSE "free"
    BY <1>3, <2>1 DEF Rest, FdInv
  <2>3. sock = server_sock => signals' >= 2 /\ fds'[sock] = "free"
    BY <1>0, <1>3, <2>1 DEF FdInv
  <2>4. sock # server_sock => stray' = stray /\ fds'[sock] = "source"
    <3>. SUFFICES ASSUME sock # server_sock PROVE stray' = stray /\ fds'[sock] = "source"
      OBVIOUS
    <3>1. fds[server_sock] \in {"free", "listen"}
      BY <2>1, Lowest DEF Rest
    <3>2. fds[sock] = "source"
      BY <1>7 DEF FdInv
    <3>. QED
      BY <1>1, <1>3, <2>1, <3>1, <3>2 DEF Close, FdInv
  <2>5. stray' \in BOOLEAN /\ (stray' => signals' >= 2)
    <3>1. CASE sock = server_sock
      BY <1>1, <2>3, <3>1 DEF Close
    <3>2. CASE sock # server_sock
      BY <1>0, <2>4, <3>2 DEF FdInv
    <3>. QED
      BY <3>1, <3>2
  <2>. QED
    BY <1>0, <1>1, <1>2, <1>3, <1>4, <1>7, <2>1, <2>2, <2>3, <2>4, <2>5, Stages DEF FdInv
<1>. QED
  BY <1>1, <1>5, <1>6, <1>7, Stages

\* SIGPIPE in the middle of a fetch: both the listener's number and the source's
\* are closed.
LEMMA FdPipe ==
    ASSUME FdInv, ExporterBreaksPipe
    PROVE  FdInv'
<1>1. /\ pc = "ask" /\ pc' = "fetched" /\ fds[sock] = "source"
      /\ running' = FALSE /\ signals' = signals + 1 /\ signals < MaxSignals
      /\ fds' = [fds EXCEPT ![server_sock] = "free", ![sock] = "free"]
      /\ stray' = (stray \/ fds[server_sock] \notin {"free", "listen"})
      /\ sock' = -1 /\ client_sock' = client_sock
  BY DEF ExporterBreaksPipe, Fetched
<1>0. /\ signals' \in 0..MaxSignals /\ signals' > 0
      /\ running' \in BOOLEAN /\ (running' <=> signals' = 0)
      /\ ~running => signals' >= 2
      /\ stray => signals' >= 2
  BY <1>1, OneMore
<1>2. /\ client_sock \in Descriptors \ {server_sock}
      /\ sock \in Descriptors \ {client_sock}
      /\ sock = server_sock => ~running
      /\ \A d \in Descriptors \ {sock} : fds[d] = IF d = client_sock THEN "client" ELSE Rest(d)
  BY <1>1 DEF FdInv, Reading
<1>3. stray' \in BOOLEAN /\ (stray' => signals' >= 2)
  <2>1. CASE sock = server_sock
    BY <1>0, <1>1, <1>2, <2>1
  <2>2. CASE sock # server_sock
    <3>1. fds[server_sock] \in {"free", "listen"}
      BY <1>2, <2>2, Lowest DEF Rest
    <3>. QED
      BY <1>0, <1>1, <3>1 DEF FdInv
  <2>. QED
    BY <2>1, <2>2
<1>4. fds' \in [Descriptors -> {"free", "listen", "client", "source"}]
  BY <1>1 DEF FdInv
<1>5. \A d \in Descriptors : fds'[d] = IF d = client_sock THEN "client" ELSE "free"
  BY <1>1, <1>2 DEF FdInv, Rest
<1>6. \A d : Rest(d)' = "free" /\ server_sock' = server_sock
  BY <1>1 DEF Rest, server_sock
<1>7. pc' \in Busy
  BY <1>1, Stages
<1>. QED
  BY <1>0, <1>1, <1>2, <1>3, <1>4, <1>5, <1>6, <1>7, Stages DEF FdInv

----------------------------------------------------------------------------
\* Before a request is handled, while its data is fetched, and while the peer
\* cannot change it any more.
Early == {"boot", "test", "accept", "accepting", "recv", "receiving", "handle"}
Fetching == {"fetch", "read", "ask"}
Handling == {"handle", "config", "targets", "fetch", "read", "ask", "fetched", "send", "sending"}

\* config.metrics holds what load_config made of the file.
ConfInv ==
    /\ metrics \in Seq(MetricConfig)
    /\ pc = "boot" => metrics = <<>>
    /\ \A i \in DOMAIN metrics : /\ file.metrics[i] \in Texts \cup {NotObject}
                                 /\ metrics[i] \in SlotsFor(file.metrics[i])

\* The request being handled stays as it is.
ReqInv ==
    /\ req \in Requests \cup {NoRequest}
    /\ rest \in Seq(Seq(Strings))
    /\ pc \in Handling => client # "silent"

\* What is allocated at each stage.
QueryMem == IF Grafana THEN {"targets", "out"} ELSE {}
MemInv ==
    /\ live \subseteq Allocations
    /\ leaked \subseteq {"theme"}
    /\ oom \in 0..MaxOom
    /\ answer \in {"none", "error", "svg", "json"}
    /\ pc # "fetched" => data = NoData
    /\ pc \in Early => live = {}
    /\ pc = "config" => live \subseteq {"theme", "json"}
    /\ pc = "targets" => Grafana /\ live \subseteq {"theme", "targets", "out"}
    /\ pc \in Fetching => live \subseteq {"theme", "param"} \cup QueryMem
    /\ pc = "fetched" => /\ live \subseteq {"theme", "data"} \cup QueryMem
                         /\ "data" \in live => data # NoData
    /\ pc \in {"send", "sending"} =>
          live \ {"result"} \subseteq (IF answer = "svg" THEN {} ELSE {"theme"})
    /\ pc = "close" => live \subseteq {"theme", "result"}

\* The metric is the best match of the path, and the data its own.
PathInv ==
    /\ metric \in 0..Len(metrics)
    /\ pc \in Early => metric = 0
    /\ pc \in Fetching \cup {"fetched"} =>
          metric \in BestMatch(Path) /\ (Grafana => rest # <<>>)
    /\ pc = "read" /\ metrics[metric].source = "rrd" => RrdFile \in RrdFiles
    /\ pc = "ask" => metrics[metric].source = "prometheus"
    /\ pc = "fetched" /\ data # NoData =>
          /\ data.source = metrics[metric].source
          /\ data.source = "rrd" => data.of = RrdFile /\ RrdFile \in RrdFiles

\* A text that did not fit was longer than JsonRoom, and as long as all fitted
\* there is room for JsonRoom more.
JsonBuffers ==
    {b \in [off : Nat, size : Nat, left : Nat, over : Nat] : b.over = 0 \/ b.over > JsonRoom}
HasRoom(b) == b.over = 0 => b.off + JsonRoom < b.size
JsonInv == json \in JsonBuffers /\ (pc = "config" => HasRoom(json))

WorkInv == ConfInv /\ ReqInv /\ MemInv /\ PathInv /\ JsonInv
ServerInv == FdInv /\ WorkInv

----------------------------------------------------------------------------
\* What load_config returns.
LEMMA ConfigLemma ==
    ASSUME NEW f \in Files, NEW ms \in load_config(f)
    PROVE  /\ ms \in Seq(MetricConfig)
           /\ \A i \in DOMAIN ms : /\ f.metrics[i] \in Texts \cup {NotObject}
                                   /\ ms[i] \in SlotsFor(f.metrics[i])
<1>1. CASE ms = <<>>
  BY <1>1
<1>2. CASE ms # <<>>
  <2>1. /\ f.metrics # NotArray
        /\ DOMAIN ms = DOMAIN f.metrics
        /\ \A i \in DOMAIN ms : ms[i] \in SlotsFor(f.metrics[i])
        /\ ms = [i \in DOMAIN f.metrics |-> ms[i]]
    BY <1>2 DEF load_config
  <2>2. f.metrics \in Seq(Texts \cup {NotObject})
    BY <2>1, ServerAssumption
  <2>3. DOMAIN f.metrics = 1..Len(f.metrics) /\ Len(f.metrics) \in Nat
        /\ \A i \in DOMAIN f.metrics : f.metrics[i] \in Texts \cup {NotObject}
    BY <2>2
  <2>4. ASSUME NEW i \in DOMAIN ms PROVE ms[i] \in MetricConfig
    <3>. DEFINE e == f.metrics[i]
                m == parse_metric_config(e)
    <3>1. e \in Texts \cup {NotObject} /\ ms[i] \in SlotsFor(e)
      BY <2>1, <2>3
    <3>. HIDE DEF e
    <3>2. CASE e = NotObject
      BY <3>1, <3>2, ConfigAssumption DEF SlotsFor
    <3>3. CASE e # NotObject
      <4>1. e \in Texts
        BY <3>1, <3>3
      <4>2. metric_source_from_string(e.source) \in {"rrd", "proc", "prometheus"}
        BY DEF metric_source_from_string
      <4>3. m = [e EXCEPT !.source = metric_source_from_string(e.source)]
        BY DEF parse_metric_config
      <4>4. m \in Texts /\ m.source = metric_source_from_string(e.source)
        BY <4>1, <4>2, <4>3, ConfigAssumption DEF Texts
      <4>5. m \in MetricConfig
        BY <4>2, <4>4 DEF MetricConfig
      <4>6. Blank \in MetricConfig
        <5>1. "" \in Strings /\ "rrd" \in Strings
          BY ConfigAssumption
        <5>2. Blank \in Texts /\ Blank.source = "rrd"
          <6>. DEFINE none == <<>>
                      paths == Seq(Strings)
          <6>1. none \in paths
            OBVIOUS
          <6>2. Blank = [endpoint |-> none, requires_param |-> FALSE, source |-> "rrd",
                         rrd_path |-> "", spec |-> ""]
            BY DEF Blank
          <6>3. Texts = [endpoint : paths, requires_param : BOOLEAN, source : Strings,
                         rrd_path : Strings, spec : Strings]
            BY DEF Texts
          <6>. HIDE DEF none, paths
          <6>. QED
            BY <5>1, <6>1, <6>2, <6>3
        <5>. QED
          BY <5>2 DEF MetricConfig
      <4>7. ms[i] = IF Invalid(m) THEN Blank ELSE m
        BY <3>1, <3>3 DEF SlotsFor
      <4>. QED
        BY <4>5, <4>6, <4>7
    <3>. QED
      BY <3>2, <3>3
  <2>5. ms \in [1..Len(f.metrics) -> MetricConfig]
    BY <2>1, <2>3, <2>4
  <2>6. ms \in Seq(MetricConfig)
    BY <2>3, <2>5
  <2>. QED
    BY <2>1, <2>3, <2>6
<1>. QED
  BY <1>1, <1>2

\* A request and its targets are paths.
LEMMA PathsTyped ==
    ASSUME ReqInv
    PROVE  /\ req.path \in Seq(Strings) /\ req.targets \in Seq(Seq(Strings))
           /\ rest # <<>> => Head(rest) \in Seq(Strings) /\ Tail(rest) \in Seq(Seq(Strings))
<1>1. NoRequest.path \in Seq(Strings) /\ NoRequest.targets \in Seq(Seq(Strings))
  <2>1. NoRequest.path = <<>> /\ NoRequest.targets = <<>>
    BY DEF NoRequest
  <2>2. <<>> \in Seq(Strings) /\ <<>> \in Seq(Seq(Strings))
    OBVIOUS
  <2>. QED
    BY <2>1, <2>2
<1>2. req.path \in Seq(Strings) /\ req.targets \in Seq(Seq(Strings))
  <2>1. CASE req = NoRequest
    BY <1>1, <2>1
  <2>2. CASE req \in Requests
    BY <2>2, ServerAssumption
  <2>. QED
    BY <2>1, <2>2 DEF ReqInv
<1>3. rest \in Seq(Seq(Strings))
  BY DEF ReqInv
<1>. HIDE DEF ReqInv
<1>4. rest # <<>> => Head(rest) \in Seq(Strings) /\ Tail(rest) \in Seq(Seq(Strings))
  BY <1>3
<1>. QED
  BY <1>2, <1>4

\* The peer, and steps of the loop around a request, touch none of this.
LEMMA WorkStay ==
    ASSUME WorkInv,
           UNCHANGED <<file, metrics, metric, rest, data, json, answer, live, leaked, oom>>,
           pc' = pc, req' \in Requests \cup {NoRequest},
           pc \in Handling => UNCHANGED req /\ client' # "silent"
    PROVE  WorkInv'
<1>. USE DEF WorkInv
<1>1. ConfInv' /\ JsonInv' /\ ReqInv'
  BY DEF ConfInv, JsonInv, ReqInv
<1>2. pc \in Handling => (Grafana' <=> Grafana) /\ QueryMem' = QueryMem
  BY DEF Grafana, QueryMem
<1>3. pc \in Fetching \cup {"fetched", "targets"} => pc \in Handling
  BY DEF Fetching, Handling
<1>4. MemInv'
  BY <1>2, <1>3 DEF MemInv
<1>5. pc \in Handling => /\ Path' = Path /\ RrdFile' = RrdFile
                         /\ BestMatch(Path)' = BestMatch(Path)
  BY DEF Path, Grafana, RrdFile, Param, BestMatch, IsMatch
<1>6. PathInv'
  <2>1. CASE pc \in Fetching \cup {"fetched"}
    <3>1. /\ Path' = Path /\ RrdFile' = RrdFile /\ BestMatch(Path)' = BestMatch(Path)
          /\ (Grafana' <=> Grafana)
      BY <1>2, <1>3, <1>5, <2>1
    <3>. QED
      BY <3>1 DEF PathInv
  <2>2. CASE pc \notin Fetching \cup {"fetched"}
    BY <2>2 DEF PathInv, Fetching
  <2>. QED
    BY <2>1, <2>2
<1>. QED
  BY <1>1, <1>4, <1>6

\* Steps of the loop around the handling of a request.
LEMMA WorkAround ==
    ASSUME WorkInv,
           UNCHANGED <<file, metrics, metric, rest, data, json, live, leaked, oom>>,
           req' \in Requests \cup {NoRequest},
           answer' \in {"none", "error", "svg", "json"},
           pc # "fetched", pc' # "boot",
           pc' \notin Fetching \cup {"fetched", "config", "targets"},
           pc' \in Early => pc \in Early,
           pc' \in Handling => client' # "silent",
           pc' \in {"send", "sending"} =>
               live \ {"result"} \subseteq (IF answer' = "svg" THEN {} ELSE {"theme"}),
           pc' = "close" => live \subseteq {"theme", "result"}
    PROVE  WorkInv'
<1>. USE DEF WorkInv
<1>1. ConfInv' /\ ReqInv'
  BY DEF ConfInv, ReqInv
<1>2. JsonInv'
  BY DEF JsonInv
<1>3. MemInv'
  BY DEF MemInv, Fetching
<1>4. PathInv'
  BY DEF PathInv, Fetching
<1>. QED
  BY <1>1, <1>2, <1>3, <1>4

\* What a step of the handling leaves alone.
LEMMA HereLemma ==
    ASSUME ConfInv, ReqInv, UNCHANGED <<file, metrics, client, req>>, pc \in Handling,
           pc' # "boot", rest' \in Seq(Seq(Strings))
    PROVE  /\ ConfInv' /\ ReqInv'
           /\ (Grafana' <=> Grafana) /\ QueryMem' = QueryMem
<1>1. ConfInv' /\ ReqInv'
  BY DEF ConfInv, ReqInv
<1>2. (Grafana' <=> Grafana)
  BY DEF Grafana
<1>. QED
  BY <1>1, <1>2 DEF QueryMem

\* One more allocation may have failed.
LEMMA OomLemma ==
    ASSUME oom \in 0..MaxOom, OutOfMemory \/ UNCHANGED oom
    PROVE  oom' \in 0..MaxOom
<1>0. MaxOom \in Nat
  BY ServerAssumption
<1>1. CASE oom < MaxOom /\ oom' = oom + 1
  BY <1>0, <1>1
<1>2. CASE oom' = oom
  BY <1>2
<1>. QED
  BY <1>1, <1>2 DEF OutOfMemory

\* The handling of a request ends.
LEMMA FinishLemma ==
    ASSUME WorkInv, NEW kind \in {"error", "svg", "json"}, NEW A,
           pc \in Handling, Finish(kind, A),
           A \subseteq (IF kind = "svg" THEN {} ELSE {"theme"}),
           UNCHANGED Here, rest' \in Seq(Seq(Strings)), metric' \in 0..Len(metrics),
           data' = NoData, OutOfMemory \/ UNCHANGED oom,
           json' \in JsonBuffers
    PROVE  WorkInv'
<1>. USE DEF WorkInv
<1>0. pc' # "boot"
  BY DEF Finish
<1>1. ConfInv' /\ ReqInv' /\ metrics' = metrics /\ leaked' = leaked
  BY <1>0, HereLemma DEF Here
<1>2. oom' \in 0..MaxOom
  BY OomLemma DEF MemInv
<1>3. pc' = "send" /\ answer' = kind /\ live' = A \cup {"result"}
  BY DEF Finish
<1>4. MemInv'
  BY <1>1, <1>2, <1>3 DEF MemInv, Early, Fetching, Allocations
<1>5. PathInv'
  BY <1>1, <1>3 DEF PathInv, Early, Fetching
<1>6. JsonInv'
  BY <1>3 DEF JsonInv
<1>. QED
  BY <1>1, <1>4, <1>5, <1>6

\* A source has returned.
LEMMA FetchedLemma ==
    ASSUME WorkInv, NEW result, pc \in Fetching, Fetched(result),
           UNCHANGED <<file, metrics, client, req, leaked, metric, rest, json, answer, oom>>,
           \/ result = NoData
           \/ /\ result.source = metrics[metric].source
              /\ result.source = "rrd" => result.of = RrdFile /\ RrdFile \in RrdFiles
    PROVE  WorkInv'
<1>. USE DEF WorkInv
<1>1. pc \in Handling /\ pc' # "boot"
  BY DEF Fetching, Handling, Fetched
<1>2. ConfInv' /\ ReqInv' /\ (Grafana' <=> Grafana) /\ QueryMem' = QueryMem
  BY <1>1, HereLemma DEF ReqInv
<1>3. /\ pc' = "fetched" /\ data' = result
      /\ live' = (live \ {"param"}) \cup (IF result = NoData THEN {} ELSE {"data"})
  BY DEF Fetched
<1>4. live \subseteq {"theme", "param"} \cup QueryMem /\ QueryMem \subseteq {"targets", "out"}
  BY DEF MemInv, QueryMem
<1>5. /\ live' \subseteq {"theme", "data"} \cup QueryMem' /\ live' \subseteq Allocations
      /\ "data" \in live' => data' # NoData
  BY <1>2, <1>3, <1>4 DEF Allocations
<1>6. MemInv'
  BY <1>3, <1>5 DEF MemInv, Early, Fetching
<1>7. Path' = Path /\ RrdFile' = RrdFile /\ BestMatch(Path)' = BestMatch(Path)
  BY DEF Path, Grafana, RrdFile, Param, BestMatch, IsMatch
<1>8. PathInv'
  BY <1>2, <1>3, <1>7 DEF PathInv, Early, Fetching
<1>9. JsonInv'
  BY <1>3 DEF JsonInv
<1>. QED
  BY <1>2, <1>6, <1>8, <1>9

----------------------------------------------------------------------------
\* main: the configuration is loaded.
LEMMA WorkBoot ==
    ASSUME WorkInv, NEW f \in Files, Boot(f)
    PROVE  WorkInv'
<1>. USE DEF WorkInv
<1>1. /\ pc = "boot" /\ pc' \in {"aborted", "exited", "test"} /\ file' = f
      /\ UNCHANGED <<client, req, metric, rest, data, json, answer, live, leaked, oom>>
  BY DEF Boot, workVars, memVars
<1>2. metric = 0 /\ live = {} /\ data = NoData /\ metrics = <<>>
  BY <1>1 DEF PathInv, MemInv, ConfInv, Early
<1>3. ConfInv'
  <2>1. CASE metrics' = <<>>
    BY <1>1, <2>1 DEF ConfInv
  <2>2. CASE metrics' \in load_config(f)
    BY <1>1, <2>2, ConfigLemma DEF ConfInv
  <2>. QED
    BY <1>2, <2>1, <2>2 DEF Boot
<1>4. Len(metrics') \in Nat
  BY <1>3 DEF ConfInv
<1>5. PathInv'
  BY <1>1, <1>2, <1>4 DEF PathInv, Fetching
<1>6. ReqInv'
  BY <1>1 DEF ReqInv, Handling
<1>7. MemInv'
  BY <1>1, <1>2 DEF MemInv, Fetching
<1>8. JsonInv'
  BY <1>1 DEF JsonInv
<1>. QED
  BY <1>3, <1>5, <1>6, <1>7, <1>8

\* The test of the loop; at its end the configuration is freed.
LEMMA WorkTest ==
    ASSUME WorkInv, Test
    PROVE  WorkInv'
<1>. USE DEF WorkInv
<1>1. /\ pc = "test"
      /\ UNCHANGED <<file, client, req, metric, rest, data, json, answer, live, leaked, oom>>
  BY DEF Test, workVars, memVars
<1>2. CASE pc' = "accept" /\ metrics' = metrics
  BY <1>1, <1>2, WorkAround DEF Fetching, Early, Handling, MemInv, ReqInv
<1>3. CASE pc' = "exited" /\ metrics' = <<>>
  <2>1. metric = 0 /\ live = {} /\ data = NoData
    BY <1>1 DEF PathInv, MemInv, Early
  <2>2. ConfInv'
    BY <1>3 DEF ConfInv
  <2>3. PathInv'
    BY <1>1, <1>3, <2>1 DEF PathInv, Fetching
  <2>4. ReqInv'
    BY <1>1, <1>3 DEF ReqInv, Handling
  <2>5. MemInv'
    BY <1>1, <1>3, <2>1 DEF MemInv, Fetching
  <2>6. JsonInv'
    BY <1>1, <1>3 DEF JsonInv
  <2>. QED
    BY <2>2, <2>3, <2>4, <2>5, <2>6
<1>. QED
  BY <1>2, <1>3 DEF Test

\* accept, recv and send.
LEMMA WorkLoop ==
    ASSUME WorkInv,
           \/ AcceptWaits \/ AcceptFails \/ Accept \/ RecvWaits \/ Recv
           \/ Send \/ SendWaits \/ SendEnds
    PROVE  WorkInv'
<1>. USE DEF WorkInv
<1>1. /\ req \in Requests \cup {NoRequest} /\ answer \in {"none", "error", "svg", "json"}
      /\ pc \in Early => live = {}
      /\ pc \in Handling => client # "silent"
      /\ pc \in {"send", "sending"} =>
            live \ {"result"} \subseteq (IF answer = "svg" THEN {} ELSE {"theme"})
  BY DEF ReqInv, MemInv
<1>2. CASE AcceptWaits \/ AcceptFails \/ Accept \/ RecvWaits
  <2>1. /\ UNCHANGED <<file, metrics, metric, rest, data, json, answer, live, leaked, oom, req>>
        /\ pc \in {"accept", "accepting", "recv"}
        /\ pc' \in {"accepting", "test", "recv", "receiving"}
    BY <1>2 DEF AcceptWaits, AcceptFails, Accept, RecvWaits, workVars, memVars
  <2>. QED
    BY <1>1, <2>1, WorkAround DEF Fetching, Early, Handling
<1>3. CASE Recv
  <2>1. /\ UNCHANGED <<file, metrics, metric, rest, data, json, live, leaked, oom, req, client>>
        /\ pc \in {"recv", "receiving"} /\ client # "silent"
        /\ pc' \in {"close", "send", "handle"}
        /\ answer' \in {"error", "none"}
    BY <1>3 DEF Recv, AfterRecv, memVars
  <2>. QED
    BY <1>1, <2>1, WorkAround DEF Fetching, Early, Handling
<1>4. CASE Send \/ SendWaits \/ SendEnds
  <2>1. /\ UNCHANGED <<file, metrics, metric, rest, data, json, answer, live, leaked, oom, req, client>>
        /\ pc \in {"send", "sending"} /\ pc' \in {"close", "sending"}
    BY <1>4 DEF Send, SendWaits, SendEnds, Here, workVars
  <2>2. client # "silent"
    BY <1>1, <2>1 DEF Handling
  <2>3. live \subseteq {"theme", "result"}
    BY <1>1, <2>1
  <2>. QED
    BY <1>1, <2>1, <2>2, <2>3, WorkAround DEF Fetching, Early
<1>. QED
  BY <1>2, <1>3, <1>4

\* The peer.
LEMMA WorkPeer ==
    ASSUME WorkInv, ClientCloses \/ \E r \in Requests : ClientSends(r)
    PROVE  WorkInv'
<1>. USE DEF WorkInv
<1>1. req \in Requests \cup {NoRequest} /\ (pc \in Handling => client # "silent")
  BY DEF ReqInv
<1>2. /\ UNCHANGED <<file, metrics, metric, rest, data, json, answer, live, leaked, oom, pc>>
      /\ client' # "silent" /\ req' \in Requests \cup {NoRequest}
      /\ client = "silent" \/ req' = req
  BY <1>1 DEF ClientCloses, ClientSends, workVars, memVars
<1>. QED
  BY <1>1, <1>2, WorkStay

\* A signal, which may interrupt accept, recv or send.
LEMMA WorkSignal ==
    ASSUME WorkInv, Signal
    PROVE  WorkInv'
<1>. USE DEF WorkInv
<1>1. /\ req \in Requests \cup {NoRequest} /\ answer \in {"none", "error", "svg", "json"}
      /\ pc \in Early => live = {}
      /\ pc \in Handling => client # "silent"
      /\ pc \in {"send", "sending"} =>
            live \ {"result"} \subseteq (IF answer = "svg" THEN {} ELSE {"theme"})
  BY DEF ReqInv, MemInv
<1>2. UNCHANGED <<file, metrics, metric, rest, data, json, answer, live, leaked, oom, req, client>>
  BY DEF Signal, workVars, memVars
<1>3. \/ pc' = pc
      \/ pc = "accepting" /\ pc' = "test"
      \/ pc \in {"receiving", "sending"} /\ pc' = "close"
  BY DEF Signal, Interrupted
<1>4. CASE pc' = pc
  BY <1>1, <1>2, <1>4, WorkStay
<1>5. CASE pc = "accepting" /\ pc' = "test"
  BY <1>1, <1>2, <1>5, WorkAround DEF Fetching, Early, Handling
<1>6. CASE pc \in {"receiving", "sending"} /\ pc' = "close"
  <2>1. live \subseteq {"theme", "result"}
    BY <1>1, <1>6 DEF Early
  <2>. QED
    BY <1>1, <1>2, <1>6, <2>1, WorkAround DEF Fetching, Early, Handling
<1>. QED
  BY <1>3, <1>4, <1>5, <1>6

\* The end of the loop's body.
LEMMA WorkClose ==
    ASSUME WorkInv, CloseClient
    PROVE  WorkInv'
<1>. USE DEF WorkInv
<1>1. /\ pc = "close" /\ pc' = "test" /\ UNCHANGED <<file, metrics, data, oom>>
      /\ req' = NoRequest /\ leaked' = leaked \cup (live \ {"result"}) /\ live' = {}
      /\ answer' = "none" /\ metric' = 0 /\ rest' = <<>> /\ json' = NoJson
  BY DEF CloseClient
<1>2. live \subseteq {"theme", "result"} /\ leaked \subseteq {"theme"} /\ data = NoData
  BY <1>1 DEF MemInv
<1>3. ConfInv' /\ Len(metrics) \in Nat
  BY <1>1 DEF ConfInv
<1>4. ReqInv'
  BY <1>1 DEF ReqInv, Handling
<1>5. MemInv'
  BY <1>1, <1>2 DEF MemInv, Fetching
<1>6. PathInv'
  BY <1>1, <1>3 DEF PathInv, Fetching
<1>7. JsonInv'
  <2>1. NoJson \in JsonBuffers
    BY DEF NoJson, JsonBuffers
  <2>. QED
    BY <1>1, <2>1 DEF JsonInv
<1>. QED
  BY <1>3, <1>4, <1>5, <1>6, <1>7

----------------------------------------------------------------------------
\* The facts every step of the handling starts from.
LEMMA HandleFacts ==
    ASSUME WorkInv, pc \in Handling
    PROVE  /\ client # "silent" /\ rest \in Seq(Seq(Strings))
           /\ metrics \in Seq(MetricConfig) /\ Len(metrics) \in Nat
           /\ metric \in 0..Len(metrics)
           /\ json \in JsonBuffers /\ (pc = "config" => HasRoom(json))
           /\ oom \in 0..MaxOom
           /\ pc # "fetched" => data = NoData
           /\ pc = "handle" => Themed \subseteq {"theme"}
<1>. USE DEF WorkInv
<1>1. client # "silent" /\ rest \in Seq(Seq(Strings))
  BY DEF ReqInv
<1>2. metrics \in Seq(MetricConfig) /\ Len(metrics) \in Nat
  BY DEF ConfInv
<1>3. metric \in 0..Len(metrics)
  BY DEF PathInv
<1>4. json \in JsonBuffers /\ (pc = "config" => HasRoom(json))
  BY DEF JsonInv
<1>5. oom \in 0..MaxOom /\ (pc # "fetched" => data = NoData)
  BY DEF MemInv
<1>6. pc = "handle" => Themed \subseteq {"theme"}
  BY DEF MemInv, Early, Themed
<1>. QED
  BY <1>1, <1>2, <1>3, <1>4, <1>5, <1>6

\* A text written to a buffer that has room.
LEMMA WriteLemma ==
    ASSUME NEW b \in JsonBuffers, HasRoom(b), NEW len \in Nat
    PROVE  LET w == JsonWrite(b, len)
           IN  /\ w \in JsonBuffers /\ w.off = b.off + len /\ w.size = b.size /\ w.left = b.left
               /\ w.over = 0 => b.off + JsonRoom < b.size /\ w.off < w.size
<1>. DEFINE over == IF b.over = 0 /\ b.off + len >= b.size THEN len ELSE b.over
            w == JsonWrite(b, len)
<1>1. JsonRoom \in Nat
  BY JsonAssumption
<1>2. /\ b.off \in Nat /\ b.size \in Nat /\ b.left \in Nat /\ b.over \in Nat
      /\ b.over = 0 \/ b.over > JsonRoom
      /\ b.over = 0 => b.off + JsonRoom < b.size
  BY DEF JsonBuffers, HasRoom
<1>3. w = [off |-> b.off + len, size |-> b.size, left |-> b.left, over |-> over]
  <2>1. b \in [off : Nat, size : Nat, left : Nat, over : Nat]
    BY DEF JsonBuffers
  <2>2. w = [b EXCEPT !.off = b.off + len, !.over = over]
    BY DEF JsonWrite
  <2>. HIDE DEF w, over
  <2>. QED
    BY <2>1, <2>2
<1>4. over \in Nat /\ (over = 0 \/ over > JsonRoom)
  BY <1>1, <1>2
<1>5. over = 0 => b.off + JsonRoom < b.size /\ b.off + len < b.size
  BY <1>1, <1>2
<1>. HIDE DEF over, w
<1>6. /\ w.off = b.off + len /\ w.size = b.size /\ w.left = b.left /\ w.over = over
      /\ w \in [off : Nat, size : Nat, left : Nat, over : Nat]
  BY <1>2, <1>3, <1>4
<1>7. w \in JsonBuffers
  BY <1>4, <1>6 DEF JsonBuffers
<1>8. w = JsonWrite(b, len)
  BY DEF w
<1>. QED
  BY <1>5, <1>6, <1>7, <1>8

\* _config/metrics: there is room behind an entry that fitted.
LEMMA EntryLemma ==
    ASSUME NEW b \in JsonBuffers, HasRoom(b), b.left > 0, NEW len \in Nat
    PROVE  JsonEntry(b, len) \in JsonBuffers /\ HasRoom(JsonEntry(b, len))
<1>. DEFINE w == JsonWrite(b, len)
            size == IF w.off >= w.size - JsonRoom THEN 2 * w.size ELSE w.size
            e == JsonEntry(b, len)
<1>1. JsonRoom \in Nat
  BY JsonAssumption
<1>2. /\ w \in JsonBuffers /\ w.size = b.size /\ w.left = b.left
      /\ w.over = 0 => b.off + JsonRoom < b.size /\ w.off < w.size
  BY WriteLemma
<1>3. e = [w EXCEPT !.left = w.left - 1, !.size = size]
  BY DEF JsonEntry, JsonGrows
<1>. HIDE DEF w, e
<1>4. /\ w.off \in Nat /\ w.size \in Nat /\ w.left - 1 \in Nat /\ w.over \in Nat
      /\ w.over = 0 \/ w.over > JsonRoom
  BY <1>2 DEF JsonBuffers
<1>5. size \in Nat /\ (w.over = 0 => w.off + JsonRoom < size)
  BY <1>1, <1>2, <1>4 DEF JsonBuffers
<1>6. e = [off |-> w.off, size |-> size, left |-> w.left - 1, over |-> w.over]
  BY <1>2, <1>3 DEF JsonBuffers
<1>. HIDE DEF size
<1>7. e \in JsonBuffers /\ HasRoom(e)
  BY <1>4, <1>5, <1>6 DEF JsonBuffers, HasRoom
<1>. QED
  BY <1>7 DEF e

\* _config/metrics: the buffer.
LEMMA WorkConfig ==
    ASSUME WorkInv, ConfigStart \/ ConfigEnd \/ \E len \in EntryLens : ConfigEntry(len)
    PROVE  WorkInv'
<1>1. {JsonHead, JsonBase, JsonRoom} \subseteq Nat /\ JsonHead + JsonRoom < JsonBase
      /\ EntryLens \subseteq Nat
  BY JsonAssumption
<1>2. CASE ConfigStart
  <2>1. pc = "handle" /\ pc \in Handling
    BY <1>2 DEF ConfigStart, Handling
  <2>2. UNCHANGED <<Here, metric, rest, data>>
    BY <1>2 DEF ConfigStart
  <2>3. CASE OutOfMemory /\ Finish("error", Themed) /\ UNCHANGED json
    BY <2>1, <2>2, <2>3, HandleFacts, FinishLemma
  <2>4. CASE /\ pc' = "config" /\ json' = JsonStart(Len(metrics))
             /\ live' = Themed \cup {"json"} /\ UNCHANGED <<answer, oom>>
    <3>1. ConfInv' /\ ReqInv'
      BY <2>1, <2>2, <2>4, HandleFacts, HereLemma DEF Here, WorkInv
    <3>2. MemInv'
      BY <2>1, <2>2, <2>4, HandleFacts DEF MemInv, WorkInv, Here, Early, Fetching, Allocations
    <3>3. PathInv'
      BY <2>1, <2>2, <2>4 DEF PathInv, WorkInv, Here, Early, Fetching
    <3>4. JsonInv'
      <4>. DEFINE n == Len(metrics)
                  room == JsonRoom * n
      <4>1. n \in Nat /\ room \in Nat
        BY <1>1, <2>1, HandleFacts
      <4>2. json' = [off |-> JsonHead, size |-> JsonBase + room, left |-> n, over |-> 0]
        BY <2>4 DEF JsonStart
      <4>. HIDE DEF n, room
      <4>3. json' \in JsonBuffers
        BY <1>1, <4>1, <4>2 DEF JsonBuffers
      <4>4. HasRoom(json')
        BY <1>1, <4>1, <4>2 DEF HasRoom
      <4>. QED
        BY <4>3, <4>4 DEF JsonInv, HasRoom
    <3>. QED
      BY <3>1, <3>2, <3>3, <3>4 DEF WorkInv
  <2>. QED
    BY <1>2, <2>3, <2>4 DEF ConfigStart
<1>3. ASSUME NEW len \in EntryLens, ConfigEntry(len) PROVE WorkInv'
  <2>1. /\ pc = "config" /\ pc \in Handling /\ json.left > 0 /\ len \in Nat
        /\ UNCHANGED <<Here, metric, rest, data>>
    BY <1>1, <1>3 DEF ConfigEntry, Handling
  <2>2. json \in JsonBuffers /\ HasRoom(json)
    BY <2>1, HandleFacts
  <2>3. CASE json' = JsonEntry(json, len) /\ UNCHANGED <<pc, answer, live, oom>>
    <3>1. ConfInv' /\ ReqInv'
      BY <2>1, <2>3, HandleFacts, HereLemma DEF Here, WorkInv
    <3>2. MemInv'
      BY <2>1, <2>3 DEF MemInv, WorkInv, Here, Early, Fetching
    <3>3. PathInv'
      BY <2>1, <2>3 DEF PathInv, WorkInv, Here, Early, Fetching
    <3>4. json' \in JsonBuffers /\ HasRoom(json')
      BY <2>1, <2>2, <2>3, EntryLemma
    <3>5. JsonInv'
      BY <3>4 DEF JsonInv, HasRoom
    <3>. QED
      BY <3>1, <3>2, <3>3, <3>5 DEF WorkInv
  <2>4. CASE /\ OutOfMemory /\ json' = JsonWrite(json, len)
             /\ Finish("error", live \ {"json"})
    <3>1. live \ {"json"} \subseteq {"theme"}
      BY <2>1 DEF MemInv, WorkInv
    <3>2. json' \in JsonBuffers
      BY <2>1, <2>2, <2>4, WriteLemma
    <3>. QED
      BY <2>1, <2>4, <3>1, <3>2, HandleFacts, FinishLemma
  <2>. QED
    BY <1>3, <2>3, <2>4 DEF ConfigEntry
<1>4. CASE ConfigEnd
  <2>1. /\ pc = "config" /\ pc \in Handling /\ json' = JsonWrite(json, 2)
        /\ UNCHANGED <<Here, metric, rest, data>>
    BY <1>4 DEF ConfigEnd, JsonEnd, Handling
  <2>2. live \ {"json"} \subseteq {"theme"}
    BY <2>1 DEF MemInv, WorkInv
  <2>3. json' \in JsonBuffers
    BY <2>1, HandleFacts, WriteLemma
  <2>4. \/ Finish("json", live \ {"json"}) /\ UNCHANGED oom
        \/ OutOfMemory /\ Finish("error", live \ {"json"})
    BY <1>4 DEF ConfigEnd
  <2>5. CASE Finish("json", live \ {"json"}) /\ UNCHANGED oom
    BY <2>1, <2>2, <2>3, <2>5, HandleFacts, FinishLemma
  <2>6. CASE OutOfMemory /\ Finish("error", live \ {"json"})
    BY <2>1, <2>2, <2>3, <2>6, HandleFacts, FinishLemma
  <2>. QED
    BY <2>4, <2>5, <2>6
<1>. QED
  BY <1>2, <1>3, <1>4

\* A metric is found for a path, and its data is fetched.
LEMMA StartsFetch ==
    ASSUME WorkInv, pc \in Handling, pc' = "fetch",
           UNCHANGED <<Here, rest, data, json, answer, oom>>, pc # "fetched",
           metric' \in BestMatch(Path), Grafana => rest # <<>>,
           live' \subseteq {"theme", "param"} \cup QueryMem
    PROVE  WorkInv'
<1>1. /\ ConfInv' /\ ReqInv' /\ metrics' = metrics /\ leaked' = leaked
      /\ (Grafana' <=> Grafana) /\ QueryMem' = QueryMem
  BY HandleFacts, HereLemma DEF Here, WorkInv
<1>2. MemInv'
  <2>1. QueryMem \subseteq {"targets", "out"}
    BY DEF QueryMem
  <2>. QED
    BY <1>1, <2>1 DEF MemInv, WorkInv, Early, Fetching, Allocations
<1>3. PathInv'
  <2>1. BestMatch(Path)' = BestMatch(Path)
    BY <1>1 DEF Path, Grafana, BestMatch, IsMatch, Here
  <2>2. BestMatch(Path) \subseteq DOMAIN metrics
    BY DEF BestMatch
  <2>3. DOMAIN metrics \subseteq 0..Len(metrics)
    BY HandleFacts
  <2>. QED
    BY <1>1, <2>1, <2>2, <2>3 DEF PathInv, Early, Fetching
<1>4. JsonInv'
  BY DEF JsonInv, WorkInv
<1>. QED
  BY <1>1, <1>2, <1>3, <1>4 DEF WorkInv

\* _grafana/search and the refusals of grafana_query.
LEMMA WorkSearch ==
    ASSUME WorkInv, GrafanaSearch \/ GrafanaRefused
    PROVE  WorkInv'
<1>1. /\ pc = "handle" /\ pc \in Handling
      /\ UNCHANGED <<Here, metric, rest, data, json>>
  BY DEF GrafanaSearch, GrafanaRefused, Handling
<1>2. \/ Finish("json", Themed) /\ UNCHANGED oom
      \/ Finish("error", Themed) /\ (OutOfMemory \/ UNCHANGED oom)
  BY DEF GrafanaSearch, GrafanaRefused
<1>3. CASE Finish("json", Themed) /\ UNCHANGED oom
  BY <1>1, <1>3, HandleFacts, FinishLemma
<1>4. CASE Finish("error", Themed) /\ (OutOfMemory \/ UNCHANGED oom)
  BY <1>1, <1>4, HandleFacts, FinishLemma
<1>. QED
  BY <1>2, <1>3, <1>4

\* grafana_query goes on with its targets.
LEMMA StaysInTargets ==
    ASSUME WorkInv, pc \in Handling, pc' = "targets", Grafana, UNCHANGED Here,
           rest' \in Seq(Seq(Strings)), metric' \in 0..Len(metrics),
           data' = NoData, json' = json, answer' = answer, OutOfMemory \/ UNCHANGED oom,
           live' \subseteq {"theme", "targets", "out"}
    PROVE  WorkInv'
<1>1. /\ ConfInv' /\ ReqInv' /\ metrics' = metrics /\ leaked' = leaked
      /\ (Grafana' <=> Grafana)
  BY HandleFacts, HereLemma DEF Here, WorkInv
<1>2. oom' \in 0..MaxOom
  BY HandleFacts, OomLemma
<1>3. MemInv'
  BY <1>1, <1>2 DEF MemInv, WorkInv, Early, Fetching, Allocations
<1>4. PathInv'
  BY <1>1 DEF PathInv, Early, Fetching
<1>5. JsonInv'
  BY DEF JsonInv, WorkInv
<1>. QED
  BY <1>1, <1>3, <1>4, <1>5 DEF WorkInv

\* grafana_query: its targets one by one.
LEMMA WorkQuery ==
    ASSUME WorkInv,
           GrafanaQuery \/ GrafanaTarget \/ GrafanaLosesTarget \/ GrafanaAppend \/ GrafanaEnd
    PROVE  WorkInv'
<1>0. /\ req.targets \in Seq(Seq(Strings))
      /\ rest # <<>> => Head(rest) \in Seq(Strings) /\ Tail(rest) \in Seq(Seq(Strings))
  BY PathsTyped DEF WorkInv
<1>1. CASE GrafanaQuery
  <2>1. /\ pc = "handle" /\ pc \in Handling /\ Grafana /\ pc' = "targets"
        /\ rest' = req.targets \/ rest' = <<>>
        /\ live' \subseteq Themed \cup {"targets", "out"}
        /\ OutOfMemory \/ UNCHANGED oom
        /\ UNCHANGED <<Here, metric, data, json, answer>>
    BY <1>1 DEF GrafanaQuery, Handling
  <2>2. <<>> \in Seq(Seq(Strings))
    OBVIOUS
  <2>3. rest' \in Seq(Seq(Strings)) /\ live' \subseteq {"theme", "targets", "out"}
    BY <1>0, <2>1, <2>2, HandleFacts
  <2>. QED
    BY <2>1, <2>3, HandleFacts, StaysInTargets
<1>2. CASE GrafanaTarget
  <2>1. /\ pc = "targets" /\ pc \in Handling /\ rest # <<>>
        /\ metric' = find_metric_config(metrics, Head(rest))
        /\ UNCHANGED <<Here, data, json, answer, oom>>
    BY <1>2 DEF GrafanaTarget, Handling
  <2>2. Grafana /\ live \subseteq {"theme", "targets", "out"}
    BY <2>1 DEF MemInv, WorkInv
  <2>3. metric' \in 0..Len(metrics) /\ (metric' # 0 => metric' \in BestMatch(Head(rest)))
    <3>1. metrics \in Seq(MetricConfig) /\ Head(rest) \in Seq(Strings)
      BY <1>0, <2>1, HandleFacts
    <3>. QED
      BY <2>1, <3>1, FoundLemma
  <2>4. CASE metric' = 0
    <3>1. pc' = "targets" /\ rest' = Tail(rest) /\ live' = live
      BY <1>2, <2>1, <2>4 DEF GrafanaTarget, NextTarget
    <3>. QED
      BY <1>0, <2>1, <2>2, <2>3, <3>1, HandleFacts, StaysInTargets
  <2>5. CASE metric' # 0
    <3>1. pc' = "fetch" /\ rest' = rest /\ live' \subseteq live \cup {"param"}
      BY <1>2, <2>1, <2>5 DEF GrafanaTarget
    <3>2. Path = Head(rest) /\ QueryMem = {"targets", "out"}
      BY <2>2 DEF Path, QueryMem
    <3>3. metric' \in BestMatch(Path)
      BY <2>3, <2>5, <3>2
    <3>4. live' \subseteq {"theme", "param"} \cup QueryMem
      BY <2>2, <3>1, <3>2
    <3>. QED
      BY <2>1, <2>2, <3>1, <3>3, <3>4, HandleFacts, StartsFetch
  <2>. QED
    BY <2>4, <2>5
<1>3. CASE GrafanaLosesTarget
  <2>1. /\ pc = "targets" /\ pc \in Handling /\ pc' = pc /\ rest # <<>> /\ rest' = Tail(rest)
        /\ OutOfMemory /\ UNCHANGED <<Here, metric, data, json, answer, live>>
    BY <1>3 DEF GrafanaLosesTarget, Handling
  <2>2. Grafana /\ live \subseteq {"theme", "targets", "out"}
    BY <2>1 DEF MemInv, WorkInv
  <2>. QED
    BY <1>0, <2>1, <2>2, HandleFacts, StaysInTargets
<1>4. CASE GrafanaAppend
  <2>1. /\ pc = "fetched" /\ pc \in Handling /\ Grafana /\ data' = NoData
        /\ UNCHANGED <<Here, metric, json>>
    BY <1>4 DEF GrafanaAppend, Handling
  <2>2. rest # <<>> /\ live \ {"data"} \subseteq {"theme", "targets", "out"}
    BY <2>1 DEF MemInv, PathInv, WorkInv, QueryMem
  <2>3. CASE /\ pc' = "targets" /\ rest' = Tail(rest) /\ live' = live \ {"data"}
             /\ UNCHANGED <<answer, oom>>
    BY <1>0, <2>1, <2>2, <2>3, HandleFacts, StaysInTargets
  <2>4. CASE /\ OutOfMemory /\ Finish("error", live \ {"data", "targets", "out"})
             /\ UNCHANGED rest
    <3>1. live \ {"data", "targets", "out"} \subseteq {"theme"}
      BY <2>2
    <3>. QED
      BY <2>1, <2>4, <3>1, HandleFacts, FinishLemma
  <2>. QED
    BY <1>4, <2>3, <2>4 DEF GrafanaAppend
<1>5. CASE GrafanaEnd
  <2>1. /\ pc = "targets" /\ pc \in Handling
        /\ UNCHANGED <<Here, metric, rest, data, json>>
    BY <1>5 DEF GrafanaEnd, Handling
  <2>2. live \ {"targets", "out"} \subseteq {"theme"}
    BY <2>1 DEF MemInv, WorkInv
  <2>3. CASE Finish("json", live \ {"targets", "out"}) /\ UNCHANGED oom
    BY <2>1, <2>2, <2>3, HandleFacts, FinishLemma
  <2>4. CASE OutOfMemory /\ Finish("error", live \ {"targets", "out"})
    BY <2>1, <2>2, <2>4, HandleFacts, FinishLemma
  <2>. QED
    BY <1>5, <2>3, <2>4 DEF GrafanaEnd
<1>. QED
  BY <1>1, <1>2, <1>3, <1>4, <1>5

\* Any other path.
LEMMA WorkLookup ==
    ASSUME WorkInv, Lookup \/ LookupLosesParam
    PROVE  WorkInv'
<1>1. /\ pc = "handle" /\ pc \in Handling /\ ~Grafana
      /\ metric' = find_metric_config(metrics, req.path)
      /\ OutOfMemory \/ UNCHANGED oom
      /\ UNCHANGED <<Here, rest, data, json>>
  BY DEF Lookup, LookupLosesParam, Other, Handling
<1>2. metrics \in Seq(MetricConfig) /\ req.path \in Seq(Strings)
  BY <1>1, HandleFacts, PathsTyped DEF WorkInv
<1>3. metric' \in 0..Len(metrics) /\ (metric' # 0 => metric' \in BestMatch(req.path))
  BY <1>1, <1>2, FoundLemma
<1>4. Themed \subseteq {"theme"} /\ Path = req.path
  BY <1>1, HandleFacts DEF Path
<1>5. CASE Finish("error", Themed)
  BY <1>1, <1>3, <1>4, <1>5, HandleFacts, FinishLemma
<1>6. CASE /\ metric' # 0 /\ pc' = "fetch" /\ live' \subseteq Themed \cup {"param"}
           /\ UNCHANGED <<answer, oom>>
  <2>1. metric' \in BestMatch(Path) /\ live' \subseteq {"theme", "param"} \cup QueryMem
    BY <1>3, <1>4, <1>6
  <2>. QED
    BY <1>1, <1>6, <2>1, StartsFetch
<1>. QED
  BY <1>5, <1>6 DEF Lookup, LookupLosesParam

\* The process dies.
LEMMA WorkAbort ==
    ASSUME WorkInv, Abort
    PROVE  WorkInv'
<1>1. /\ pc \in {"handle", "config", "send", "close"} /\ pc' = "aborted"
      /\ UNCHANGED <<file, metrics, req, metric, rest, data, json, answer, live, leaked, oom>>
  BY DEF Abort, workVars, memVars
<1>2. req \in Requests \cup {NoRequest} /\ answer \in {"none", "error", "svg", "json"}
  BY DEF WorkInv, ReqInv, MemInv
<1>. QED
  BY <1>1, <1>2, WorkAround DEF Early, Fetching, Handling

\* The sources.
LEMMA WorkFetch ==
    ASSUME WorkInv,
           \/ FetchCached \/ FetchFails \/ FetchOpens \/ ReadFile \/ ExporterBreaksPipe
           \/ \E page \in Pages : ExporterAnswers(page) \/ ExporterStalls(page)
    PROVE  WorkInv'
<1>1. CASE FetchCached
  <2>. DEFINE d == [source |-> "rrd", of |-> RrdFile]
  <2>1. /\ pc \in Fetching /\ metrics[metric].source = "rrd" /\ RrdFile \in RrdFiles
        /\ Fetched(d)
        /\ UNCHANGED <<file, metrics, client, req, leaked, metric, rest, json, answer, oom>>
    BY <1>1 DEF FetchCached, Fetching, Here
  <2>2. d.source = metrics[metric].source /\ d.of = RrdFile
    BY <2>1
  <2>. HIDE DEF d
  <2>. QED
    BY <2>1, <2>2, FetchedLemma
<1>2. CASE FetchFails \/ ExporterBreaksPipe
  <2>1. /\ pc \in Fetching /\ Fetched(NoData)
        /\ UNCHANGED <<file, metrics, client, req, leaked, metric, rest, json, answer, oom>>
    BY <1>2 DEF FetchFails, ExporterBreaksPipe, Fetching, Here
  <2>. QED
    BY <2>1, FetchedLemma
<1>3. CASE FetchOpens
  <2>1. /\ pc = "fetch" /\ Opens
        /\ pc' = IF metrics[metric].source = "prometheus" THEN "ask" ELSE "read"
        /\ UNCHANGED <<file, metrics, client, req, leaked, metric, rest, data, json, answer,
                       live, oom>>
    BY <1>3 DEF FetchOpens, Here, workVars
  <2>2. pc \in Handling /\ pc' # "boot"
    BY <2>1 DEF Handling
  <2>3. /\ ConfInv' /\ ReqInv' /\ (Grafana' <=> Grafana) /\ QueryMem' = QueryMem
    BY <2>1, <2>2, HandleFacts, HereLemma DEF WorkInv
  <2>4. MemInv'
    BY <2>1, <2>3 DEF MemInv, WorkInv, Early, Fetching
  <2>5. metrics[metric].source = "rrd" => RrdFile \in RrdFiles
    BY <2>1 DEF Opens
  <2>6. Path' = Path /\ RrdFile' = RrdFile /\ BestMatch(Path)' = BestMatch(Path)
    BY <2>1 DEF Path, Grafana, RrdFile, Param, BestMatch, IsMatch
  <2>7. PathInv'
    BY <2>1, <2>3, <2>5, <2>6 DEF PathInv, WorkInv, Early, Fetching
  <2>8. JsonInv'
    BY <2>1 DEF JsonInv, WorkInv
  <2>. QED
    BY <2>3, <2>4, <2>7, <2>8 DEF WorkInv
<1>4. CASE ReadFile
  <2>. DEFINE src == metrics[metric].source
              d == [source |-> src,
                    of |-> IF src = "rrd" THEN RrdFile ELSE <<metrics[metric].spec, <<>> >>]
  <2>1. /\ pc = "read" /\ pc \in Fetching /\ (Fetched(d) \/ Fetched(NoData))
        /\ UNCHANGED <<file, metrics, client, req, leaked, metric, rest, json, answer, oom>>
    BY <1>4 DEF ReadFile, Fetching, Here
  <2>2. d.source = src /\ (src = "rrd" => d.of = RrdFile)
    OBVIOUS
  <2>3. src = "rrd" => RrdFile \in RrdFiles
    BY <2>1 DEF PathInv, WorkInv
  <2>. HIDE DEF d
  <2>. QED
    BY <2>1, <2>2, <2>3, FetchedLemma
<1>5. ASSUME NEW page \in Pages, ExporterAnswers(page) \/ ExporterStalls(page)
      PROVE  WorkInv'
  <2>1. /\ pc = "ask" /\ pc \in Fetching
        /\ Fetched(NoData) \/ \E body, cut : Fetched(OfPage(page, body, cut))
        /\ UNCHANGED <<file, metrics, client, req, leaked, metric, rest, json, answer, oom>>
    BY <1>5 DEF ExporterAnswers, ExporterStalls, Fetching, Here
  <2>2. CASE Fetched(NoData)
    BY <2>1, <2>2, FetchedLemma
  <2>3. ASSUME NEW body, NEW cut, Fetched(OfPage(page, body, cut)) PROVE WorkInv'
    <3>. DEFINE d == OfPage(page, body, cut)
    <3>1. metrics[metric].source = "prometheus"
      BY <2>1 DEF PathInv, WorkInv
    <3>2. d = NoData \/ d.source = "prometheus"
      BY DEF OfPage
    <3>. HIDE DEF d
    <3>3. Fetched(d)
      BY <2>3 DEF d
    <3>. QED
      BY <2>1, <3>1, <3>2, <3>3, FetchedLemma
  <2>. QED
    BY <2>1, <2>2, <2>3
<1>. QED
  BY <1>1, <1>2, <1>3, <1>4, <1>5

\* What becomes of the data.
LEMMA WorkRender ==
    ASSUME WorkInv, NoPicture \/ Render
    PROVE  WorkInv'
<1>1. /\ pc = "fetched" /\ pc \in Handling /\ ~Grafana /\ data' = NoData
      /\ UNCHANGED <<Here, metric, rest, json>>
  BY DEF NoPicture, Render, Handling
<1>2. live \subseteq {"theme", "data"} /\ ("data" \in live => data # NoData)
  BY <1>1 DEF MemInv, WorkInv, QueryMem
<1>3. CASE NoPicture
  <2>1. data = NoData /\ Finish("error", live) /\ UNCHANGED oom
    BY <1>3 DEF NoPicture
  <2>2. live \subseteq {"theme"}
    BY <1>2, <2>1
  <2>. QED
    BY <1>1, <2>1, <2>2, HandleFacts, FinishLemma
<1>4. CASE Render
  <2>1. live \ {"data", "theme"} = {}
    BY <1>2
  <2>2. CASE Finish("svg", live \ {"data", "theme"}) /\ UNCHANGED oom
    BY <1>1, <2>1, <2>2, HandleFacts, FinishLemma
  <2>3. CASE OutOfMemory /\ Finish("error", live \ {"data", "theme"})
    BY <1>1, <2>1, <2>3, HandleFacts, FinishLemma
  <2>. QED
    BY <1>4, <2>2, <2>3 DEF Render
<1>. QED
  BY <1>3, <1>4

----------------------------------------------------------------------------
\* The steps that neither open nor close a descriptor.
LEMMA FdQuiet ==
    ASSUME FdInv,
           \/ AcceptFails \/ AcceptWaits \/ Recv \/ RecvWaits
           \/ ConfigStart \/ ConfigEnd \/ \E len \in EntryLens : ConfigEntry(len)
           \/ GrafanaSearch \/ GrafanaRefused \/ GrafanaQuery \/ GrafanaTarget
           \/ GrafanaLosesTarget \/ GrafanaAppend \/ GrafanaEnd \/ Lookup \/ LookupLosesParam
           \/ FetchCached \/ FetchFails \/ NoPicture \/ Render \/ Send \/ SendWaits
           \/ SendEnds \/ ClientCloses \/ \E r \in Requests : ClientSends(r)
    PROVE  FdInv'
<1>1. CASE ClientCloses \/ \E r \in Requests : ClientSends(r)
  <2>1. UNCHANGED <<fds, client_sock, sock, stray, running, signals, pc>>
    BY <1>1 DEF ClientCloses, ClientSends, sockVars
  <2>. QED
    BY <2>1, FdStay
<1>2. CASE AcceptFails \/ AcceptWaits
  <2>1. UNCHANGED <<fds, client_sock, sock, stray, running, signals>> /\ pc \in Idle /\ pc' \in Idle
    BY <1>2 DEF AcceptFails, AcceptWaits, sockVars, Idle
  <2>. QED
    BY <2>1, FdStay
<1>3. CASE Recv \/ RecvWaits
  <2>1. UNCHANGED <<fds, client_sock, sock, stray, running, signals>> /\ pc \in Busy /\ pc' \in Busy
    BY <1>3, Stages DEF Recv, RecvWaits, AfterRecv, sockVars
  <2>. QED
    BY <2>1, FdStay
<1>4. CASE \/ ConfigStart \/ ConfigEnd \/ \E len \in EntryLens : ConfigEntry(len)
           \/ GrafanaSearch \/ GrafanaRefused \/ GrafanaQuery
  <2>1. UNCHANGED <<fds, client_sock, sock, stray, running, signals>> /\ pc \in Busy /\ pc' \in Busy
    BY <1>4, Stages DEF ConfigStart, ConfigEnd, ConfigEntry, GrafanaSearch, GrafanaRefused,
                        GrafanaQuery, Finish, Here, sockVars
  <2>. QED
    BY <2>1, FdStay
<1>5. CASE \/ GrafanaTarget \/ GrafanaLosesTarget \/ GrafanaAppend \/ GrafanaEnd
           \/ Lookup \/ LookupLosesParam
  <2>1. UNCHANGED <<fds, client_sock, sock, stray, running, signals>> /\ pc \in Busy /\ pc' \in Busy
    BY <1>5, Stages DEF GrafanaTarget, GrafanaLosesTarget, GrafanaAppend, GrafanaEnd, Lookup,
                        LookupLosesParam, Other, Finish, Here, sockVars
  <2>. QED
    BY <2>1, FdStay
<1>6. CASE FetchCached \/ FetchFails \/ NoPicture \/ Render \/ Send \/ SendWaits \/ SendEnds
  <2>1. UNCHANGED <<fds, client_sock, sock, stray, running, signals>> /\ pc \in Busy /\ pc' \in Busy
    BY <1>6, Stages DEF FetchCached, FetchFails, NoPicture, Render, Send, SendWaits, SendEnds,
                        Fetched, Finish, Here, sockVars
  <2>. QED
    BY <2>1, FdStay
<1>. QED
  BY <1>1, <1>2, <1>3, <1>4, <1>5, <1>6

\* The process dies and nothing stays open.
LEMMA FdAbort ==
    ASSUME FdInv, Abort
    PROVE  FdInv'
<1>1. /\ pc' = "aborted" /\ fds' = [d \in Descriptors |-> "free"]
      /\ UNCHANGED <<client_sock, sock, stray, running, signals>>
  BY DEF Abort
<1>. QED
  BY <1>1, Stages DEF FdInv

\* Initially nothing is open, allocated or asked.
LEMMA ServerInit == Init => ServerInv
<1>. SUFFICES ASSUME Init PROVE ServerInv
  OBVIOUS
<1>1. FdInv
  <2>1. MaxSignals \in Nat /\ pc = "boot" /\ running = TRUE /\ signals = 0 /\ stray = FALSE
        /\ fds = [d \in Descriptors |-> "free"] /\ client_sock = -1 /\ sock = -1
    BY ServerAssumption DEF Init
  <2>2. signals \in 0..MaxSignals /\ running \in BOOLEAN /\ (running <=> signals = 0)
    BY <2>1
  <2>. QED
    BY <2>1, <2>2, Stages DEF FdInv
<1>2. ConfInv
  BY DEF Init, ConfInv
<1>3. ReqInv
  BY DEF Init, ReqInv, Handling
<1>4. MemInv
  <2>1. MaxOom \in Nat
    BY ServerAssumption
  <2>2. /\ pc = "boot" /\ live = {} /\ leaked = {} /\ oom = 0 /\ answer = "none"
        /\ data = NoData
    BY DEF Init
  <2>3. oom \in 0..MaxOom
    BY <2>1, <2>2
  <2>. QED
    BY <2>2, <2>3 DEF MemInv, Fetching
<1>5. PathInv
  BY DEF Init, PathInv, Fetching
<1>6. JsonInv
  BY DEF Init, JsonInv, JsonBuffers, NoJson
<1>. QED
  BY <1>1, <1>2, <1>3, <1>4, <1>5, <1>6 DEF ServerInv, WorkInv

\* Every step keeps the invariant.
LEMMA ServerNext == ServerInv /\ [Next]_vars => ServerInv'
<1>. SUFFICES ASSUME ServerInv, [Next]_vars PROVE ServerInv'
  OBVIOUS
<1>0. FdInv /\ WorkInv
  BY DEF ServerInv
<1>1. ASSUME NEW f \in Files, Boot(f) PROVE ServerInv'
  BY <1>0, <1>1, FdBoot, WorkBoot DEF ServerInv
<1>2. CASE Test
  BY <1>0, <1>2, FdTest, WorkTest DEF ServerInv
<1>3. CASE Accept
  BY <1>0, <1>3, FdAccept, WorkLoop DEF ServerInv
<1>4. CASE AcceptWaits \/ AcceptFails \/ RecvWaits \/ Recv \/ Send \/ SendWaits \/ SendEnds
  BY <1>0, <1>4, FdQuiet, WorkLoop DEF ServerInv
<1>5. CASE ClientCloses \/ \E r \in Requests : ClientSends(r)
  BY <1>0, <1>5, FdQuiet, WorkPeer DEF ServerInv
<1>6. CASE ConfigStart \/ ConfigEnd \/ \E len \in EntryLens : ConfigEntry(len)
  BY <1>0, <1>6, FdQuiet, WorkConfig DEF ServerInv
<1>7. CASE GrafanaSearch \/ GrafanaRefused
  BY <1>0, <1>7, FdQuiet, WorkSearch DEF ServerInv
<1>8. CASE GrafanaQuery \/ GrafanaTarget \/ GrafanaLosesTarget \/ GrafanaAppend \/ GrafanaEnd
  BY <1>0, <1>8, FdQuiet, WorkQuery DEF ServerInv
<1>9. CASE Lookup \/ LookupLosesParam
  BY <1>0, <1>9, FdQuiet, WorkLookup DEF ServerInv
<1>10. CASE FetchCached \/ FetchFails
  BY <1>0, <1>10, FdQuiet, WorkFetch DEF ServerInv
<1>11. CASE FetchOpens
  BY <1>0, <1>11, FdOpens, WorkFetch DEF ServerInv
<1>12. CASE ReadFile
  <2>1. /\ pc \in Reading /\ pc' = "fetched" /\ Close(sock, "source") /\ sock' = -1
        /\ UNCHANGED <<client_sock, running, signals>>
    BY <1>12 DEF ReadFile, Reading, Fetched, Here
  <2>. QED
    BY <1>0, <1>12, <2>1, FdCloses, WorkFetch DEF ServerInv
<1>13. ASSUME NEW page \in Pages, ExporterAnswers(page) \/ ExporterStalls(page)
       PROVE  ServerInv'
  <2>1. /\ pc \in Reading /\ pc' = "fetched" /\ Close(sock, "source") /\ sock' = -1
        /\ UNCHANGED <<client_sock, running, signals>>
    BY <1>13 DEF ExporterAnswers, ExporterStalls, Reading, Fetched, Here
  <2>. QED
    BY <1>0, <1>13, <2>1, FdCloses, WorkFetch DEF ServerInv
<1>14. CASE ExporterBreaksPipe
  BY <1>0, <1>14, FdPipe, WorkFetch DEF ServerInv
<1>15. CASE NoPicture \/ Render
  BY <1>0, <1>15, FdQuiet, WorkRender DEF ServerInv
<1>16. CASE CloseClient
  BY <1>0, <1>16, FdCloseClient, WorkClose DEF ServerInv
<1>17. CASE Signal
  BY <1>0, <1>17, FdSignal, WorkSignal DEF ServerInv
<1>18. CASE Abort
  BY <1>0, <1>18, FdAbort, WorkAbort DEF ServerInv
<1>19. CASE UNCHANGED vars
  <2>1. /\ UNCHANGED <<pc, fds, client_sock, sock, stray, running, signals>>
        /\ UNCHANGED <<file, metrics, metric, rest, data, json, answer, live, leaked, oom>>
        /\ UNCHANGED <<req, client>>
    BY <1>19 DEF vars, sockVars, workVars, memVars
  <2>2. req \in Requests \cup {NoRequest} /\ (pc \in Handling => client # "silent")
    BY <1>0 DEF WorkInv, ReqInv
  <2>3. FdInv'
    BY <1>0, <2>1, FdStay
  <2>4. WorkInv'
    BY <1>0, <2>1, <2>2, WorkStay
  <2>. QED
    BY <2>3, <2>4 DEF ServerInv
<1>20. CASE Thread
  BY <1>20, <1>2, <1>4, <1>6, <1>7, <1>8, <1>9, <1>10, <1>11, <1>12, <1>13, <1>14, <1>15, <1>16, <1>18
     DEF Thread
<1>21. CASE Peer
  BY <1>21, <1>3, <1>4, <1>5 DEF Peer
<1>. QED
  BY <1>1, <1>17, <1>19, <1>20, <1>21 DEF Next, Ended

\* The inductive invariant: descriptors by stage, the configuration as loaded,
\* the memory and the metric of the request being handled, the JSON buffer.
THEOREM ServerInvariant == Spec => []ServerInv
  BY ServerInit, ServerNext, PTL DEF Spec

\* Types: every descriptor has one of its four owners, the metric is in the
\* array, and the sources of the array are known.
THEOREM TypeCorrect == Spec => []TypeOK
<1>1. ServerInv => TypeOK
  <2>. SUFFICES ASSUME ServerInv PROVE TypeOK
    OBVIOUS
  <2>. USE DEF ServerInv, WorkInv
  <2>1. \A i \in DOMAIN metrics : metrics[i].source \in {"rrd", "proc", "prometheus"}
    BY DEF ConfInv, MetricConfig
  <2>2. metric \in 0..Len(metrics)
    BY DEF PathInv
  <2>3. /\ answer \in {"none", "error", "svg", "json"} /\ live \subseteq Allocations
        /\ leaked \subseteq Allocations /\ oom \in 0..MaxOom
    BY DEF MemInv, Allocations
  <2>4. /\ pc \in Serving \cup {"boot", "aborted", "exited"} /\ running \in BOOLEAN
        /\ signals \in 0..MaxSignals /\ stray \in BOOLEAN
        /\ fds \in [Descriptors -> {"free", "listen", "client", "source"}]
        /\ {client_sock, sock} \subseteq Descriptors \cup {-1}
    BY DEF FdInv
  <2>. QED
    BY <2>1, <2>2, <2>3, <2>4 DEF TypeOK
<1>. QED
  BY <1>1, ServerInvariant, PTL

\* run_http_server: when the loop comes round only the listener is open, and
\* that while the server runs.
THEOREM DescriptorsReturned == Spec => []NoDescriptorLeaks
<1>1. ServerInv => NoDescriptorLeaks
  BY DEF ServerInv, FdInv, Idle, Rest, NoDescriptorLeaks
<1>. QED
  BY <1>1, ServerInvariant, PTL

\* http_signal_handler closes server_sock by number: up to one signal that is
\* nobody else's descriptor.
THEOREM OwnersClose == Spec => []OnlyOwnersClose
<1>1. ServerInv => OnlyOwnersClose
  <2>. SUFFICES ASSUME ServerInv PROVE OnlyOwnersClose
    OBVIOUS
  <2>1. signals \in 0..MaxSignals /\ (stray => signals >= 2) /\ MaxSignals \in Nat
    BY ServerAssumption DEF ServerInv, FdInv
  <2>2. signals <= 1 => ~(signals >= 2)
    BY <2>1
  <2>. QED
    BY <2>1, <2>2 DEF OnlyOwnersClose
<1>. QED
  BY <1>1, ServerInvariant, PTL

\* handler_process and grafana_query free what they allocate, whichever
\* allocation fails, but for the copy of ?theme=.
THEOREM ThemesLeak == Spec => []OnlyThemesLeak
<1>1. ServerInv => OnlyThemesLeak
  BY DEF ServerInv, WorkInv, MemInv, OnlyThemesLeak
<1>. QED
  BY <1>1, ServerInvariant, PTL

\* find_metric_config and metric_source_fetch: data is that of the metric that
\* matches the path best, and of the file of its parameter.
THEOREM PathAnswered == Spec => []AnswersItsPath
<1>1. ServerInv => AnswersItsPath
  BY DEF ServerInv, WorkInv, PathInv, AnswersItsPath
<1>. QED
  BY <1>1, ServerInvariant, PTL

\* load_config clears an entry without its required fields: no path, the empty
\* one included, is answered with data of it.
THEOREM DeclaredAnswer == Spec => []OnlyDeclaredMetrics
<1>1. ServerInv => OnlyDeclaredMetrics
  <2>. SUFFICES ASSUME ServerInv, pc = "fetched", data # NoData,
                       file.metrics[metric] # NotObject
                PROVE  LET element == file.metrics[metric]
                       IN  /\ element.endpoint # <<>>
                           /\ element.source \notin {"proc", "prometheus"} => element.rrd_path # ""
    BY DEF OnlyDeclaredMetrics
  <2>. DEFINE e == file.metrics[metric]
              m == parse_metric_config(e)
  <2>1. /\ metric \in DOMAIN metrics /\ data.source = metrics[metric].source
        /\ data.source = "rrd" => RrdFile \in RrdFiles
    <3>1. metric \in BestMatch(Path)
      BY DEF ServerInv, WorkInv, PathInv
    <3>2. metric \in DOMAIN metrics
      BY <3>1 DEF BestMatch
    <3>. QED
      BY <3>2 DEF ServerInv, WorkInv, PathInv
  <2>2. e \in Texts /\ metrics[metric] \in SlotsFor(e)
    BY <2>1 DEF ServerInv, WorkInv, ConfInv
  <2>3. metrics[metric] = IF Invalid(m) THEN Blank ELSE m
    BY <2>2 DEF SlotsFor
  <2>4. metrics[metric] # Blank
    <3>. SUFFICES ASSUME metrics[metric] = Blank PROVE FALSE
      OBVIOUS
    <3>0. Blank.source = "rrd" /\ Blank.rrd_path = ""
      BY DEF Blank
    <3>1. metrics[metric].source = "rrd" /\ metrics[metric].rrd_path = ""
      BY <3>0
    <3>2. RrdFile[1] = ""
      BY <3>1 DEF RrdFile, build_rrd_path
    <3>. QED
      BY <2>1, <3>1, <3>2, ServerAssumption
  <2>5. ~Invalid(m)
    BY <2>3, <2>4
  <2>6. m = [e EXCEPT !.source = metric_source_from_string(e.source)]
    BY DEF parse_metric_config
  <2>7. /\ m.endpoint = e.endpoint /\ m.rrd_path = e.rrd_path
        /\ m.source = metric_source_from_string(e.source)
    <3>. HIDE DEF e
    <3>. QED
      BY <2>2, <2>6 DEF Texts
  <2>8. e.source \notin {"proc", "prometheus"} => m.source = "rrd"
    BY <2>7 DEF metric_source_from_string
  <2>. QED
    BY <2>5, <2>7, <2>8 DEF Invalid
<1>. QED
  BY <1>1, ServerInvariant, PTL

\* generate_metrics_json stays inside its buffer as long as no entry is longer
\* than the room that is kept for one, whatever the metrics and their lengths.
THEOREM JsonInBuffer == Spec => []JsonFits
<1>1. ServerInv => JsonFits
  BY DEF ServerInv, WorkInv, JsonInv, JsonBuffers, JsonFits
<1>. QED
  BY <1>1, ServerInvariant, PTL

----------------------------------------------------------------------------
\* prometheus_source_fetch: one round over the lines of a body, and what it has
\* after n of them: the values of the lines that match, in their order, of all of
\* them or of the first MAX_SERIES.
SeriesStep(body, endpoint, found, n) ==
    IF n = 0 THEN <<>>
    ELSE LET before == found[n - 1]
         IN  IF Matches(body[n], endpoint) /\ Len(before) < MaxSeries
             THEN Append(before, body[n].value) ELSE before
Picks(line, s, body, endpoint, n) ==
    /\ line \in [1..Len(s) -> 1..n]
    /\ \A i \in 1..Len(s) : Matches(body[line[i]], endpoint) /\ s[i] = body[line[i]].value
    /\ \A i, j \in 1..Len(s) : i < j => line[i] < line[j]
    /\ \A k \in 1..n : Matches(body[k], endpoint) =>
          \/ \E i \in 1..Len(s) : line[i] = k
          \/ Len(s) = MaxSeries /\ \A i \in 1..Len(s) : line[i] < k
FirstMatches(s, body, endpoint, n) ==
    s \in Seq(Words) /\ Len(s) <= MaxSeries /\ \E line : Picks(line, s, body, endpoint, n)

\* What Append returns.
LEMMA AppendLemma ==
    ASSUME NEW S, NEW s \in Seq(S), NEW v \in S
    PROVE  /\ Append(s, v) \in Seq(S) /\ Len(Append(s, v)) = Len(s) + 1
           /\ Append(s, v)[Len(s) + 1] = v
           /\ \A i \in 1..Len(s) : Append(s, v)[i] = s[i]
OBVIOUS

\* A line that matches is taken while there is room.
LEMMA TakesLine ==
    ASSUME NEW body \in Seq(Lines), NEW endpoint, NEW n \in Nat, n < Len(body),
           NEW s, FirstMatches(s, body, endpoint, n),
           Matches(body[n + 1], endpoint), Len(s) < MaxSeries
    PROVE  FirstMatches(Append(s, body[n + 1].value), body, endpoint, n + 1)
<1>. DEFINE v == body[n + 1].value
            t == Append(s, v)
            m == Len(s)
<1>1. s \in Seq(Words) /\ m \in Nat /\ MaxSeries \in Nat
  BY PageAssumption DEF FirstMatches
<1>2. v \in Words
  <2>1. body[n + 1] \in Lines
    OBVIOUS
  <2>. QED
    BY <2>1 DEF Lines
<1>3. PICK line : Picks(line, s, body, endpoint, n)
  BY DEF FirstMatches
<1>4. /\ line \in [1..m -> 1..n]
      /\ \A i \in 1..m : Matches(body[line[i]], endpoint) /\ s[i] = body[line[i]].value
      /\ \A i, j \in 1..m : i < j => line[i] < line[j]
      /\ \A k \in 1..n : Matches(body[k], endpoint) => \E i \in 1..m : line[i] = k
  BY <1>1, <1>3 DEF Picks
<1>5. t \in Seq(Words) /\ Len(t) = m + 1 /\ t[m + 1] = v /\ \A i \in 1..m : t[i] = s[i]
  <2>. HIDE DEF v
  <2>. QED
    BY <1>1, <1>2, AppendLemma
<1>. HIDE DEF t, m, Matches
<1>. DEFINE line2 == [i \in 1..(m + 1) |-> IF i = m + 1 THEN n + 1 ELSE line[i]]
<1>6. line2 \in [1..(m + 1) -> 1..(n + 1)] /\ line2[m + 1] = n + 1
      /\ \A i \in 1..m : line2[i] = line[i] /\ line2[i] \in 1..n
  BY <1>1, <1>4
<1>. HIDE DEF line2
<1>7. \A i \in 1..(m + 1) : i \in 1..m \/ i = m + 1
  BY <1>1
<1>8. \A i \in 1..(m + 1) : Matches(body[line2[i]], endpoint) /\ t[i] = body[line2[i]].value
  BY <1>4, <1>5, <1>6, <1>7
<1>9. ASSUME NEW i \in 1..(m + 1), NEW j \in 1..(m + 1), i < j PROVE line2[i] < line2[j]
  <2>1. i \in 1..m
    BY <1>1, <1>9
  <2>2. CASE j = m + 1
    BY <1>6, <2>1, <2>2
  <2>3. CASE j \in 1..m
    BY <1>4, <1>6, <1>9, <2>1, <2>3
  <2>. QED
    BY <1>7, <2>2, <2>3
<1>10. ASSUME NEW k \in 1..(n + 1), Matches(body[k], endpoint)
       PROVE  \E i \in 1..(m + 1) : line2[i] = k
  <2>1. CASE k = n + 1
    <3>1. m + 1 \in 1..(m + 1)
      BY <1>1
    <3>. QED
      BY <1>6, <2>1, <3>1
  <2>2. CASE k # n + 1
    <3>1. k \in 1..n
      BY <2>2
    <3>2. PICK i \in 1..m : line[i] = k
      BY <1>4, <1>10, <3>1
    <3>3. i \in 1..(m + 1)
      BY <1>1
    <3>. QED
      BY <1>6, <3>2, <3>3
  <2>. QED
    BY <2>1, <2>2
<1>11. Picks(line2, t, body, endpoint, n + 1)
  BY <1>5, <1>6, <1>8, <1>9, <1>10 DEF Picks
<1>12. Len(t) <= MaxSeries
  BY <1>1, <1>5 DEF m
<1>. QED
  BY <1>5, <1>11, <1>12 DEF FirstMatches, t

\* A line that does not match, or finds no room, is passed over.
LEMMA PassesLine ==
    ASSUME NEW body, NEW endpoint, NEW n \in Nat, NEW s, FirstMatches(s, body, endpoint, n),
           ~(Matches(body[n + 1], endpoint) /\ Len(s) < MaxSeries)
    PROVE  FirstMatches(s, body, endpoint, n + 1)
<1>. DEFINE m == Len(s)
<1>1. s \in Seq(Words) /\ m \in Nat /\ MaxSeries \in Nat /\ m <= MaxSeries
  BY PageAssumption DEF FirstMatches
<1>2. PICK line : Picks(line, s, body, endpoint, n)
  BY DEF FirstMatches
<1>3. /\ line \in [1..m -> 1..n]
      /\ \A i \in 1..m : Matches(body[line[i]], endpoint) /\ s[i] = body[line[i]].value
      /\ \A i, j \in 1..m : i < j => line[i] < line[j]
      /\ \A k \in 1..n : Matches(body[k], endpoint) =>
            (\E i \in 1..m : line[i] = k) \/ (m = MaxSeries /\ \A i \in 1..m : line[i] < k)
  BY <1>2 DEF Picks
<1>4. Matches(body[n + 1], endpoint) => m = MaxSeries
  BY <1>1
<1>. HIDE DEF m, Matches
<1>5. line \in [1..m -> 1..(n + 1)] /\ \A i \in 1..m : line[i] < n + 1
  BY <1>1, <1>3
<1>6. \A k \in 1..(n + 1) : k \in 1..n \/ k = n + 1
  OBVIOUS
<1>7. \A k \in 1..(n + 1) : Matches(body[k], endpoint) =>
            (\E i \in 1..m : line[i] = k) \/ (m = MaxSeries /\ \A i \in 1..m : line[i] < k)
  BY <1>3, <1>4, <1>5, <1>6
<1>8. Picks(line, s, body, endpoint, n + 1)
  BY <1>3, <1>5, <1>7 DEF Picks, m
<1>. QED
  BY <1>1, <1>8 DEF FirstMatches, m

\* The series of a body are its first lines that match.
LEMMA SeriesLemma ==
    ASSUME NEW body \in Seq(Lines), NEW endpoint
    PROVE  FirstMatches(Series(body, endpoint), body, endpoint, Len(body))
<1>. DEFINE m == Len(body)
            S == Seq(Words)
            none == <<>>
            g == [n \in 1..m |-> [v \in S |->
                     IF Matches(body[n], endpoint) /\ Len(v) < MaxSeries
                     THEN Append(v, body[n].value) ELSE v]]
            Body(h) == [n \in 0..m |-> SeriesStep(body, endpoint, h, n)]
            found == CHOOSE h : h = Body(h)
<1>1. m \in Nat /\ \A n \in 1..m : body[n].value \in Words
  <2>1. \A n \in 1..m : body[n] \in Lines
    OBVIOUS
  <2>. QED
    BY <2>1 DEF Lines
<1>2. Series(body, endpoint) = found[m]
  BY DEF Series, SeriesStep
<1>3. \A h, n : SeriesStep(body, endpoint, h, n) =
                   IF n = 0 THEN none
                   ELSE IF Matches(body[n], endpoint) /\ Len(h[n - 1]) < MaxSeries
                        THEN Append(h[n - 1], body[n].value) ELSE h[n - 1]
  BY DEF SeriesStep
<1>. HIDE DEF m, found, SeriesStep, Matches
<1>4. ASSUME NEW n \in 1..m, NEW v \in S PROVE g[n][v] \in S
  BY <1>1, AppendLemma
<1>5. \A n \in 1..m : \A v \in S :
          g[n][v] = IF Matches(body[n], endpoint) /\ Len(v) < MaxSeries
                    THEN Append(v, body[n].value) ELSE v
  OBVIOUS
<1>6. none \in S
  OBVIOUS
<1>. HIDE DEF g
<1>7. PICK k : RunsLoop(k, m, S, none, g)
  <2>. HIDE DEF S, none
  <2>. QED
    BY <1>1, <1>4, <1>6, LoopValues
<1>8. ASSUME NEW n \in 0..m PROVE k[n] = SeriesStep(body, endpoint, k, n)
  <2>1. CASE n = 0
    BY <1>3, <1>7, <2>1 DEF RunsLoop
  <2>2. CASE n # 0
    <3>1. n \in 1..m /\ n - 1 \in 0..m
      BY <1>1, <2>2
    <3>2. k[n] = g[n][k[n - 1]] /\ k[n - 1] \in S
      BY <1>7, <3>1 DEF RunsLoop
    <3>. HIDE DEF S, none
    <3>. QED
      BY <1>3, <1>5, <2>2, <3>1, <3>2
  <2>. QED
    BY <2>1, <2>2
<1>9. found = Body(found)
  <2>1. k \in [0..m -> S]
    BY <1>7 DEF RunsLoop
  <2>2. k = Body(k)
    BY <1>8, <2>1
  <2>. HIDE DEF Body
  <2>. QED
    BY <2>2 DEF found
<1>10. \A n \in 0..m : found[n] = SeriesStep(body, endpoint, found, n)
  BY <1>9
<1>. DEFINE T == {n \in 0..m : FirstMatches(found[n], body, endpoint, n)}
<1>11. 0 \in T
  <2>1. 0 \in 0..m /\ found[0] = <<>>
    BY <1>1, <1>3, <1>10
  <2>2. Len(<<>>) <= MaxSeries /\ Len(<<>>) = 0 /\ <<>> \in Seq(Words)
    BY PageAssumption
  <2>3. Picks([i \in 1..0 |-> 0], <<>>, body, endpoint, 0)
    BY <2>2 DEF Picks
  <2>4. FirstMatches(<<>>, body, endpoint, 0)
    BY <2>2, <2>3 DEF FirstMatches
  <2>. QED
    BY <2>1, <2>4
<1>12. ASSUME NEW n \in 0..m, n < m, n \in T PROVE n + 1 \in T
  <2>1. n \in Nat /\ n + 1 \in 0..m /\ n + 1 # 0 /\ (n + 1) - 1 = n
    BY <1>1, <1>12
  <2>2. found[n + 1] = IF Matches(body[n + 1], endpoint) /\ Len(found[n]) < MaxSeries
                       THEN Append(found[n], body[n + 1].value) ELSE found[n]
    BY <1>3, <1>10, <2>1
  <2>3. FirstMatches(found[n], body, endpoint, n)
    BY <1>12
  <2>4. FirstMatches(found[n + 1], body, endpoint, n + 1)
    <3>1. CASE Matches(body[n + 1], endpoint) /\ Len(found[n]) < MaxSeries
      BY <1>12, <2>1, <2>2, <2>3, <3>1, TakesLine DEF m
    <3>2. CASE ~(Matches(body[n + 1], endpoint) /\ Len(found[n]) < MaxSeries)
      BY <2>1, <2>2, <2>3, <3>2, PassesLine
    <3>. QED
      BY <3>1, <3>2
  <2>. QED
    BY <2>1, <2>4
<1>13. m \in T
  <2>1. \A n \in 0..m : n < m /\ n \in T => n + 1 \in T
    BY <1>12
  <2>. HIDE DEF T
  <2>2. \A n \in 0..m : n \in T
    BY <1>1, <1>11, <2>1, CountUp
  <2>. QED
    BY <1>1, <2>2
<1>. QED
  BY <1>2, <1>13 DEF m

\* The function that makes a sequence.
LEMMA SequenceLemma ==
    ASSUME NEW S, NEW m \in Nat, NEW f \in [1..m -> S]
    PROVE  f \in Seq(S) /\ Len(f) = m
OBVIOUS

\* A line that does not parse is a line.
LEMMA UnparsedTyped == Unparsed \in Lines
<1>1. "none" \in Words
  BY PageAssumption
<1>2. <<>> \in Seq(Words)
  OBVIOUS
<1>. QED
  BY <1>1, <1>2 DEF Unparsed, Line, Lines

\* What is left of a line is a line.
LEMMA PiecesTyped ==
    ASSUME NEW l \in Lines, NEW p \in Pieces(l)
    PROVE  p \in Lines
<1>1. "cut" \in Words /\ Endings \subseteq Seq(Words)
  BY PageAssumption
<1>2. l.name \in Seq(Words) /\ l.value \in Words
  BY DEF Lines
<1>. DEFINE cutLines == [name : ({l.name} \cup Endings) \ {<<>>}, value : {l.value, "cut"}]
<1>3. ({l.name} \cup Endings) \ {<<>>} \subseteq Seq(Words) /\ {l.value, "cut"} \subseteq Words
  BY <1>1, <1>2
<1>4. cutLines \subseteq Lines
  BY <1>3 DEF Lines
<1>5. p = Unparsed \/ p = l \/ p \in cutLines
  BY DEF Pieces
<1>. HIDE DEF cutLines
<1>. QED
  BY <1>4, <1>5, UnparsedTyped

\* http_get_body may take these for a page: the page but for what became of
\* the lines that were cut.
MostlyPage(body, page, cut) ==
    /\ body \in Seq(Lines) /\ Len(body) = Len(page)
    /\ \A k \in 1..Len(page) : k \notin cut => body[k] = page[k]

\* A page whose lines are cut at the ends of chunks.
LEMMA BodyLemma ==
    ASSUME NEW page \in Pages, NEW cut, cut \subseteq DOMAIN page, NEW body \in Bodies(page, cut)
    PROVE  MostlyPage(body, page, cut)
<1>. DEFINE n == Len(page)
            lines == UNION {Pieces(page[k]) : k \in cut}
<1>1. n \in Nat /\ DOMAIN page = 1..n /\ \A k \in 1..n : page[k] \in Lines
  BY PageAssumption
<1>2. PICK piece \in [cut -> lines] :
         /\ \A k \in cut : piece[k] \in Pieces(page[k])
         /\ body = [k \in DOMAIN page |-> IF k \in cut THEN piece[k] ELSE page[k]]
  BY DEF Bodies
<1>3. ASSUME NEW k \in 1..n PROVE (IF k \in cut THEN piece[k] ELSE page[k]) \in Lines
  BY <1>1, <1>2, PiecesTyped
<1>. HIDE DEF n, lines
<1>4. /\ body \in [1..n -> Lines]
      /\ \A k \in 1..n : k \notin cut => body[k] = page[k]
  BY <1>1, <1>2, <1>3
<1>5. body \in Seq(Lines) /\ Len(body) = n
  BY <1>1, <1>4, SequenceLemma
<1>. QED
  BY <1>4, <1>5 DEF MostlyPage, n

\* One that ends early as well.
LEMMA UntilLemma ==
    ASSUME NEW page \in Pages, NEW cut, NEW n \in DOMAIN page, NEW body,
           MostlyPage(body, page, cut \cup {n})
    PROVE  MostlyPage(Until(body, n), page, cut \cup (n..Len(page)))
<1>. DEFINE m == Len(page)
            until == Until(body, n)
<1>1. m \in Nat /\ n \in 1..m
  BY PageAssumption
<1>2. body \in Seq(Lines) /\ Len(body) = m
      /\ \A k \in 1..m : k \notin cut \cup {n} => body[k] = page[k]
  BY DEF MostlyPage
<1>3. DOMAIN body = 1..m /\ \A k \in 1..m : body[k] \in Lines
  BY <1>2
<1>4. /\ until \in [1..m -> Lines]
      /\ \A k \in 1..m : k <= n => until[k] = body[k]
  BY <1>3, UnparsedTyped DEF Until
<1>. HIDE DEF m, until
<1>5. until \in Seq(Lines) /\ Len(until) = m
  BY <1>1, <1>4, SequenceLemma
<1>6. ASSUME NEW k \in 1..m, k \notin cut \cup (n..m) PROVE until[k] = page[k]
  <2>1. k < n /\ k \notin cut \cup {n}
    BY <1>1, <1>6
  <2>. QED
    BY <1>1, <1>2, <1>4, <2>1
<1>. QED
  BY <1>5, <1>6 DEF MostlyPage, m, until

\* Series made of such a body are made of the page's samples.
LEMMA PageLemma ==
    ASSUME NEW page \in Pages, NEW body, NEW cut, NEW d, NEW endpoint,
           MostlyPage(body, page, cut),
           d = [source |-> "prometheus", page |-> page, cut |-> cut,
                series |-> Series(body, endpoint)]
    PROVE  MadeOfSamples(d, endpoint)
<1>. DEFINE s == Series(body, endpoint)
            samples == Samples(page, endpoint)
<1>1. d.page = page /\ d.cut = cut /\ d.series = s
  OBVIOUS
<1>2. body \in Seq(Lines) /\ page \in Seq(Lines) /\ Len(body) = Len(page)
      /\ \A k \in 1..Len(page) : k \notin cut => body[k] = page[k]
  BY PageAssumption DEF MostlyPage
<1>3. FirstMatches(s, body, endpoint, Len(body))
  BY <1>2, SeriesLemma
<1>. HIDE DEF s
<1>4. PICK line : Picks(line, s, body, endpoint, Len(body))
  BY <1>3 DEF FirstMatches
<1>5. s \in Seq(Words) /\ Len(s) <= MaxSeries /\ DOMAIN s = 1..Len(s) /\ Len(s) \in Nat
  BY <1>3 DEF FirstMatches
<1>6. /\ line \in [1..Len(s) -> 1..Len(body)]
      /\ \A i \in 1..Len(s) : Matches(body[line[i]], endpoint) /\ s[i] = body[line[i]].value
      /\ \A i, j \in 1..Len(s) : i < j => line[i] < line[j]
      /\ \A k \in 1..Len(body) : Matches(body[k], endpoint) =>
            \/ \E i \in 1..Len(s) : line[i] = k
            \/ Len(s) = MaxSeries /\ \A i \in 1..Len(s) : line[i] < k
  BY <1>4 DEF Picks
<1>7. /\ DOMAIN page = 1..Len(page) /\ samples \subseteq 1..Len(page)
      /\ \A k \in 1..Len(page) : k \in samples <=> Matches(page[k], endpoint)
  BY <1>2 DEF Samples, Matches
<1>. HIDE DEF samples, Matches, Picks
<1>8. line \in [DOMAIN s -> DOMAIN page]
  BY <1>2, <1>5, <1>6, <1>7
<1>9. \A i, j \in DOMAIN s : i < j => line[i] < line[j]
  BY <1>5, <1>6
<1>10. ASSUME NEW i \in DOMAIN s, line[i] \notin cut
       PROVE  line[i] \in samples /\ s[i] = page[line[i]].value
  <2>1. line[i] \in 1..Len(page) /\ body[line[i]] = page[line[i]]
    BY <1>2, <1>7, <1>8, <1>10
  <2>. QED
    BY <1>5, <1>6, <1>7, <2>1
<1>11. ASSUME NEW k \in samples \ cut
       PROVE  \/ \E i \in DOMAIN s : line[i] = k
              \/ Len(s) = MaxSeries /\ \A i \in DOMAIN s : line[i] < k
  <2>1. k \in 1..Len(body) /\ Matches(body[k], endpoint)
    BY <1>2, <1>7, <1>11
  <2>. QED
    BY <1>5, <1>6, <2>1
<1>12. samples = Samples(d.page, endpoint)
  BY <1>1 DEF samples
<1>13. /\ Len(d.series) <= MaxSeries
       /\ line \in [DOMAIN d.series -> DOMAIN d.page]
       /\ \A i, j \in DOMAIN d.series : i < j => line[i] < line[j]
  BY <1>1, <1>5, <1>8, <1>9
<1>14. \A i \in DOMAIN d.series : line[i] \notin d.cut =>
          line[i] \in Samples(d.page, endpoint) /\ d.series[i] = d.page[line[i]].value
  BY <1>1, <1>10, <1>12
<1>15. \A k \in Samples(d.page, endpoint) \ d.cut :
          \/ \E i \in DOMAIN d.series : line[i] = k
          \/ Len(d.series) = MaxSeries /\ \A i \in DOMAIN d.series : line[i] < k
  BY <1>1, <1>11, <1>12
<1>. QED
  BY <1>13, <1>14, <1>15, Zenon DEF MadeOfSamples

\* SeriesAreSamples, and that an exporter is asked and not read like a file.
SeriesInv ==
    SeriesAreSamples /\ (pc = "read" => metrics[metric].source # "prometheus")

\* A source returns something else than series.
LEMMA NoSeries ==
    ASSUME NEW result, Fetched(result), result.source # "prometheus"
    PROVE  SeriesInv'
BY DEF Fetched, SeriesInv, SeriesAreSamples

\* The exporter's answer.
LEMMA SeriesOfPage ==
    ASSUME NEW page \in Pages, ExporterAnswers(page) \/ ExporterStalls(page)
    PROVE  SeriesInv'
<1>0. NoData.source = "none"
  BY DEF NoData
<1>1. UNCHANGED <<metrics, metric>>
  BY DEF ExporterAnswers, ExporterStalls, Here
<1>2. \/ Fetched(NoData)
      \/ \E body, cut : Fetched(OfPage(page, body, cut)) /\ MostlyPage(body, page, cut)
  <2>1. CASE ExporterAnswers(page)
    <3>1. PICK cut \in Cuts(page) : \E body \in Bodies(page, cut) : Fetched(OfPage(page, body, cut))
      BY <2>1 DEF ExporterAnswers
    <3>2. PICK body \in Bodies(page, cut) : Fetched(OfPage(page, body, cut))
      BY <3>1
    <3>3. cut \subseteq DOMAIN page
      BY DEF Cuts
    <3>4. MostlyPage(body, page, cut)
      BY <3>3, BodyLemma
    <3>. QED
      BY <3>2, <3>4
  <2>2. CASE ExporterStalls(page)
    <3>1. \/ Fetched(NoData)
          \/ \E n \in DOMAIN page : \E cut \in Cuts(SubSeq(page, 1, n - 1)) :
                \E body \in Bodies(page, cut \cup {n}) :
                   Fetched(OfPage(page, Until(body, n), cut \cup (n..Len(page))))
      BY <2>2 DEF ExporterStalls
    <3>2. ASSUME NEW n \in DOMAIN page, NEW cut \in Cuts(SubSeq(page, 1, n - 1)),
                 NEW body \in Bodies(page, cut \cup {n})
          PROVE  MostlyPage(Until(body, n), page, cut \cup (n..Len(page)))
      <4>1. page \in Seq(Lines)
        BY PageAssumption
      <4>2. DOMAIN SubSeq(page, 1, n - 1) \subseteq DOMAIN page
        BY <4>1
      <4>3. cut \cup {n} \subseteq DOMAIN page
        BY <4>2 DEF Cuts
      <4>4. MostlyPage(body, page, cut \cup {n})
        BY <4>3, BodyLemma
      <4>. QED
        BY <4>4, UntilLemma
    <3>. QED
      BY <3>1, <3>2
  <2>. QED
    BY <2>1, <2>2
<1>3. CASE Fetched(NoData)
  BY <1>0, <1>3, NoSeries
<1>4. ASSUME NEW body, NEW cut, Fetched(OfPage(page, body, cut)), MostlyPage(body, page, cut)
      PROVE  SeriesInv'
  <2>. DEFINE name == metrics[metric].endpoint
              d == [source |-> "prometheus", page |-> page, cut |-> cut,
                    series |-> Series(body, name)]
  <2>1. OfPage(page, body, cut) = NoData \/ OfPage(page, body, cut) = d
    BY DEF OfPage
  <2>2. MadeOfSamples(d, name)
    <3>. HIDE DEF name
    <3>. QED
      BY <1>4, PageLemma
  <2>3. CASE OfPage(page, body, cut) = NoData
    BY <1>0, <1>4, <2>3, NoSeries
  <2>4. CASE OfPage(page, body, cut) = d
    <3>1. pc' = "fetched" /\ data' = d
      BY <1>4, <2>4 DEF Fetched
    <3>. HIDE DEF d
    <3>2. MadeOfSamples(data', metrics'[metric'].endpoint)
      BY <1>1, <2>2, <3>1
    <3>. QED
      BY <3>1, <3>2 DEF SeriesInv, SeriesAreSamples, MadeOfSamples, Samples
  <2>. QED
    BY <2>1, <2>3, <2>4
<1>. QED
  BY <1>2, <1>3, <1>4

\* Every step keeps it.
LEMMA SeriesNext == SeriesInv /\ [Next]_vars => SeriesInv'
<1>. SUFFICES ASSUME SeriesInv, [Next]_vars PROVE SeriesInv'
  OBVIOUS
<1>0. NoData.source = "none"
  BY DEF NoData
<1>1. ASSUME pc' \notin {"read", "fetched"} PROVE SeriesInv'
  BY <1>1 DEF SeriesInv, SeriesAreSamples
<1>2. ASSUME pc' = pc, UNCHANGED <<data, metrics, metric>> PROVE SeriesInv'
  BY <1>2, SMTT(60) DEF SeriesInv, SeriesAreSamples, MadeOfSamples, Samples
<1>3. ASSUME NEW f \in Files, Boot(f) PROVE SeriesInv'
  BY <1>1, <1>3 DEF Boot
<1>4. CASE Test \/ AcceptFails \/ AcceptWaits \/ Accept \/ RecvWaits \/ Recv
  BY <1>1, <1>4 DEF Test, AcceptFails, AcceptWaits, Accept, RecvWaits, Recv, AfterRecv
<1>5. CASE ConfigStart \/ ConfigEnd \/ \E len \in EntryLens : ConfigEntry(len)
  BY <1>1, <1>5 DEF ConfigStart, ConfigEnd, ConfigEntry, Finish
<1>6. CASE GrafanaSearch \/ GrafanaRefused \/ GrafanaQuery \/ GrafanaTarget
  BY <1>1, <1>6 DEF GrafanaSearch, GrafanaRefused, GrafanaQuery, GrafanaTarget, Finish
<1>7. CASE GrafanaLosesTarget \/ GrafanaAppend \/ GrafanaEnd \/ Lookup \/ LookupLosesParam \/ Abort
  BY <1>1, <1>7 DEF GrafanaLosesTarget, GrafanaAppend, GrafanaEnd, Lookup, LookupLosesParam, Abort,
                    Finish
<1>8. CASE NoPicture \/ Render \/ Send \/ SendWaits \/ SendEnds \/ CloseClient
  BY <1>1, <1>8 DEF NoPicture, Render, Send, SendWaits, SendEnds, CloseClient, Finish
<1>9. CASE FetchCached
  <2>1. Fetched([source |-> "rrd", of |-> RrdFile])
    BY <1>9 DEF FetchCached
  <2>. QED
    BY <2>1, NoSeries
<1>10. CASE FetchFails \/ ExporterBreaksPipe
  BY <1>0, <1>10, NoSeries DEF FetchFails, ExporterBreaksPipe
<1>11. CASE FetchOpens
  <2>1. UNCHANGED <<metrics, metric>> /\ pc' # "fetched"
        /\ (pc' = "read" => metrics[metric].source # "prometheus")
    BY <1>11 DEF FetchOpens, Here, workVars
  <2>. QED
    BY <2>1 DEF SeriesInv, SeriesAreSamples
<1>12. CASE ReadFile
  <2>. DEFINE src == metrics[metric].source
              d == [source |-> src,
                    of |-> IF src = "rrd" THEN RrdFile ELSE <<metrics[metric].spec, <<>> >>]
  <2>1. pc = "read" /\ (Fetched(d) \/ Fetched(NoData))
    BY <1>12 DEF ReadFile
  <2>2. src # "prometheus"
    BY <2>1 DEF SeriesInv
  <2>3. d.source = src
    OBVIOUS
  <2>. HIDE DEF d
  <2>. QED
    BY <1>0, <2>1, <2>2, <2>3, NoSeries
<1>13. ASSUME NEW page \in Pages, ExporterAnswers(page) \/ ExporterStalls(page)
       PROVE  SeriesInv'
  BY <1>13, SeriesOfPage
<1>14. CASE ClientCloses \/ \E r \in Requests : ClientSends(r)
  BY <1>2, <1>14 DEF ClientCloses, ClientSends, workVars
<1>15. CASE Signal
  <2>1. UNCHANGED <<data, metrics, metric>> /\ pc' \in {pc, "test", "close"}
    BY <1>15 DEF Signal, Interrupted, workVars
  <2>. QED
    BY <1>1, <1>2, <2>1
<1>16. CASE UNCHANGED vars
  BY <1>2, <1>16 DEF vars, workVars
<1>17. CASE Thread
  BY <1>17, <1>4, <1>5, <1>6, <1>7, <1>8, <1>9, <1>10, <1>11, <1>12, <1>13 DEF Thread
<1>18. CASE Peer
  BY <1>18, <1>4, <1>8, <1>14 DEF Peer
<1>. QED
  BY <1>3, <1>15, <1>16, <1>17, <1>18 DEF Next, Ended

\* prometheus_source_fetch: the series are the values of the page's samples in
\* order, up to MAX_SERIES, but for what comes of lines that were cut because
\* the page came in chunks or ended early.
THEOREM SamplesServed == Spec => []SeriesAreSamples
<1>1. Init => SeriesInv
  BY DEF Init, SeriesInv, SeriesAreSamples
<1>2. SeriesInv => SeriesAreSamples
  BY DEF SeriesInv
<1>. QED
  BY <1>1, <1>2, SeriesNext, PTL DEF Spec
=============================================================================
