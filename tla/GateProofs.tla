----------------------------- MODULE GateProofs -----------------------------
(***************************************************************************)
(* Proofs about the gate, for any names, hosts, requests, secrets and      *)
(* edits, any size of the list and any bound on the clock: the list of     *)
(* datasources and its file through requests, faults and restarts, and the *)
(* token check.                                                            *)
(***************************************************************************)
EXTENDS Gate, CountingLemmas, FiniteSetTheorems

----------------------------------------------------------------------------
Unique(list) == \A i, j \in DOMAIN list : list[i].name = list[j].name => i = j
Listed(list, def) == IF list = <<>> THEN def = NoName ELSE def \in NamesIn(list)
FileType == [default : Names \cup {NoName}, entries : Seq(Written)]

\* What load_datasources keeps of the objects it reads.
Objects == [name : Names \cup {NoName}, host : Hosts \cup {NoName}, port : Nat]
Usable(o) == ~(o.name = NoName \/ o.host = NoName \/ o.port = 0)

\* An object as it is read.
LEMMA ParsedLemma ==
    ASSUME NEW e \in Written
    PROVE  LET p == ParsedEntry(e)
           IN  /\ p.name = e.name /\ p \in Objects
               /\ e \in Source /\ e.name # PortKey => Usable(p)
               /\ e \in Source /\ e.name \notin {HostKey, PortKey} => p = e
<1>1. e.name \in Names /\ e.host \in Hosts \cup {NoName} /\ e.port \in Nat
  BY DEF Written
<1>2. HostKey \in Hosts /\ NoName \notin Names /\ NoName \notin Hosts
  BY SourcesAssumption
<1>3. e \in Source => e.host \in Hosts /\ e.port # 0
                      /\ e = [name |-> e.name, host |-> e.host, port |-> e.port]
  BY DEF Source
<1>. QED
  BY <1>1, <1>2, <1>3 DEF ParsedEntry, Objects, Usable

\* What is usable is a source.
LEMMA UsableLemma ==
    ASSUME NEW o \in Objects, Usable(o)
    PROVE  o \in Source
BY DEF Objects, Usable, Source

\* Keeping an object stays within the array; an object met once is appended.
LEMMA KeepLemma ==
    ASSUME NEW k \in Seq(Source), Len(k) <= MaxSources, NEW o \in Objects, NEW times \in Nat
    PROVE  LET r == Keep(k, o, times)
           IN  /\ r \in Seq(Source) /\ Len(r) <= MaxSources
               /\ times = 0 => r = k
               /\ times = 1 => r = IF Usable(o) /\ Len(k) < MaxSources THEN Append(k, o) ELSE k
<1>. DEFINE room == MaxSources - Len(k)
            m == IF times < room THEN times ELSE room
            c == [i \in 1..m |-> o]
            r == k \o c
<1>1. MaxSources \in Nat /\ Len(k) \in Nat /\ room \in Nat /\ m \in Nat /\ m <= room
  BY SourcesAssumption
<1>2. Keep(k, o, times) = IF Usable(o) THEN r ELSE k
  BY DEF Keep, Usable
<1>3. CASE ~Usable(o)
  BY <1>2, <1>3
<1>4. CASE Usable(o)
  <2>1. o \in Source
    BY <1>4, UsableLemma
  <2>2. c \in Seq(Source) /\ Len(c) = m
    BY <1>1, <2>1
  <2>3. r \in Seq(Source) /\ Len(r) = Len(k) + m
    <3>. HIDE DEF c, m
    <3>. QED
      BY <2>2
  <2>4. Len(r) <= MaxSources
    <3>. HIDE DEF r, m
    <3>. QED
      BY <1>1, <2>3
  <2>5. ASSUME m = 0 PROVE r = k
    <3>1. \A i \in 1..Len(k) : r[i] = k[i]
      <4>. HIDE DEF c, m
      <4>. QED
        BY <2>2
    <3>2. Len(r) = Len(k)
      BY <1>1, <2>3, <2>5
    <3>. HIDE DEF r
    <3>. QED
      BY <2>3, <3>1, <3>2
  <2>6. ASSUME m = 1 PROVE r = Append(k, o)
    <3>1. c[1] = o /\ Len(c) = 1
      BY <2>2, <2>6
    <3>. HIDE DEF c, m
    <3>2. /\ r \in Seq(Source) /\ Len(r) = Len(k) + 1
          /\ \A i \in 1..Len(k) : r[i] = k[i]
          /\ r[Len(k) + 1] = o
      <4>0. r \in Seq(Source) /\ Len(r) = Len(k) + 1
        BY <2>3, <2>6
      <4>1. \A i \in 1..Len(k) : r[i] = k[i]
        BY <2>2
      <4>2. \A i \in 1..(Len(k) + Len(c)) : r[i] = IF i <= Len(k) THEN k[i] ELSE c[i - Len(k)]
        BY <2>2
      <4>3. Len(k) + 1 \in 1..(Len(k) + Len(c)) /\ ~(Len(k) + 1 <= Len(k)) /\ (Len(k) + 1) - Len(k) = 1
        BY <1>1, <3>1
      <4>4. r[Len(k) + 1] = c[(Len(k) + 1) - Len(k)]
        BY <4>2, <4>3
      <4>. QED
        BY <3>1, <4>0, <4>1, <4>3, <4>4
    <3>. HIDE DEF r
    <3>. DEFINE s == Append(k, o)
    <3>3. /\ s \in Seq(Source) /\ Len(s) = Len(k) + 1
          /\ \A i \in 1..Len(k) : s[i] = k[i]
          /\ s[Len(k) + 1] = o
      BY <2>1
    <3>. HIDE DEF s
    <3>4. \A i \in 1..(Len(k) + 1) : r[i] = s[i]
      BY <1>1, <3>2, <3>3
    <3>5. r = s
      BY <3>2, <3>3, <3>4
    <3>. QED
      BY <3>5 DEF s
  <2>7. (times = 0 => m = 0) /\ (times = 1 => m = IF Len(k) < MaxSources THEN 1 ELSE 0)
    BY <1>1
  <2>. HIDE DEF r, m
  <2>. QED
    BY <1>2, <1>4, <2>3, <2>4, <2>5, <2>6, <2>7
<1>. QED
  BY <1>3, <1>4

\* One round of the loop of load_datasources: an object and what begins inside
\* its texts.
Round(list, k, n) ==
    LET e      == list[n]
        inName == {j \in Reopened(e) : j <= Len(Braces[e.name])}
    IN  Keep(Keep(Keep(k, ParsedEntry(e), 1),
                  InName(list, n), Cardinality(inName)),
             InHost(list, n), Cardinality(Reopened(e) \ inName))

\* A round stays within the array; without braces it looks at the object only.
LEMMA RoundLemma ==
    ASSUME NEW list \in Seq(Written), NEW n \in DOMAIN list,
           NEW k \in Seq(Source), Len(k) <= MaxSources
    PROVE  LET e == ParsedEntry(list[n])
               r == Round(list, k, n)
           IN  /\ r \in Seq(Source) /\ Len(r) <= MaxSources
               /\ Reopened(list[n]) = {} =>
                      r = IF Usable(e) /\ Len(k) < MaxSources THEN Append(k, e) ELSE k
<1>. DEFINE e == list[n]
            p == ParsedEntry(e)
            inName == {j \in Reopened(e) : j <= Len(Braces[e.name])}
            c1 == Cardinality(inName)
            c2 == Cardinality(Reopened(e) \ inName)
            k1 == Keep(k, p, 1)
            k2 == Keep(k1, InName(list, n), c1)
            k3 == Keep(k2, InHost(list, n), c2)
<1>1. e \in Written /\ n \in 1..Len(list) /\ Len(list) \in Nat
  OBVIOUS
<1>2. p \in Objects
  BY <1>1, ParsedLemma
<1>3. InName(list, n) \in Objects /\ InHost(list, n) \in Objects
  <2>1. CASE n < Len(list)
    <3>1. list[n + 1] \in Written
      BY <1>1, <2>1
    <3>2. ParsedEntry(list[n + 1]) \in Objects
      BY <3>1, ParsedLemma
    <3>. QED
      BY <1>1, <2>1, <3>1, <3>2 DEF InName, InHost, Objects, Written
  <2>2. CASE ~(n < Len(list))
    BY <1>1, <2>2 DEF InName, InHost, Objects, Written, Nothing
  <2>. QED
    BY <2>1, <2>2
<1>4. IsFiniteSet(Reopened(e))
  <2>1. Braces[e.name] \in Seq({"open", "close"}) /\ Braces[e.host] \in Seq({"open", "close"})
    <3>1. e.name \in Names /\ e.host \in Hosts \cup {NoName}
      BY <1>1 DEF Written
    <3>. QED
      BY <3>1, SourcesAssumption
  <2>2. Len(Marks(e)) \in Nat
    <3>. DEFINE a == Braces[e.name]
                b == Braces[e.host]
    <3>1. Marks(e) = a \o b
      BY DEF Marks
    <3>. HIDE DEF a, b
    <3>2. a \in Seq({"open", "close"}) /\ b \in Seq({"open", "close"})
      BY <2>1 DEF a, b
    <3>3. Len(a \o b) = Len(a) + Len(b) /\ Len(a) \in Nat /\ Len(b) \in Nat
      BY <3>2
    <3>. QED
      BY <3>1, <3>3
  <2>3. IsFiniteSet(2..Len(Marks(e)))
    BY <2>2, FS_Interval
  <2>4. Reopened(e) \subseteq 2..Len(Marks(e))
    BY DEF Reopened
  <2>. QED
    BY <2>3, <2>4, FS_Subset
<1>. HIDE DEF e
<1>5. c1 \in Nat /\ c2 \in Nat
  <2>1. IsFiniteSet(inName) /\ IsFiniteSet(Reopened(e) \ inName)
    BY <1>4, FS_Subset
  <2>. HIDE DEF inName
  <2>. QED
    BY <2>1, FS_CardinalityType
<1>6. Reopened(e) = {} => c1 = 0 /\ c2 = 0
  <2>1. Reopened(e) = {} => inName = {} /\ Reopened(e) \ inName = {}
    OBVIOUS
  <2>2. Cardinality({}) = 0
    BY FS_EmptySet
  <2>. HIDE DEF inName
  <2>. QED
    BY <2>1, <2>2
<1>. HIDE DEF c1, c2
<1>7. /\ k1 \in Seq(Source) /\ Len(k1) <= MaxSources
      /\ k1 = IF Usable(p) /\ Len(k) < MaxSources THEN Append(k, p) ELSE k
  <2>. HIDE DEF p
  <2>. QED
    BY <1>2, KeepLemma
<1>. HIDE DEF k1
<1>8. k2 \in Seq(Source) /\ Len(k2) <= MaxSources /\ (c1 = 0 => k2 = k1)
  BY <1>3, <1>5, <1>7, KeepLemma
<1>. HIDE DEF k2
<1>9. k3 \in Seq(Source) /\ Len(k3) <= MaxSources /\ (c2 = 0 => k3 = k2)
  BY <1>3, <1>5, <1>8, KeepLemma
<1>10. Round(list, k, n) = k3
  BY DEF Round, k1, k2, c1, c2, e
<1>. HIDE DEF k3
<1>. QED
  BY <1>6, <1>7, <1>8, <1>9, <1>10 DEF e

\* The loop of load_datasources, as a function of the number of objects it has
\* looked at.
LoadStep(list, kept, n) == IF n = 0 THEN <<>> ELSE Round(list, kept[n - 1], n)

\* The loop computes what its steps say, and its last value is what is loaded.
LEMMA LoadDefined ==
    ASSUME NEW f \in FileType
    PROVE  \E kept : /\ kept = [n \in 0..Len(f.entries) |-> LoadStep(f.entries, kept, n)]
                     /\ ParsedEntries(f) = kept[Len(f.entries)]
<1>. DEFINE list == f.entries
            m == Len(list)
            S == {s \in Seq(Source) : Len(s) <= MaxSources}
            none == <<>>
            g == [n \in 1..m |-> [s \in S |-> Round(list, s, n)]]
            Body(kept) == [n \in 0..m |-> LoadStep(list, kept, n)]
<1>1. m \in Nat /\ list \in Seq(Written) /\ DOMAIN list = 1..m
  BY DEF FileType
<1>. HIDE DEF list
<1>. HIDE DEF m
<1>3. \A n \in 1..m : \A s \in S : g[n][s] \in S
  <2>1. ASSUME NEW n \in 1..m, NEW s \in S PROVE Round(list, s, n) \in S
    BY <1>1, RoundLemma
  <2>. QED
    BY <2>1
<1>4. \A n \in 1..m, s \in S : g[n][s] = Round(list, s, n)
  OBVIOUS
<1>5. none \in S
  BY SourcesAssumption
<1>. HIDE DEF g
<1>6. PICK k : RunsLoop(k, m, S, none, g)
  <2>. HIDE DEF S, none
  <2>. QED
    BY <1>1, <1>3, <1>5, LoopValues
<1>7. ASSUME NEW n \in 0..m PROVE k[n] = LoadStep(list, k, n)
  <2>1. CASE n = 0
    BY <1>6, <2>1 DEF LoadStep, RunsLoop
  <2>2. CASE n # 0
    <3>1. n \in 1..m /\ n - 1 \in 0..m
      BY <1>1, <2>2
    <3>. HIDE DEF S
    <3>. QED
      BY <1>4, <1>6, <2>2, <3>1 DEF LoadStep, RunsLoop
  <2>. QED
    BY <2>1, <2>2
<1>8. k = Body(k)
  <2>1. k \in [0..m -> S]
    BY <1>6 DEF RunsLoop
  <2>. HIDE DEF LoadStep, S
  <2>. QED
    BY <1>7, <2>1
<1>. DEFINE kept == CHOOSE h : h = Body(h)
<1>9. kept = Body(kept)
  <2>. HIDE DEF Body
  <2>. QED
    BY <1>8
<1>10. ParsedEntries(f) = kept[m]
  BY DEF ParsedEntries, LoadStep, Round, list, m
<1>. HIDE DEF kept
<1>. QED
  BY <1>9, <1>10 DEF list, m

\* Whatever braces its texts have, a file gives sources, and no more than the
\* array holds.
LEMMA LoadTyped ==
    ASSUME NEW f \in FileType
    PROVE  ParsedEntries(f) \in Seq(Source) /\ Len(ParsedEntries(f)) <= MaxSources
<1>. DEFINE list == f.entries
            m == Len(list)
<1>1. list \in Seq(Written) /\ m \in Nat /\ DOMAIN list = 1..m
  BY DEF FileType
<1>2. PICK kept : /\ kept = [n \in 0..m |-> LoadStep(list, kept, n)]
                  /\ ParsedEntries(f) = kept[m]
  BY LoadDefined
<1>. DEFINE T == {n \in 0..m : kept[n] \in Seq(Source) /\ Len(kept[n]) <= MaxSources}
<1>. HIDE DEF list, m
<1>3. 0 \in T
  <2>1. kept[0] = <<>>
    BY <1>1, <1>2 DEF LoadStep
  <2>. QED
    BY <1>1, <2>1, SourcesAssumption
<1>4. ASSUME NEW n \in 0..m, n < m, n \in T PROVE n + 1 \in T
  <2>0. n + 1 \in 1..m /\ n + 1 \in 0..m /\ n + 1 # 0 /\ (n + 1) - 1 = n
    BY <1>1, <1>4
  <2>1. kept[n + 1] = Round(list, kept[n], n + 1)
    BY <1>2, <2>0 DEF LoadStep
  <2>2. kept[n] \in Seq(Source) /\ Len(kept[n]) <= MaxSources /\ n + 1 \in DOMAIN list
    BY <1>1, <1>4, <2>0
  <2>3. kept[n + 1] \in Seq(Source) /\ Len(kept[n + 1]) <= MaxSources
    BY <1>1, <2>1, <2>2, RoundLemma
  <2>. QED
    BY <2>0, <2>3
<1>5. \A n \in 0..m : n < m /\ n \in T => n + 1 \in T
  BY <1>4
<1>6. m \in T
  <2>. HIDE DEF T
  <2>. QED
    BY <1>1, <1>3, <1>5, CountUp
<1>. QED
  BY <1>2, <1>6

\* What load_datasources makes of a file in which no object begins inside
\* another: each source under a name of the file and at most once if the file
\* has it at most once; every whole object within the array's size whose name
\* is not "port"; and the whole list if no name is spelled like a key.
LEMMA LoadLemma ==
    ASSUME NEW f \in FileType, ~HasPhantoms(f)
    PROVE  LET list == f.entries
               got  == ParsedEntries(f)
           IN  /\ Unique(list) => Unique(got)
               /\ \A i \in DOMAIN list :
                      i <= MaxSources /\ list[i] \in Source /\ list[i].name # PortKey => list[i].name \in NamesIn(got)
               /\ /\ NamesIn(list) \cap {HostKey, PortKey} = {}
                  /\ Len(list) <= MaxSources /\ list \in Seq(Source)
                  => got = list
<1>. DEFINE list == f.entries
            m == Len(list)
            Plain == NamesIn(list) \cap {HostKey, PortKey} = {} /\ m <= MaxSources /\ list \in Seq(Source)
<1>1. /\ list \in Seq(Written) /\ m \in Nat /\ DOMAIN list = 1..m
      /\ \A i \in DOMAIN list : Reopened(list[i]) = {}
  <2>1. list \in Seq(Written)
    BY DEF FileType
  <2>2. \A i \in DOMAIN list : Reopened(list[i]) = {}
    BY DEF HasPhantoms
  <2>. HIDE DEF list
  <2>. QED
    BY <2>1, <2>2
<1>0. MaxSources \in Nat
  BY SourcesAssumption
<1>2. PICK kept : /\ kept = [n \in 0..m |-> LoadStep(list, kept, n)]
                  /\ ParsedEntries(f) = kept[m]
  BY LoadDefined
<1>. DEFINE Good(n) ==
              /\ kept[n] \in Seq(Source) /\ Len(kept[n]) <= MaxSources /\ Len(kept[n]) <= n
              /\ \A j \in DOMAIN kept[n] : \E i \in 1..n : list[i].name = kept[n][j].name
              /\ Unique(list) => Unique(kept[n])
              /\ \A i \in 1..n : i <= MaxSources /\ list[i] \in Source /\ list[i].name # PortKey =>
                     \E j \in DOMAIN kept[n] : kept[n][j].name = list[i].name
              /\ Plain => Len(kept[n]) = n /\ \A i \in 1..n : kept[n][i] = list[i]
            T == {n \in 0..m : Good(n)}
<1>. HIDE DEF list, m, Plain
<1>3. Good(0)
  <2>1. kept[0] = <<>>
    BY <1>1, <1>2 DEF LoadStep
  <2>. QED
    BY <2>1, SourcesAssumption DEF Unique
<1>4. ASSUME NEW n \in 0..m, n < m, Good(n) PROVE Good(n + 1)
  <2>. DEFINE e == ParsedEntry(list[n + 1])
              k == kept[n]
              k2 == kept[n + 1]
  <2>0. n \in Nat /\ n + 1 \in 1..m /\ n + 1 \in 0..m /\ n + 1 # 0 /\ (n + 1) - 1 = n
    BY <1>1, <1>4
  <2>1. list[n + 1] \in Written
    BY <1>1, <2>0
  <2>2. /\ e.name = list[n + 1].name
        /\ Usable(e) => e \in Source
        /\ list[n + 1] \in Source /\ list[n + 1].name # PortKey => Usable(e)
        /\ list[n + 1] \in Source /\ list[n + 1].name \notin {HostKey, PortKey} => e = list[n + 1]
    BY <2>1, ParsedLemma, UsableLemma
  <2>3. k2 = IF Usable(e) /\ Len(k) < MaxSources THEN Append(k, e) ELSE k
    <3>1. k2 = Round(list, k, n + 1)
      BY <1>2, <2>0 DEF LoadStep
    <3>2. n + 1 \in DOMAIN list /\ Reopened(list[n + 1]) = {} /\ k \in Seq(Source)
          /\ Len(k) <= MaxSources
      BY <1>1, <1>4, <2>0
    <3>. HIDE DEF k, k2
    <3>. QED
      BY <1>1, <3>1, <3>2, RoundLemma
  <2>4. Plain => /\ list[n + 1].name \notin {HostKey, PortKey} /\ n + 1 <= MaxSources
                 /\ list[n + 1] \in Source
    <3>1. list[n + 1].name \in NamesIn(list)
      BY <1>1, <2>0 DEF NamesIn
    <3>2. m <= MaxSources => n + 1 <= MaxSources
      BY <1>1, <1>0, <2>0
    <3>3. list \in Seq(Source) => list[n + 1] \in Source
      BY <1>1, <2>0
    <3>. QED
      BY <3>1, <3>2, <3>3 DEF Plain
  <2>. HIDE DEF e
  <2>5. CASE Usable(e) /\ Len(k) < MaxSources
    <3>1. k \in Seq(Source) /\ e \in Source /\ k2 = Append(k, e)
      BY <1>4, <2>2, <2>3, <2>5
    <3>2. /\ k2 \in Seq(Source) /\ Len(k2) = Len(k) + 1 /\ DOMAIN k2 = 1..(Len(k) + 1)
          /\ DOMAIN k = 1..Len(k) /\ Len(k) \in Nat
          /\ \A j \in DOMAIN k : j \in DOMAIN k2 /\ k2[j] = k[j]
          /\ Len(k) + 1 \in DOMAIN k2 /\ k2[Len(k) + 1] = e
          /\ \A j \in DOMAIN k2 : j \in DOMAIN k \/ j = Len(k) + 1
      BY <3>1
    <3>. HIDE DEF k, k2
    <3>g. /\ Len(k) <= MaxSources /\ Len(k) <= n
          /\ \A j \in DOMAIN k : \E i \in 1..n : list[i].name = k[j].name
          /\ Unique(list) => Unique(k)
          /\ \A i \in 1..n : i <= MaxSources /\ list[i] \in Source /\ list[i].name # PortKey =>
                 \E j \in DOMAIN k : k[j].name = list[i].name
          /\ Plain => Len(k) = n /\ \A i \in 1..n : k[i] = list[i]
      BY <1>4 DEF k
    <3>3. Len(k2) <= MaxSources /\ Len(k2) <= n + 1
      <4>1. Len(k2) = Len(k) + 1 /\ Len(k) \in Nat /\ Len(k) < MaxSources /\ Len(k) <= n
        BY <2>5, <3>2, <3>g
      <4>. QED
        BY <4>1, <1>0, <2>0
    <3>4. \A j \in DOMAIN k2 : \E i \in 1..(n + 1) : list[i].name = k2[j].name
      <4>1. ASSUME NEW j \in DOMAIN k PROVE \E i \in 1..(n + 1) : list[i].name = k2[j].name
        <5>1. PICK i \in 1..n : list[i].name = k[j].name
          BY <3>g
        <5>2. i \in 1..(n + 1) /\ k2[j] = k[j]
          BY <2>0, <3>2
        <5>. QED
          BY <5>1, <5>2
      <4>2. n + 1 \in 1..(n + 1) /\ list[n + 1].name = k2[Len(k) + 1].name
        BY <2>0, <2>2, <3>2
      <4>3. \A j \in DOMAIN k2 : j \in DOMAIN k \/ j = Len(k) + 1
        BY <3>2
      <4>. QED
        BY <4>1, <4>2, <4>3
    <3>5. Unique(list) => Unique(k2)
      <4>1. ASSUME Unique(list) PROVE \A j \in DOMAIN k : k[j].name # e.name
        BY <4>1, <1>1, <2>0, <2>2, <3>g DEF Unique
      <4>. QED
        BY <4>1, <3>2, <3>g, ZenonT(60) DEF Unique
    <3>6. \A i \in 1..(n + 1) : i <= MaxSources /\ list[i] \in Source /\ list[i].name # PortKey =>
              \E j \in DOMAIN k2 : k2[j].name = list[i].name
      <4>1. \A i \in 1..(n + 1) : i \in 1..n \/ i = n + 1
        BY <2>0
      <4>2. ASSUME NEW i \in 1..n, i <= MaxSources, list[i] \in Source, list[i].name # PortKey
            PROVE  \E j \in DOMAIN k2 : k2[j].name = list[i].name
        <5>1. PICK j \in DOMAIN k : k[j].name = list[i].name
          BY <4>2, <3>g
        <5>. QED
          BY <5>1, <3>2
      <4>3. \E j \in DOMAIN k2 : k2[j].name = list[n + 1].name
        BY <2>2, <3>2
      <4>. QED
        BY <4>1, <4>2, <4>3
    <3>7. Plain => Len(k2) = n + 1 /\ \A i \in 1..(n + 1) : k2[i] = list[i]
      BY <2>0, <2>2, <2>4, <3>2, <3>g
    <3>. QED
      BY <3>2, <3>3, <3>4, <3>5, <3>6, <3>7 DEF k2
  <2>6. CASE ~(Usable(e) /\ Len(k) < MaxSources)
    <3>1. k2 = k
      BY <2>3, <2>6
    <3>. HIDE DEF k, k2
    <3>g. /\ k \in Seq(Source) /\ Len(k) <= MaxSources /\ Len(k) <= n
          /\ \A j \in DOMAIN k : \E i \in 1..n : list[i].name = k[j].name
          /\ Unique(list) => Unique(k)
          /\ \A i \in 1..n : i <= MaxSources /\ list[i] \in Source /\ list[i].name # PortKey =>
                 \E j \in DOMAIN k : k[j].name = list[i].name
          /\ Plain => Len(k) = n /\ \A i \in 1..n : k[i] = list[i]
      BY <1>4 DEF k
    <3>2. ~(n + 1 <= MaxSources /\ list[n + 1] \in Source /\ list[n + 1].name # PortKey)
      <4>1. Len(k) \in Nat
        BY <3>g
      <4>. QED
        BY <4>1, <2>0, <2>2, <2>6, <3>g, SourcesAssumption
    <3>3. ~Plain
      BY <2>4, <3>2
    <3>4. \A i \in 1..(n + 1) : i \in 1..n \/ i = n + 1
      BY <2>0
    <3>5. Len(k) <= n + 1
      BY <2>0, <3>g
    <3>6. \A i \in 1..n : i \in 1..(n + 1)
      BY <2>0
    <3>. QED
      BY <3>1, <3>2, <3>3, <3>4, <3>5, <3>6, <3>g DEF k2
  <2>. QED
    BY <2>5, <2>6
<1>. HIDE DEF Good
<1>5. Good(m)
  <2>1. 0 \in T
    BY <1>1, <1>3
  <2>2. \A n \in 0..m : n < m /\ n \in T => n + 1 \in T
    BY <1>1, <1>4
  <2>. HIDE DEF T
  <2>3. \A n \in 0..m : n \in T
    BY <1>1, <2>1, <2>2, CountUp
  <2>. QED
    BY <1>1, <2>3 DEF T
<1>6. /\ kept[m] \in Seq(Source)
      /\ Unique(list) => Unique(kept[m])
      /\ \A i \in 1..m : i <= MaxSources /\ list[i] \in Source /\ list[i].name # PortKey =>
             list[i].name \in NamesIn(kept[m])
      /\ Plain => Len(kept[m]) = m /\ \A i \in 1..m : kept[m][i] = list[i]
  BY <1>5 DEF Good, NamesIn
<1>7. Plain => kept[m] = list
  <2>. DEFINE k == kept[m]
  <2>1. k \in Seq(Source) /\ (Plain => Len(k) = m /\ \A i \in 1..m : k[i] = list[i])
    BY <1>6
  <2>. HIDE DEF k
  <2>2. Plain => k = list
    BY <1>1, <2>1 DEF m, Plain
  <2>. QED
    BY <2>2 DEF k
<1>. QED
  BY <1>1, <1>2, <1>6, <1>7 DEF Plain, m, list

----------------------------------------------------------------------------
\* find_datasource finds a listed name where it is, and 0 for any other.
LEMMA FindLemma ==
    ASSUME NEW name, items \in Seq(Source)
    PROVE  LET i == find_datasource(name)
           IN  /\ i = 0 => name \notin NamesIn(items)
               /\ i # 0 => i \in DOMAIN items /\ items[i].name = name /\ name \in NamesIn(items)
<1>. DEFINE I == {i \in 1..Len(items) : items[i].name = name}
<1>1. find_datasource(name) = IF I # {} THEN Min(I) ELSE 0
  BY DEF find_datasource, SelectInSeq
<1>2. I \subseteq Nat /\ 0 \notin I /\ DOMAIN items = 1..Len(items)
  OBVIOUS
<1>3. I # {} => \E m \in I : \A y \in I : m <= y
  <2>. HIDE DEF I
  <2>. QED
    BY <1>2, LeastNumber
<1>4. I # {} => Min(I) \in I
  <2>. HIDE DEF I
  <2>. QED
    BY <1>3 DEF Min
<1>5. I = {} => name \notin NamesIn(items)
  BY <1>2 DEF NamesIn
<1>. QED
  BY <1>1, <1>2, <1>4, <1>5 DEF NamesIn

\* A list without one of its entries.
LEMMA RemoveLemma ==
    ASSUME NEW s \in Seq(Source), NEW i \in DOMAIN s
    PROVE  LET r == RemoveAt(s, i)
           IN  /\ r \in Seq(Source) /\ Len(r) = Len(s) - 1 /\ (Unique(s) => Unique(r))
               /\ \A n \in NamesIn(s) : n # s[i].name => n \in NamesIn(r)
<1>. DEFINE a == SubSeq(s, 1, i - 1)
            b == SubSeq(s, i + 1, Len(s))
            r == a \o b
<1>1. RemoveAt(s, i) = r
  BY DEF RemoveAt
<1>2. i \in 1..Len(s) /\ Len(s) \in Nat /\ DOMAIN s = 1..Len(s)
  OBVIOUS
<1>3. /\ a \in Seq(Source) /\ Len(a) = i - 1 /\ \A j \in 1..(i - 1) : a[j] = s[j]
      /\ b \in Seq(Source) /\ Len(b) = Len(s) - i
      /\ \A j \in 1..(Len(s) - i) : b[j] = s[i + j]
  BY <1>2, SMTT(60)
<1>. HIDE DEF a, b
<1>4. /\ r \in Seq(Source) /\ Len(r) = Len(s) - 1
      /\ \A j \in 1..(Len(s) - 1) : r[j] = IF j < i THEN s[j] ELSE s[j + 1]
  <2>0. a \in Seq(Source) /\ b \in Seq(Source)
    BY <1>3
  <2>1. r \in Seq(Source) /\ Len(r) = Len(a) + Len(b)
    BY <2>0
  <2>2. \A j \in 1..(Len(a) + Len(b)) : r[j] = IF j <= Len(a) THEN a[j] ELSE b[j - Len(a)]
    BY <2>0
  <2>. HIDE DEF r
  <2>3. ASSUME NEW j \in 1..(Len(s) - 1) PROVE r[j] = IF j < i THEN s[j] ELSE s[j + 1]
    <3>1. CASE j < i
      BY <1>2, <1>3, <2>2, <3>1
    <3>2. CASE ~(j < i)
      <4>1. j - (i - 1) \in 1..(Len(s) - i) /\ i + (j - (i - 1)) = j + 1
        BY <1>2, <3>2
      <4>2. j \in 1..(Len(a) + Len(b)) /\ ~(j <= Len(a)) /\ j - Len(a) = j - (i - 1)
        BY <1>2, <1>3, <3>2
      <4>3. r[j] = b[j - (i - 1)]
        BY <2>2, <4>2
      <4>4. b[j - (i - 1)] = s[i + (j - (i - 1))]
        BY <1>3, <4>1
      <4>. QED
        BY <3>2, <4>1, <4>3, <4>4
    <3>. QED
      BY <3>1, <3>2
  <2>. QED
    BY <1>2, <1>3, <2>1, <2>3
<1>5. DOMAIN r = 1..(Len(s) - 1)
  BY <1>4
<1>. HIDE DEF r
<1>6. \A j \in DOMAIN r : \E k \in DOMAIN s : r[j] = s[k] /\ k = (IF j < i THEN j ELSE j + 1)
  BY <1>2, <1>4, <1>5
<1>7. Unique(s) => Unique(r)
  <2>. SUFFICES ASSUME Unique(s), NEW j \in DOMAIN r, NEW l \in DOMAIN r, r[j].name = r[l].name
                PROVE  j = l
    BY DEF Unique
  <2>1. PICK k \in DOMAIN s : r[j] = s[k] /\ k = (IF j < i THEN j ELSE j + 1)
    BY <1>6
  <2>2. PICK h \in DOMAIN s : r[l] = s[h] /\ h = (IF l < i THEN l ELSE l + 1)
    BY <1>6
  <2>3. k = h
    BY <2>1, <2>2 DEF Unique
  <2>. QED
    BY <1>2, <1>5, <2>1, <2>2, <2>3
<1>8. ASSUME NEW k \in DOMAIN s, k # i PROVE s[k].name \in NamesIn(r)
  <2>1. CASE k < i
    <3>1. k \in DOMAIN r /\ r[k] = s[k]
      BY <2>1, <1>2, <1>4, <1>5
    <3>. QED
      BY <3>1 DEF NamesIn
  <2>2. CASE k > i
    <3>1. k - 1 \in DOMAIN r /\ r[k - 1] = s[k]
      BY <2>2, <1>2, <1>4, <1>5
    <3>. QED
      BY <3>1 DEF NamesIn
  <2>. QED
    BY <2>1, <2>2, <1>2, <1>8
<1>9. \A n \in NamesIn(s) : n # s[i].name => n \in NamesIn(r)
  BY <1>8 DEF NamesIn
<1>. QED
  BY <1>1, <1>4, <1>7, <1>9

\* A list with an entry of a new name.
LEMMA AppendLemma ==
    ASSUME NEW s \in Seq(Source), NEW e \in Source, e.name \notin NamesIn(s)
    PROVE  LET r == Append(s, e)
           IN  /\ r \in Seq(Source) /\ Len(r) = Len(s) + 1 /\ (Unique(s) => Unique(r))
               /\ NamesIn(r) = NamesIn(s) \cup {e.name}
<1>. DEFINE r == Append(s, e)
<1>1. /\ r \in Seq(Source) /\ Len(r) = Len(s) + 1 /\ Len(s) \in Nat
      /\ DOMAIN s = 1..Len(s) /\ DOMAIN r = 1..(Len(s) + 1)
      /\ \A j \in DOMAIN s : j \in DOMAIN r /\ r[j] = s[j]
      /\ Len(s) + 1 \in DOMAIN r /\ r[Len(s) + 1] = e
      /\ \A j \in DOMAIN r : j \in DOMAIN s \/ j = Len(s) + 1
  OBVIOUS
<1>. HIDE DEF r
<1>2. \A j \in DOMAIN s : s[j].name # e.name
  BY DEF NamesIn
<1>3. Unique(s) => Unique(r)
  BY <1>1, <1>2 DEF Unique
<1>4. NamesIn(r) = NamesIn(s) \cup {e.name}
  <2>1. NamesIn(s) \cup {e.name} \subseteq NamesIn(r)
    BY <1>1 DEF NamesIn
  <2>2. NamesIn(r) \subseteq NamesIn(s) \cup {e.name}
    BY <1>1 DEF NamesIn
  <2>. QED
    BY <2>1, <2>2
<1>. QED
  BY <1>1, <1>3, <1>4 DEF r

\* Whatever save_datasources leaves of a list without duplicates is a file
\* without duplicates, and without faults it is the list.
LEMMA SaveLemma ==
    ASSUME NEW list \in Seq(Source), NEW def \in Names \cup {NoName},
           file \in FileType, save_datasources(list, def)
    PROVE  /\ file' \in FileType
           /\ Unique(list) /\ Unique(file.entries) => Unique(file'.entries)
           /\ ~faults => file' = Text(list, def)
<1>. DEFINE Like(t) == /\ t \in FileType
                       /\ \A i \in DOMAIN t.entries :
                              i \in DOMAIN list /\ t.entries[i].name = list[i].name
<1>0. list \in Seq(Written)
  <2>1. Source \subseteq Written
    BY DEF Source, Written
  <2>. QED
    BY <2>1
<1>1. \A t : Like(t) /\ Unique(list) => Unique(t.entries)
  BY DEF Unique
<1>2. Like(Text(list, def))
  BY <1>0 DEF Text, FileType
<1>3. Like(EmptyFile)
  BY DEF EmptyFile, FileType
<1>4. ASSUME NEW n \in 0..Len(list) PROVE Like(Text(SubSeq(list, 1, n), def))
  <2>. DEFINE e == SubSeq(list, 1, n)
  <2>1. e \in Seq(Written) /\ DOMAIN e = 1..n /\ \A i \in 1..n : i \in DOMAIN list /\ e[i] = list[i]
    BY <1>0
  <2>. HIDE DEF e
  <2>2. Like(Text(e, def))
    BY <2>1 DEF Text, FileType
  <2>. QED
    BY <2>2 DEF e
<1>5. ASSUME NEW n \in DOMAIN list, NEW c \in TornEntries(list[n])
      PROVE  Like(Text(SubSeq(list, 1, n - 1) \o <<c>>, def))
  <2>. DEFINE a == SubSeq(list, 1, n - 1)
              e == a \o <<c>>
  <2>0. n \in 1..Len(list) /\ Len(list) \in Nat /\ DOMAIN list = 1..Len(list) /\ list[n] \in Source
    OBVIOUS
  <2>1. list[n].port \in Nat /\ list[n].name \in Names /\ list[n].host \in Hosts
    BY <2>0 DEF Source
  <2>2. \A p \in TornPort(list[n].port) : p \in Nat
    BY <2>1 DEF TornPort
  <2>3. c \in Written /\ c.name = list[n].name
    <3>1. \/ \E p \in Nat : c = [list[n] EXCEPT !.port = p]
          \/ c = [list[n] EXCEPT !.host = NoName, !.port = 0]
      BY <2>2 DEF TornEntries
    <3>2. ASSUME NEW p \in Nat, c = [list[n] EXCEPT !.port = p]
          PROVE  c \in Written /\ c.name = list[n].name
      BY <2>0, <3>2 DEF Source, Written
    <3>3. ASSUME c = [list[n] EXCEPT !.host = NoName, !.port = 0]
          PROVE  c \in Written /\ c.name = list[n].name
      BY <2>0, <3>3 DEF Source, Written
    <3>. QED
      BY <3>1, <3>2, <3>3
  <2>4. a \in Seq(Written) /\ Len(a) = n - 1 /\ \A i \in 1..(n - 1) : a[i] = list[i]
    BY <1>0, <2>0
  <2>. HIDE DEF a
  <2>5. /\ e \in Seq(Written) /\ DOMAIN e = 1..n
        /\ \A i \in 1..n : e[i] = IF i = n THEN c ELSE list[i]
    BY <2>0, <2>3, <2>4
  <2>. HIDE DEF e
  <2>6. Like(Text(e, def))
    BY <2>0, <2>3, <2>5 DEF Text, FileType
  <2>. QED
    BY <2>6 DEF e, a
<1>. HIDE DEF Like
<1>6. ASSUME NEW t \in TornTexts(list, def) PROVE Like(t)
  BY <1>3, <1>4, <1>5 DEF TornTexts
<1>7. file' = file \/ Like(file')
  BY <1>2, <1>6 DEF save_datasources
<1>8. file' \in FileType /\ (Unique(list) /\ Unique(file.entries) => Unique(file'.entries))
  BY <1>1, <1>7 DEF Like
<1>9. ~faults => file' = Text(list, def)
  BY DEF save_datasources
<1>. QED
  BY <1>8, <1>9

----------------------------------------------------------------------------
\* Without faults the file has whole objects and names a default that
\* load_datasources will keep, unless that is spelled like the key it drops or
\* what it meets inside others takes the room.
FileDefault ==
    ~faults =>
        /\ file.entries \in Seq(Source)
        /\ file.entries # <<>> /\ file.default # PortKey /\ ~phantom =>
               \E i \in DOMAIN file.entries :
                   i <= MaxSources /\ file.entries[i].name = file.default

\* The list and its file; the file has no duplicates either, or the next start
\* would load them.
ListInv ==
    /\ SourcesTypeOK
    /\ Len(items) <= MaxSources
    /\ ~phantom => Unique(items) /\ Unique(file.entries)
    /\ FileDefault
    /\ DefaultResolves
    /\ FileHoldsList

\* Tokens live no longer than the configuration may say.
AuthInv ==
    /\ now \in 0..MaxNow
    /\ secret \in Secrets \cup {NoSecret}
    /\ days \in 1..MaxDays
    /\ issued \in SUBSET Tokens
    /\ \A t \in issued : t.exp <= t.iat + MaxDays

\* A stopped gate has no list, no connection and no answer under way.
Conns ==
    [at : {"recv", "ready", "blocked"}, req : RequestType,
     token : [secret : Secrets \cup {NoSecret}, iat : Nat, exp : Nat], whole : BOOLEAN]
Statuses == {0, 200, 201, 204, 400, 401, 404, 409, 413, 500}
LoopInv ==
    /\ up \in BOOLEAN /\ edited \in BOOLEAN
    /\ conn = NoConn \/ (up /\ conn \in Conns)
    /\ ~up => items = <<>> /\ reply = NoReply
    /\ reply.status \in Statuses

GateInv == ListInv /\ AuthInv /\ LoopInv /\ CreatedIsListed

----------------------------------------------------------------------------
\* A change of the list that keeps names unique, the size within bounds and a
\* default listed, with the save that follows it.
LEMMA Relisted ==
    ASSUME ListInv, NEW list \in Seq(Source), NEW def \in Names \cup {NoName},
           ~phantom => Unique(list), Len(list) <= MaxSources,
           ~faults /\ ~phantom /\ def # PortKey => Listed(list, def),
           items' = list, default_name' = def, UNCHANGED loadVars, save_datasources(list, def)
    PROVE  ListInv'
<1>0. faults' = faults /\ phantom' = phantom
  BY DEF loadVars
<1>1. /\ file' \in FileType
      /\ ~phantom => Unique(file'.entries)
      /\ ~faults => file' = Text(list, def)
  BY SaveLemma DEF ListInv, SourcesTypeOK, FileType
<1>2. SourcesTypeOK'
  BY <1>0, <1>1 DEF ListInv, SourcesTypeOK, FileType
<1>3. ~faults => file'.entries = list /\ file'.default = def
  BY <1>1 DEF Text
<1>4. FileDefault'
  <2>. SUFFICES ASSUME ~faults, ~phantom, list # <<>>, def # PortKey
                PROVE  \E i \in DOMAIN list : i <= MaxSources /\ list[i].name = def
    BY <1>0, <1>3 DEF FileDefault
  <2>1. PICK i \in DOMAIN list : list[i].name = def
    BY DEF Listed, NamesIn
  <2>2. i \in 1..Len(list) /\ Len(list) \in Nat /\ MaxSources \in Nat
    BY SourcesAssumption
  <2>. QED
    BY <2>1, <2>2
<1>5. DefaultResolves'
  BY <1>0 DEF DefaultResolves, DefaultIsListed, Listed
<1>6. FileHoldsList'
  BY <1>0, <1>1 DEF FileHoldsList, Text
<1>. QED
  BY <1>0, <1>1, <1>2, <1>4, <1>5, <1>6 DEF ListInv

\* A step that leaves the list and what it depends on alone.
LEMMA ListKept ==
    ASSUME ListInv, UNCHANGED <<sourceVars, loadVars, up, edited>>
    PROVE  ListInv'
<1>1. UNCHANGED <<items, default_name, file, faults, phantom, up, edited>>
  BY DEF sourceVars, loadVars
<1>2. SourcesTypeOK' /\ FileDefault'
  BY <1>1 DEF ListInv, SourcesTypeOK, FileDefault
<1>3. DefaultResolves'
  BY <1>1 DEF ListInv, DefaultResolves, DefaultIsListed, NamesIn
<1>4. FileHoldsList'
  <2>1. FileHoldsList
    BY DEF ListInv
  <2>. QED
    BY <1>1, <2>1 DEF FileHoldsList
<1>. QED
  BY <1>1, <1>2, <1>3, <1>4 DEF ListInv, Unique

\* A step that leaves clock, secret and tokens alone.
LEMMA AuthKept ==
    ASSUME AuthInv, UNCHANGED authVars
    PROVE  AuthInv'
BY DEF AuthInv, authVars

\* The answer goes out, and the connection is closed or the thread blocked.
Sent(status, to) ==
    /\ reply' = [status |-> status, to |-> to, req |-> conn.req]
    /\ conn' \in {NoConn, [conn EXCEPT !.at = "blocked"]}

LEMMA AnswersAreSent ==
    ASSUME NEW status, NEW to, Answer(status, to) \/ AnswerLarge(status, to)
    PROVE  Sent(status, to)
BY DEF Answer, AnswerLarge, Sent

\* An answer other than 201 over an invariant list.
LEMMA AnswerStep ==
    ASSUME GateInv, ListInv', AuthInv', up, up' = up, edited' \in BOOLEAN, conn.at = "ready" \/ conn.at = "recv",
           NEW status \in Statuses \ {201}, NEW to, Sent(status, to)
    PROVE  GateInv'
<1>1. reply'.status = status /\ conn' \in {NoConn, [conn EXCEPT !.at = "blocked"]}
  BY DEF Sent
<1>2. CreatedIsListed'
  BY <1>1 DEF CreatedIsListed
<1>3. conn \in Conns
  BY DEF GateInv, LoopInv, NoConn
<1>4. [conn EXCEPT !.at = "blocked"] \in Conns
  BY <1>3 DEF Conns
<1>5. LoopInv'
  BY <1>1, <1>4 DEF GateInv, LoopInv
<1>. QED
  BY <1>2, <1>5 DEF GateInv

\* The handlers that change neither the list nor the tokens.
LEMMA QuietHandlers ==
    ASSUME GateInv,
           \/ Verify \/ handle_options \/ send_401_auth \/ handle_get_datasources
           \/ OtherDatasourceRequest \/ serve_static_file \/ ForwardMetric \/ handle_grafana
    PROVE  GateInv'
<1>1. NoChange /\ conn.at = "ready"
  BY DEF Verify, handle_options, send_401_auth, handle_get_datasources, OtherDatasourceRequest,
         serve_static_file, ForwardMetric, handle_grafana, Admitted, Ready
<1>2. up /\ up' = up /\ edited' \in BOOLEAN
  BY <1>1 DEF NoChange, GateInv, LoopInv, NoConn
<1>3. ListInv' /\ AuthInv'
  BY <1>1, ListKept, AuthKept DEF NoChange, GateInv
<1>4. conn \in Conns
  BY <1>1 DEF GateInv, LoopInv, NoConn
<1>5. conn.req.method \in Methods
  BY <1>4 DEF Conns, RequestType
<1>a. ASSUME \E status \in Statuses \ {201} : \E to : Answer(status, to) \/ AnswerLarge(status, to)
      PROVE  \E status \in Statuses \ {201} : \E to : Sent(status, to)
  BY <1>a, AnswersAreSent
<1>f. ASSUME Forward(TRUE) \/ Forward(FALSE)
      PROVE  \E status \in Statuses \ {201} : \E to : Sent(status, to)
  <2>1. \E status \in {0, 200, 400, 404} : \E to : Answer(status, to) \/ AnswerLarge(status, to)
    BY <1>f DEF Forward
  <2>. QED
    BY <1>a, <2>1 DEF Statuses
<1>6. \E status \in Statuses \ {201} : \E to : Sent(status, to)
  <2>1. CASE Verify
    <3>1. PICK st : /\ Answer(st, NoName)
                    /\ st = CASE conn.req.method = "OPTIONS" -> 200
                               [] conn.req.method = "GET" ->
                                      IF auth_validate_token(conn.token) THEN 200 ELSE 401
                               [] OTHER -> 404
      BY <2>1 DEF Verify
    <3>2. st \in {200, 401, 404}
      BY <3>1
    <3>. QED
      BY <1>a, <3>1, <3>2 DEF Statuses
  <2>2. CASE handle_options \/ send_401_auth \/ handle_get_datasources \/ OtherDatasourceRequest
    <3>1. \E status \in {0, 200, 401, 404} : Answer(status, NoName)
      BY <2>2 DEF handle_options, send_401_auth, handle_get_datasources, OtherDatasourceRequest
    <3>. QED
      BY <1>a, <3>1 DEF Statuses
  <2>3. CASE serve_static_file
    <3>1. \E status \in {200, 400, 404} : Answer(status, NoName) \/ AnswerLarge(status, NoName)
      BY <2>3 DEF serve_static_file
    <3>. QED
      BY <1>a, <3>1 DEF Statuses
  <2>4. CASE ForwardMetric
    <3>1. Forward(FALSE) \/ Answer(400, NoName)
      BY <2>4 DEF ForwardMetric
    <3>2. CASE Forward(FALSE)
      BY <1>f, <3>2, Zenon
    <3>3. CASE Answer(400, NoName)
      BY <1>a, <3>3 DEF Statuses
    <3>. QED
      BY <3>1, <3>2, <3>3
  <2>5. CASE handle_grafana
    <3>1. \/ Forward(TRUE)
          \/ \E status \in {200, 404, 400, 413, 500} : Answer(status, NoName)
      <4>1. \E route \in {"/grafana", "/grafana/search", "/grafana/query", "/grafana/annotations"} :
                conn.req.route = route /\ conn.req.method # "OPTIONS"
        BY <2>5 DEF handle_grafana, Admitted, Ready
      <4>2. conn.req.method \in {"GET", "PUT", "DELETE", "POST"}
        BY <1>5, <4>1 DEF Methods
      <4>3. CASE conn.req.method = "GET"
        BY <2>5, <4>3, ZenonT(60) DEF handle_grafana
      <4>4. CASE conn.req.method \in {"PUT", "DELETE"}
        BY <2>5, <4>4, ZenonT(60) DEF handle_grafana
      <4>5. CASE conn.req.method = "POST"
        <5>1. CASE conn.req.route \in {"/grafana", "/grafana/annotations"}
          <6>1. Answer(200, NoName) \/ Answer(404, NoName)
            BY <2>5, <4>5, <5>1 DEF handle_grafana
          <6>. QED
            BY <6>1, ZenonT(60)
        <5>2. CASE conn.req.route = "/grafana/search"
          BY <2>5, <4>5, <5>2, ZenonT(60) DEF handle_grafana
        <5>3. CASE conn.req.route = "/grafana/query"
          <6>1. Forward(TRUE) \/ \E status \in {400, 413, 500} : Answer(status, NoName)
            BY <2>5, <4>5, <5>3 DEF handle_grafana
          <6>2. CASE Forward(TRUE)
            BY <6>2, Zenon
          <6>3. CASE \E status \in {400, 413, 500} : Answer(status, NoName)
            <7>1. PICK st \in {400, 413, 500} : Answer(st, NoName)
              BY <6>3
            <7>2. st \in {200, 404, 400, 413, 500}
              OBVIOUS
            <7>. QED
              BY <7>1, <7>2, ZenonT(60)
          <6>. QED
            BY <6>1, <6>2, <6>3, ZenonT(60)
        <5>. QED
          BY <4>1, <5>1, <5>2, <5>3, ZenonT(60)
      <4>. QED
        BY <4>2, <4>3, <4>4, <4>5
    <3>2. CASE Forward(TRUE)
      BY <1>f, <3>2, Zenon
    <3>3. CASE \E status \in {200, 404, 400, 413, 500} : Answer(status, NoName)
      BY <1>a, <3>3 DEF Statuses
    <3>. QED
      BY <3>1, <3>2, <3>3, ZenonT(60)
  <2>. QED
    BY <2>1, <2>2, <2>3, <2>4, <2>5
<1>. QED
  BY <1>1, <1>2, <1>3, <1>6, AnswerStep

\* A login adds a token with the configured lifetime.
LEMMA LoginStep ==
    ASSUME GateInv, handle_login
    PROVE  GateInv'
<1>1. UNCHANGED <<sourceVars, loadVars, now, secret, days, up, edited>> /\ conn.at = "ready"
  BY DEF handle_login, Ready
<1>2. up /\ edited \in BOOLEAN
  BY <1>1 DEF GateInv, LoopInv, NoConn
<1>3. ListInv'
  BY <1>1, ListKept DEF GateInv
<1>4. \/ UNCHANGED issued
      \/ /\ secret # NoSecret
         /\ issued' = issued \cup {[secret |-> secret, iat |-> now, exp |-> now + days]}
  BY DEF handle_login
<1>5. AuthInv'
  BY <1>1, <1>4, GateAssumption DEF GateInv, AuthInv, Tokens
<1>6. \E status \in Statuses \ {201} : Sent(status, NoName)
  <2>1. \E status \in Statuses \ {201} : Answer(status, NoName)
    BY DEF handle_login, Statuses
  <2>. QED
    BY <2>1, AnswersAreSent
<1>. QED
  BY <1>1, <1>2, <1>3, <1>5, <1>6, AnswerStep

\* A delete takes one entry out and moves the default if it was that entry.
LEMMA DeleteStep ==
    ASSUME GateInv, handle_delete_datasource
    PROVE  GateInv'
<1>. DEFINE name == conn.req.ds
            i == find_datasource(name)
            list == RemoveAt(items, i)
            def == IF default_name # name THEN default_name
                   ELSE IF list # <<>> THEN list[1].name ELSE NoName
<1>1. /\ UNCHANGED <<loadVars, authVars, up>> /\ conn.at = "ready"
      /\ edited' = (edited /\ file' = file)
  BY DEF handle_delete_datasource, Admitted, Ready
<1>2. up /\ up' = up /\ edited' \in BOOLEAN
  BY <1>1 DEF GateInv, LoopInv, NoConn
<1>3. AuthInv'
  BY <1>1, AuthKept DEF GateInv
<1>4. ListInv /\ items \in Seq(Source) /\ (~phantom => Unique(items)) /\ Len(items) <= MaxSources
      /\ default_name \in Names \cup {NoName}
  BY DEF GateInv, ListInv, SourcesTypeOK
<1>5. CASE i # 0
  <2>1. Answer(204, NoName) /\ items' = list /\ default_name' = def /\ save_datasources(list, def)
    BY <1>5 DEF handle_delete_datasource, remove_datasource
  <2>2. i \in DOMAIN items /\ items[i].name = name
    BY <1>4, <1>5, FindLemma
  <2>3. /\ list \in Seq(Source) /\ Len(list) = Len(items) - 1 /\ (~phantom => Unique(list))
        /\ \A n \in NamesIn(items) : n # name => n \in NamesIn(list)
    BY <1>4, <2>2, RemoveLemma
  <2>. HIDE DEF i, list
  <2>4. list # <<>> => 1 \in DOMAIN list /\ list[1].name \in NamesIn(list) /\ list[1] \in Source
    BY <2>3 DEF NamesIn
  <2>5. def \in Names \cup {NoName}
    BY <1>4, <2>4 DEF Source
  <2>6. Len(list) <= MaxSources
    <3>1. Len(list) \in Nat /\ Len(items) \in Nat /\ MaxSources \in Nat
      BY <1>4, <2>3, SourcesAssumption
    <3>. QED
      BY <1>4, <2>3, <3>1
  <2>7. ~faults /\ ~phantom /\ def # PortKey => Listed(list, def)
    <3>1. CASE default_name = name
      BY <2>4, <3>1 DEF Listed
    <3>2. CASE default_name # name
      <4>. SUFFICES ASSUME ~faults, ~phantom, default_name # PortKey PROVE Listed(list, default_name)
        BY <3>2
      <4>1. items # <<>>
        BY <1>4, <2>2
      <4>2. default_name \in NamesIn(items)
        BY <1>2, <4>1 DEF GateInv, ListInv, DefaultResolves, DefaultIsListed
      <4>3. default_name \in NamesIn(list)
        BY <2>3, <3>2, <4>2
      <4>4. list # <<>>
        BY <4>3 DEF NamesIn
      <4>. QED
        BY <4>3, <4>4 DEF Listed
    <3>. QED
      BY <3>1, <3>2
  <2>. HIDE DEF def
  <2>8. ListInv'
    BY <1>1, <1>4, <2>1, <2>3, <2>5, <2>6, <2>7, Relisted
  <2>. QED
    BY <1>1, <1>2, <1>3, <2>1, <2>8, AnswerStep, AnswersAreSent DEF Statuses
<1>6. CASE i = 0
  <2>1. Answer(404, NoName) /\ UNCHANGED sourceVars
    BY <1>6 DEF handle_delete_datasource
  <2>2. edited' = edited
    BY <1>1, <2>1 DEF sourceVars, GateInv, LoopInv
  <2>3. ListInv'
    BY <1>1, <1>4, <2>1, <2>2, ListKept
  <2>. QED
    BY <1>1, <1>2, <1>3, <2>1, <2>3, AnswerStep, AnswersAreSent DEF Statuses
<1>. QED
  BY <1>5, <1>6

\* The new default is a listed name.
LEMMA SetDefaultStep ==
    ASSUME GateInv, handle_set_default
    PROVE  GateInv'
<1>. DEFINE name == conn.req.ds
            i == find_datasource(name)
<1>1. /\ UNCHANGED <<loadVars, authVars, up>> /\ conn.at = "ready"
      /\ edited' = (edited /\ file' = file)
  BY DEF handle_set_default, Admitted, Ready
<1>2. up /\ up' = up /\ edited' \in BOOLEAN
  BY <1>1 DEF GateInv, LoopInv, NoConn
<1>3. AuthInv'
  BY <1>1, AuthKept DEF GateInv
<1>4. ListInv /\ items \in Seq(Source) /\ (~phantom => Unique(items)) /\ Len(items) <= MaxSources
  BY DEF GateInv, ListInv, SourcesTypeOK
<1>5. CASE i # 0
  <2>1. Answer(200, NoName) /\ items' = items /\ default_name' = name /\ save_datasources(items, name)
    BY <1>5 DEF handle_set_default, set_default
  <2>2. i \in DOMAIN items /\ items[i].name = name /\ name \in NamesIn(items)
    BY <1>4, <1>5, FindLemma
  <2>. HIDE DEF i
  <2>3. items # <<>> /\ items[i] \in Source
    BY <1>4, <2>2
  <2>4. Listed(items, name) /\ name \in Names \cup {NoName}
    BY <2>2, <2>3 DEF Listed, Source
  <2>. HIDE DEF name
  <2>5. ListInv'
    BY <1>1, <1>4, <2>1, <2>4, Relisted
  <2>. QED
    BY <1>1, <1>2, <1>3, <2>1, <2>5, AnswerStep, AnswersAreSent DEF Statuses
<1>6. CASE i = 0
  <2>1. Answer(404, NoName) /\ UNCHANGED sourceVars
    BY <1>6 DEF handle_set_default
  <2>2. edited' = edited
    BY <1>1, <2>1 DEF sourceVars, GateInv, LoopInv
  <2>3. ListInv'
    BY <1>1, <1>4, <2>1, <2>2, ListKept
  <2>. QED
    BY <1>1, <1>2, <1>3, <2>1, <2>3, AnswerStep, AnswersAreSent DEF Statuses
<1>. QED
  BY <1>5, <1>6

\* An add appends an entry of a new name; a 201 without one is for a port out
\* of range.
LEMMA PostStep ==
    ASSUME GateInv, handle_post_datasource
    PROVE  GateInv'
<1>. DEFINE body == conn.req.body
            new == ParsedBody(body)
            r == add_result(new.name, new.port)
            e == [name |-> new.name, host |-> new.host, port |-> new.port]
            list == Append(items, e)
            def == IF Len(list) = 1 THEN new.name ELSE default_name
<1>1. /\ UNCHANGED <<loadVars, authVars, up>> /\ conn.at = "ready"
      /\ edited' = (edited /\ file' = file)
  BY DEF handle_post_datasource, Admitted, Ready
<1>2. up /\ up' = up /\ edited' \in BOOLEAN /\ conn \in Conns
  BY <1>1 DEF GateInv, LoopInv, NoConn
<1>3. AuthInv'
  BY <1>1, AuthKept DEF GateInv
<1>4. ListInv /\ items \in Seq(Source) /\ (~phantom => Unique(items)) /\ Len(items) <= MaxSources
      /\ default_name \in Names \cup {NoName}
  BY DEF GateInv, ListInv, SourcesTypeOK
<1>5. /\ body.name \in Names \cup {NoName} /\ body.host \in Hosts \cup {NoName}
      /\ body.port \in Int
  BY <1>2 DEF Conns, RequestType
<1>6. /\ new.name = body.name
      /\ new.host \in Hosts \cup {NoName}
      /\ new.port \in Int /\ new.port \in {0, body.port}
  BY <1>5, SourcesAssumption DEF ParsedBody, ParsedEntry
<1>. HIDE DEF new, r
<1>7. CASE new.name = NoName \/ new.host = NoName \/ new.port <= 0
  <2>1. Answer(400, NoName) /\ UNCHANGED sourceVars
    BY <1>7 DEF handle_post_datasource, new
  <2>2. edited' = edited
    BY <1>1, <2>1 DEF sourceVars, GateInv, LoopInv
  <2>3. ListInv'
    BY <1>1, <1>4, <2>1, <2>2, ListKept
  <2>. QED
    BY <1>1, <1>2, <1>3, <2>1, <2>3, AnswerStep, AnswersAreSent DEF Statuses
<1>8. CASE ~(new.name = NoName \/ new.host = NoName \/ new.port <= 0)
  <2>1. /\ Answer(CASE r = -1 -> 500 [] r = -2 -> 409 [] OTHER -> 201, NoName)
        /\ IF r = 0 THEN add_datasource(new.name, new.host, new.port) ELSE UNCHANGED sourceVars
    BY <1>8 DEF handle_post_datasource, new, r
  <2>2. /\ r \in {-1, -2, -3, 0}
        /\ r = 0 => Len(items) < MaxSources /\ find_datasource(new.name) = 0
        /\ r = -3 => new.port \notin 1..MaxPort
    <3>1. Len(items) \in Nat /\ MaxSources \in Nat
      BY <1>4, SourcesAssumption
    <3>. QED
      BY <3>1 DEF r, add_result
  <2>3. reply'.req = conn.req /\ conn' = NoConn /\ reply'.status \in {500, 409, 201}
        /\ (reply'.status = 201 => r \in {-3, 0})
    BY <2>1, <2>2 DEF Answer
  <2>4. CASE r = 0
    <3>1. items' = list /\ default_name' = def /\ save_datasources(list, def)
      BY <2>1, <2>4 DEF add_datasource
    <3>2. new.name \notin NamesIn(items)
      BY <1>4, <2>2, <2>4, FindLemma
    <3>3. e \in Source /\ e.name = new.name
      BY <1>5, <1>6, <1>8 DEF Source
    <3>. HIDE DEF e
    <3>4. /\ list \in Seq(Source) /\ Len(list) = Len(items) + 1 /\ (~phantom => Unique(list))
          /\ NamesIn(list) = NamesIn(items) \cup {new.name}
      BY <1>4, <3>2, <3>3, AppendLemma
    <3>. HIDE DEF list
    <3>5. Len(list) <= MaxSources
      <4>1. Len(items) \in Nat /\ MaxSources \in Nat
        BY <1>4, SourcesAssumption
      <4>. QED
        BY <2>2, <2>4, <3>4, <4>1
    <3>6. ~faults /\ ~phantom /\ def # PortKey => Listed(list, def)
      <4>1. list # <<>>
        BY <1>4, <3>4
      <4>2. CASE Len(list) = 1
        BY <3>4, <4>1, <4>2 DEF Listed
      <4>3. CASE Len(list) # 1
        <5>1. items # <<>>
          BY <1>4, <3>4, <4>3
        <5>2. ~faults /\ ~phantom /\ default_name # PortKey => default_name \in NamesIn(items)
          BY <1>2, <5>1 DEF GateInv, ListInv, DefaultResolves, DefaultIsListed
        <5>. QED
          BY <3>4, <4>1, <4>3, <5>2 DEF Listed
      <4>. QED
        BY <4>2, <4>3
    <3>7. def \in Names \cup {NoName}
      BY <1>4, <1>5, <1>6
    <3>. HIDE DEF def
    <3>8. ListInv'
      BY <1>1, <1>4, <3>1, <3>4, <3>5, <3>6, <3>7, Relisted
    <3>9. CreatedIsListed'
      BY <1>6, <2>3, <3>1, <3>4 DEF CreatedIsListed
    <3>10. LoopInv'
      BY <1>1, <1>2, <2>3 DEF LoopInv, Statuses
    <3>. QED
      BY <1>3, <3>8, <3>9, <3>10 DEF GateInv
  <2>5. CASE r # 0
    <3>1. UNCHANGED sourceVars
      BY <2>1, <2>5
    <3>2. edited' = edited
      BY <1>1, <3>1 DEF sourceVars, GateInv, LoopInv
    <3>3. ListInv'
      BY <1>1, <1>4, <3>1, <3>2, ListKept
    <3>4. CreatedIsListed'
      <4>1. MaxPort \in Nat
        BY SourcesAssumption
      <4>2. reply'.status = 201 => ~(reply'.req.body.port <= MaxPort)
        BY <1>5, <1>6, <1>8, <2>2, <2>3, <2>5, <4>1
      <4>. QED
        BY <4>2 DEF CreatedIsListed
    <3>5. LoopInv'
      BY <1>1, <1>2, <2>3 DEF LoopInv, Statuses
    <3>. QED
      BY <1>3, <3>3, <3>4, <3>5 DEF GateInv
  <2>. QED
    BY <2>4, <2>5
<1>. QED
  BY <1>7, <1>8

\* While nothing is answered nothing is promised.
LEMMA NothingAnswered ==
    /\ NoReply.status = 0 /\ NoReply.status \in Statuses
    /\ reply = NoReply => CreatedIsListed
<1>1. NoReply.status = 0
  BY DEF NoReply
<1>. QED
  BY <1>1 DEF Statuses, CreatedIsListed

\* Starting: what the file holds becomes the list, or the command line's entry
\* becomes list and file.
LEMMA BootStep ==
    ASSUME GateInv, Boot
    PROVE  GateInv'
<1>1. /\ ~up /\ up' = TRUE /\ edited' = FALSE /\ LoadOrCreate
      /\ UNCHANGED <<faults, now, issued, conn, reply>>
  BY DEF Boot
<1>2. AuthInv'
  <2>1. PICK s \in Secrets \cup {NoSecret}, d \in ExpiryDays : auth_load_config(s, d)
    BY DEF Boot
  <2>2. secret' \in Secrets \cup {NoSecret} /\ days' \in 1..MaxDays
    BY <2>1, GateAssumption DEF auth_load_config
  <2>. QED
    BY <1>1, <2>2 DEF GateInv, AuthInv
<1>3. conn = NoConn /\ reply = NoReply
  BY <1>1 DEF GateInv, LoopInv
<1>4. CreatedIsListed' /\ LoopInv'
  <2>1. CreatedIsListed' /\ reply'.status \in Statuses
    BY <1>1, <1>3, NothingAnswered DEF CreatedIsListed
  <2>. QED
    BY <1>1, <1>3, <2>1 DEF LoopInv
<1>5. /\ ListInv /\ file \in FileType /\ (~phantom => Unique(file.entries)) /\ FileDefault
  BY DEF GateInv, ListInv, SourcesTypeOK, FileType
<1>6. ListInv'
  <2>. DEFINE got == ParsedEntries(file)
              arg == <<[name |-> DefaultName, host |-> ArgHost, port |-> ArgPort]>>
  <2>1. CASE /\ got # <<>> /\ items' = got /\ default_name' = file.default /\ UNCHANGED file
             /\ phantom' = (phantom \/ HasPhantoms(file))
    <3>. DEFINE list == file.entries
    <3>0. got \in Seq(Source) /\ Len(got) <= MaxSources
      BY <1>5, LoadTyped
    <3>1. ~HasPhantoms(file) =>
            /\ Unique(list) => Unique(got)
            /\ \A i \in DOMAIN list :
                   i <= MaxSources /\ list[i] \in Source /\ list[i].name # PortKey =>
                       list[i].name \in NamesIn(got)
            /\ /\ NamesIn(list) \cap {HostKey, PortKey} = {} /\ Len(list) <= MaxSources
               /\ list \in Seq(Source)
               => got = list
      BY <1>5, LoadLemma
    <3>2. list # <<>>
      <4>1. SUFFICES ASSUME list = <<>> PROVE FALSE
        OBVIOUS
      <4>2. NamesIn(list) = {} /\ Len(list) <= MaxSources /\ list \in Seq(Source) /\ ~HasPhantoms(file)
        BY <4>1, SourcesAssumption DEF NamesIn, HasPhantoms
      <4>. QED
        BY <2>1, <3>1, <4>1, <4>2
    <3>. HIDE DEF got
    <3>3. file.default \in Names \cup {NoName} /\ file = [default |-> file.default, entries |-> list]
      BY <1>5 DEF FileType
    <3>4. SourcesTypeOK'
      <4>1. phantom' \in BOOLEAN
        BY <2>1
      <4>. QED
        BY <1>1, <1>5, <2>1, <3>0, <3>3, <4>1 DEF ListInv, SourcesTypeOK
    <3>5. FileDefault'
      BY <1>1, <1>5, <2>1 DEF FileDefault
    <3>6. DefaultResolves'
      <4>1. ASSUME ~faults, ~phantom', file.default # PortKey PROVE file.default \in NamesIn(got)
        <5>1. ~phantom /\ ~HasPhantoms(file)
          BY <2>1, <4>1
        <5>2. PICK i \in DOMAIN list : i <= MaxSources /\ list[i].name = file.default
          BY <1>5, <3>2, <4>1, <5>1 DEF FileDefault
        <5>3. list[i] \in Source
          BY <1>5, <4>1 DEF FileDefault
        <5>. QED
          BY <3>1, <4>1, <5>1, <5>2, <5>3
      <4>. QED
        BY <1>1, <2>1, <4>1 DEF DefaultResolves, DefaultIsListed
    <3>7. FileHoldsList'
      <4>. SUFFICES ASSUME ~faults, ~HasPhantoms(file), Len(list) <= MaxSources,
                           NamesIn(list) \cap {HostKey, PortKey} = {}
                    PROVE  file = Text(got, file.default)
        BY <1>1, <2>1 DEF FileHoldsList, Text, HasPhantoms, NamesIn
      <4>1. list \in Seq(Source)
        BY <1>5 DEF FileDefault
      <4>. QED
        BY <3>1, <3>3, <4>1 DEF Text
    <3>8. ~phantom' => Unique(got) /\ Unique(list)
      BY <1>5, <2>1, <3>1
    <3>. QED
      BY <1>5, <2>1, <3>0, <3>4, <3>5, <3>6, <3>7, <3>8 DEF ListInv
  <2>2. CASE /\ items' = arg /\ default_name' = DefaultName /\ save_datasources(arg, DefaultName)
             /\ phantom' = phantom
    <3>1. arg \in Seq(Source) /\ Len(arg) = 1 /\ arg[1].name = DefaultName
      BY SourcesAssumption DEF Source
    <3>. HIDE DEF arg
    <3>2. Unique(arg) /\ Len(arg) <= MaxSources /\ arg # <<>> /\ DefaultName \in NamesIn(arg)
      <4>1. DOMAIN arg = {1}
        BY <3>1
      <4>2. Unique(arg) /\ DefaultName \in NamesIn(arg)
        BY <3>1, <4>1 DEF Unique, NamesIn
      <4>3. Len(arg) <= MaxSources /\ arg # <<>>
        <5>1. MaxSources \in Nat \ {0}
          BY SourcesAssumption
        <5>2. 1 <= MaxSources
          BY <5>1
        <5>. QED
          BY <3>1, <5>2
      <4>. QED
        BY <4>2, <4>3
    <3>3. Listed(arg, DefaultName) /\ DefaultName \in Names \cup {NoName}
      BY <3>2, SourcesAssumption DEF Listed
    <3>4. UNCHANGED loadVars
      BY <1>1, <2>2 DEF loadVars
    <3>. QED
      BY <1>5, <2>2, <3>1, <3>2, <3>3, <3>4, Relisted
  <2>. QED
    BY <1>1, <2>1, <2>2 DEF LoadOrCreate
<1>. QED
  BY <1>2, <1>4, <1>6 DEF GateInv

\* A crash loses the memory, not the file.
LEMMA ExitStep ==
    ASSUME GateInv, Exit
    PROVE  GateInv'
<1>1. /\ up' = FALSE /\ items' = <<>> /\ default_name' = NoName /\ secret' = NoSecret
      /\ days' = DefaultDays /\ conn' = NoConn /\ reply' = NoReply
      /\ UNCHANGED <<file, faults, phantom, now, issued, edited>>
  BY DEF Exit, loadVars
<1>2. ListInv'
  BY <1>1, SourcesAssumption DEF GateInv, ListInv, SourcesTypeOK, Unique, FileDefault,
         DefaultResolves, FileHoldsList
<1>3. AuthInv'
  BY <1>1, GateAssumption DEF GateInv, AuthInv
<1>4. LoopInv' /\ CreatedIsListed'
  <2>1. CreatedIsListed' /\ reply'.status \in Statuses
    BY <1>1, NothingAnswered DEF CreatedIsListed
  <2>. QED
    BY <1>1, <2>1 DEF GateInv, LoopInv
<1>. QED
  BY <1>2, <1>3, <1>4 DEF GateInv

\* Time passes, or an operator writes another file.
LEMMA OutsideStep ==
    ASSUME GateInv, Day \/ Edit
    PROVE  GateInv'
<1>1. UNCHANGED <<items, default_name, faults, phantom, secret, days, issued, up, conn, reply>>
  BY DEF Day, Edit, authVars, sourceVars, loadVars
<1>2. AuthInv'
  BY <1>1, GateAssumption DEF GateInv, AuthInv, Day, Edit, authVars
<1>3. LoopInv' /\ CreatedIsListed'
  BY <1>1 DEF GateInv, LoopInv, CreatedIsListed, NamesIn, Day, Edit
<1>4. ListInv'
  <2>1. CASE Day
    BY <2>1, ListKept DEF Day, GateInv
  <2>2. CASE Edit
    <3>1. PICK f \in EditedFiles : file' = f
      BY <2>2 DEF Edit
    <3>2. edited' = TRUE
      BY <2>2 DEF Edit
    <3>3. /\ file'.entries \in Seq(Source) /\ file'.default \in Names \cup {NoName}
          /\ file' = [default |-> file'.default, entries |-> file'.entries]
          /\ Unique(file'.entries)
      BY <3>1, GateAssumption DEF Unique
    <3>w. file' \in FileType
      <4>1. Source \subseteq Written
        BY DEF Source, Written
      <4>2. file'.entries \in Seq(Written)
        BY <3>3, <4>1
      <4>. QED
        BY <3>3, <4>2 DEF FileType
    <3>4. FileDefault'
      BY <3>1, <3>3, GateAssumption DEF FileDefault
    <3>5. SourcesTypeOK'
      BY <1>1, <3>w DEF GateInv, ListInv, SourcesTypeOK, FileType
    <3>6. DefaultResolves' /\ FileHoldsList'
      BY <1>1, <3>2 DEF GateInv, ListInv, DefaultResolves, DefaultIsListed, NamesIn, FileHoldsList
    <3>. QED
      BY <1>1, <3>3, <3>4, <3>5, <3>6 DEF GateInv, ListInv, Unique
  <2>. QED
    BY <2>1, <2>2
<1>. QED
  BY <1>2, <1>3, <1>4 DEF GateInv

\* A body cut at its end is still a body.
LEMMA TornBodyType ==
    ASSUME NEW body \in [name : Names \cup {NoName}, host : Hosts \cup {NoName},
                         port : Int, nameFirst : BOOLEAN],
           NEW part \in TornBodies(body)
    PROVE  part \in [name : Names \cup {NoName}, host : Hosts \cup {NoName},
                     port : Int, nameFirst : BOOLEAN]
<1>1. \A p \in {0, body.port} \cup TornPort(body.port) : p \in Int
  <2>1. body.port \in Int
    OBVIOUS
  <2>2. \A d \in {10, 100, 1000, 10000} : body.port \div d \in Int
    BY <2>1
  <2>. QED
    BY <2>1, <2>2 DEF TornPort
<1>2. \/ \E p \in Int : part = [body EXCEPT !.port = p]
      \/ part = [body EXCEPT !.name = NoName]
  BY <1>1 DEF TornBodies
<1>. QED
  BY <1>2

\* What has arrived of a request is a request, of the same method and route.
LEMMA PartLemma ==
    ASSUME NEW c \in Conns, NEW part \in PartsOf(c)
    PROVE  [part EXCEPT !.at = "ready"] \in Conns
<1>. DEFINE Bodies == [name : Names \cup {NoName}, host : Hosts \cup {NoName},
                       port : Int, nameFirst : BOOLEAN]
            d == [part EXCEPT !.at = "ready"]
<1>1. /\ c.req.method \in Methods /\ c.req.route \in Routes /\ c.req.ds \in Names \cup {NoName}
      /\ c.req.good \in BOOLEAN /\ c.req.body \in Bodies
      /\ c.token \in [secret : Secrets \cup {NoSecret}, iat : Nat, exp : Nat]
      /\ c.whole \in BOOLEAN /\ c.req \in RequestType
  BY DEF Conns, RequestType
<1>2. NoBody \in Bodies /\ NoToken \in [secret : Secrets \cup {NoSecret}, iat : Nat, exp : Nat]
  BY DEF NoBody, NoToken
<1>. HIDE DEF Bodies
<1>3. \A b \in Bodies, g \in BOOLEAN :
          [c.req EXCEPT !.good = g, !.body = b] \in RequestType
  BY <1>1 DEF RequestType, Bodies
<1>4. CASE part = [c EXCEPT !.token = NoToken, !.req.good = FALSE, !.req.body = NoBody]
  <2>1. part = [c EXCEPT !.token = NoToken, !.req = [c.req EXCEPT !.good = FALSE, !.body = NoBody]]
    BY <1>1, <1>4 DEF Conns, RequestType
  <2>2. [c.req EXCEPT !.good = FALSE, !.body = NoBody] \in RequestType
    BY <1>2, <1>3
  <2>. QED
    BY <1>2, <2>1, <2>2 DEF Conns
<1>5. ASSUME NEW b \in TornBodies(c.req.body),
             part = [c EXCEPT !.req.good = c.req.good /\ c.req.method = "GET", !.req.body = b]
      PROVE  d \in Conns
  <2>0. b \in Bodies
    BY <1>1, TornBodyType DEF Bodies
  <2>. DEFINE g == (c.req.good /\ c.req.method = "GET")
              q == [c.req EXCEPT !.good = g, !.body = b]
  <2>1. g \in BOOLEAN
    OBVIOUS
  <2>2. q \in RequestType
    <3>. HIDE DEF g
    <3>. QED
      BY <1>3, <2>0, <2>1
  <2>3. part = [c EXCEPT !.req = q]
    BY <1>1, <1>5 DEF Conns, RequestType
  <2>. HIDE DEF q
  <2>. QED
    BY <2>2, <2>3 DEF Conns
<1>. QED
  BY <1>4, <1>5 DEF PartsOf

\* The receive side of the loop.
LEMMA ReceiveStep ==
    ASSUME GateInv, Accept \/ ReceiveAll \/ ReceivePart \/ Unblock
    PROVE  GateInv'
<1>1. NoChange
  BY DEF Accept, ReceiveAll, ReceivePart, Unblock
<1>2. ListInv' /\ AuthInv'
  BY <1>1, ListKept, AuthKept DEF NoChange, GateInv
<1>3. CASE Accept
  <2>1. up /\ reply' = NoReply
    BY <1>3 DEF Accept
  <2>2. PICK r \in Requests, t \in issued \cup {NoToken} :
            conn' = [at |-> "recv", req |-> r, token |-> t, whole |-> FALSE]
    BY <1>3 DEF Accept
  <2>3. r \in RequestType
    BY GateAssumption
  <2>4. t \in [secret : Secrets \cup {NoSecret}, iat : Nat, exp : Nat]
    BY DEF GateInv, AuthInv, Tokens, NoToken
  <2>5. conn' \in Conns
    BY <2>2, <2>3, <2>4 DEF Conns
  <2>6. LoopInv' /\ CreatedIsListed'
    BY <1>1, <2>1, <2>5 DEF GateInv, LoopInv, CreatedIsListed, NoChange, NoReply, Statuses
  <2>. QED
    BY <1>2, <2>6 DEF GateInv
<1>4. CASE ReceiveAll \/ ReceivePart \/ Unblock
  <2>1. conn.at \in {"recv", "blocked"} /\ conn \in Conns /\ up
    BY <1>4 DEF ReceiveAll, ReceivePart, Unblock, GateInv, LoopInv, NoConn
  <2>2. up' = up /\ edited' = edited /\ items' = items
    BY <1>1 DEF NoChange, sourceVars
  <2>3. CASE conn.at = "recv" /\ Answer(400, NoName)
    BY <1>2, <2>1, <2>2, <2>3, AnswerStep, AnswersAreSent DEF GateInv, LoopInv, Statuses
  <2>4. CASE (conn' = NoConn \/ conn' \in Conns) /\ UNCHANGED reply
    <3>1. LoopInv' /\ CreatedIsListed'
      BY <2>1, <2>2, <2>4 DEF GateInv, LoopInv, CreatedIsListed, NamesIn
    <3>. QED
      BY <1>2, <3>1 DEF GateInv
  <2>5. CASE ReceiveAll
    <3>1. conn' \in Conns /\ UNCHANGED reply
      BY <2>1, <2>5 DEF ReceiveAll, Conns
    <3>. QED
      BY <2>4, <3>1
  <2>6. CASE ReceivePart
    <3>1. \/ conn' = NoConn /\ UNCHANGED reply
          \/ conn.at = "recv" /\ Answer(400, NoName)
          \/ conn' \in Conns /\ UNCHANGED reply
      BY <2>1, <2>6, PartLemma DEF ReceivePart
    <3>. QED
      BY <2>3, <2>4, <3>1
  <2>7. CASE Unblock
    BY <2>4, <2>7 DEF Unblock
  <2>. QED
    BY <1>4, <2>5, <2>6, <2>7
<1>. QED
  BY <1>3, <1>4

----------------------------------------------------------------------------
\* The inductive invariant of the gate.
THEOREM GateInvariant == Spec => []GateInv
<1>1. Init => GateInv
  <2>. SUFFICES ASSUME Init PROVE GateInv
    OBVIOUS
  <2>1. ListInv
    <3>1. /\ items = <<>> /\ default_name = NoName /\ file = EmptyFile
          /\ up = FALSE /\ phantom = FALSE /\ edited = FALSE /\ faults \in FaultSettings
      BY DEF Init
    <3>2. file.entries = <<>> /\ file.default = NoName
      BY <3>1 DEF EmptyFile
    <3>3. SourcesTypeOK
      <4>1. <<>> \in Seq(Source) /\ <<>> \in Seq(Written)
        OBVIOUS
      <4>2. file \in [default : Names \cup {NoName}, entries : Seq(Written)]
        BY <3>1, <4>1 DEF EmptyFile
      <4>. QED
        BY <3>1, <4>1, <4>2 DEF SourcesTypeOK
    <3>4. Unique(items) /\ Unique(file.entries) /\ FileDefault
      BY <3>1, <3>2 DEF Unique, FileDefault
    <3>5. DefaultResolves /\ FileHoldsList
      BY <3>1 DEF DefaultResolves, FileHoldsList
    <3>. QED
      BY <3>1, <3>3, <3>4, <3>5, SourcesAssumption DEF ListInv
  <2>2. AuthInv
    BY GateAssumption DEF Init, AuthInv
  <2>3. up = FALSE /\ items = <<>> /\ conn = NoConn /\ reply = NoReply /\ edited = FALSE
    BY DEF Init
  <2>4. LoopInv /\ CreatedIsListed
    BY <2>3, NothingAnswered DEF LoopInv
  <2>. QED
    BY <2>1, <2>2, <2>4 DEF GateInv
<1>2. GateInv /\ [Next]_vars => GateInv'
  <2>. SUFFICES ASSUME GateInv, [Next]_vars PROVE GateInv'
    OBVIOUS
  <2>1. CASE Boot
    BY <2>1, BootStep
  <2>2. CASE Exit
    BY <2>2, ExitStep
  <2>3. CASE Day \/ Edit
    BY <2>3, OutsideStep
  <2>4. CASE Accept \/ ReceiveAll \/ ReceivePart \/ Unblock
    BY <2>4, ReceiveStep
  <2>5. CASE Handle
    <3>1. CASE handle_login
      BY <3>1, LoginStep
    <3>2. CASE handle_post_datasource
      BY <3>2, PostStep
    <3>3. CASE handle_delete_datasource
      BY <3>3, DeleteStep
    <3>4. CASE handle_set_default
      BY <3>4, SetDefaultStep
    <3>5. CASE \/ Verify \/ handle_options \/ send_401_auth \/ handle_get_datasources
               \/ OtherDatasourceRequest \/ serve_static_file \/ ForwardMetric \/ handle_grafana
      BY <3>5, QuietHandlers
    <3>. QED
      BY <2>5, <3>1, <3>2, <3>3, <3>4, <3>5 DEF Handle
  <2>6. CASE UNCHANGED vars
    <3>1. ListInv' /\ AuthInv'
      BY <2>6, ListKept, AuthKept DEF GateInv, vars
    <3>2. LoopInv' /\ CreatedIsListed'
      BY <2>6 DEF GateInv, LoopInv, CreatedIsListed, NamesIn, vars, sourceVars
    <3>. QED
      BY <3>1, <3>2 DEF GateInv
  <2>. QED
    BY <2>1, <2>2, <2>3, <2>4, <2>5, <2>6 DEF Next, Serve
<1>. QED
  BY <1>1, <1>2, PTL DEF Spec

\* Every variable of the gate keeps its type.
THEOREM TypeCorrect == Spec => []TypeOK
<1>1. GateInv => TypeOK
  BY DEF GateInv, ListInv, AuthInv, LoopInv, TypeOK, Conns, NoConn, Statuses
<1>. QED
  BY <1>1, GateInvariant, PTL

\* While the gate runs no name is listed twice and the array is not overrun,
\* with files cut short by a crash and files edited by hand too.
THEOREM ListStaysWellFormed == Spec => []ListWellFormed
<1>1. GateInv => ListWellFormed
  BY DEF GateInv, ListInv, ListWellFormed, UniqueNames, Unique
<1>. QED
  BY <1>1, GateInvariant, PTL

\* Without faults the default names an entry of the list, or the list is empty,
\* unless it is the name that load_datasources drops.
THEOREM DefaultStaysListed == Spec => []DefaultResolves
<1>1. GateInv => DefaultResolves
  BY DEF GateInv, ListInv
<1>. QED
  BY <1>1, GateInvariant, PTL

\* Without faults what a restart will load is what the running gate has.
THEOREM ChangesAreDurable == Spec => []FileHoldsList
<1>1. GateInv => FileHoldsList
  BY DEF GateInv, ListInv
<1>. QED
  BY <1>1, GateInvariant, PTL

\* A client that was told 201 finds its entry in the list.
THEOREM CreatedMeansListed == Spec => []CreatedIsListed
<1>1. GateInv => CreatedIsListed
  BY DEF GateInv
<1>. QED
  BY <1>1, GateInvariant, PTL

\* Every token that is accepted is at most MaxDays old.
THEOREM TokensEnd == Spec => []TokensExpire
<1>1. GateInv => TokensExpire
  <2>. SUFFICES ASSUME GateInv, NEW t \in issued, auth_validate_token(t)
                PROVE  now <= t.iat + MaxDays
    BY DEF TokensExpire
  <2>1. t.exp \in Nat /\ t.iat \in Nat /\ now \in Nat /\ MaxDays \in Nat /\ t.exp <= t.iat + MaxDays
    BY GateAssumption DEF GateInv, AuthInv, Tokens
  <2>2. t.exp >= now
    BY DEF auth_validate_token
  <2>. QED
    BY <2>1, <2>2
<1>. QED
  BY <1>1, GateInvariant, PTL

\* A request that is admitted to a route behind the token check has a valid
\* token.
LEMMA AdmittedHasToken ==
    ASSUME NEW route \in Routes \ {"/index.html", "dotted", "/_auth/login", "/_auth/verify"},
           Admitted(route)
    PROVE  auth_validate_token(conn.token)
<1>1. conn.req.route = route /\ ~Denied
  BY DEF Admitted, Ready
<1>2. requires_auth(route)
  BY DEF requires_auth, is_static_request
<1>. QED
  BY <1>1, <1>2 DEF Denied

\* The list, its default and the file change on a request, and a backend is
\* contacted, only with a token of the loaded secret that has not expired.
THEOREM NothingWithoutToken == Spec => ChangesNeedToken
<1>. DEFINE Step == /\ conn.at = "ready" /\ conn' # conn /\ up'
                    /\ sourceVars' # sourceVars \/ reply'.to # NoName
                    => auth_validate_token(conn.token)
<1>1. GateInv /\ [Next]_vars => [Step]_vars
  <2>. SUFFICES ASSUME GateInv, Next, conn.at = "ready", conn' # conn, up',
                       sourceVars' # sourceVars \/ reply'.to # NoName
                PROVE  auth_validate_token(conn.token)
    OBVIOUS
  <2>1. up
    BY DEF GateInv, LoopInv, NoConn
  <2>2. Handle
    BY <2>1 DEF Next, Serve, Boot, Exit, Day, Edit, Accept, ReceiveAll, ReceivePart, Unblock
  <2>3. ASSUME NEW status, Answer(status, NoName) \/ AnswerLarge(status, NoName),
               UNCHANGED sourceVars
        PROVE  FALSE
    BY <2>3 DEF Answer, AnswerLarge
  <2>4. ~(handle_login \/ Verify \/ handle_options \/ send_401_auth \/ serve_static_file
          \/ handle_get_datasources \/ OtherDatasourceRequest)
    <3>1. ~handle_login
      BY <2>3, ZenonT(60) DEF handle_login
    <3>2. ~Verify
      BY <2>3, ZenonT(60) DEF Verify, NoChange
    <3>3. ~(handle_options \/ send_401_auth)
      BY <2>3 DEF handle_options, send_401_auth, NoChange
    <3>4. ~(serve_static_file \/ handle_get_datasources \/ OtherDatasourceRequest)
      <4>1. ~serve_static_file
        <5>1. serve_static_file =>
                  /\ UNCHANGED sourceVars
                  /\ \E status \in {200, 400, 404} :
                         Answer(status, NoName) \/ AnswerLarge(status, NoName)
          BY DEF serve_static_file, NoChange
        <5>. QED
          BY <2>3, <5>1
      <4>2. ~handle_get_datasources
        BY <2>3 DEF handle_get_datasources, NoChange
      <4>3. ~OtherDatasourceRequest
        BY <2>3 DEF OtherDatasourceRequest, NoChange
      <4>. QED
        BY <4>1, <4>2, <4>3
    <3>. QED
      BY <3>1, <3>2, <3>3, <3>4
  <2>5. \E route \in Routes \ {"/index.html", "dotted", "/_auth/login", "/_auth/verify"} :
            Admitted(route)
    <3>1. \/ handle_post_datasource \/ handle_delete_datasource \/ handle_set_default
          \/ ForwardMetric \/ handle_grafana
      BY <2>2, <2>4 DEF Handle
    <3>2. \E route \in {"/_datasources", "/_datasources/n", "/_datasources/n/default", "/metric",
                        "/grafana", "/grafana/search", "/grafana/query", "/grafana/annotations"} :
              Admitted(route)
      BY <3>1 DEF handle_post_datasource, handle_delete_datasource, handle_set_default,
                  ForwardMetric, handle_grafana
    <3>. QED
      BY <3>2 DEF Routes
  <2>. QED
    BY <2>5, AdmittedHasToken
<1>2. Spec => [][Step]_vars
  BY <1>1, GateInvariant, PTL DEF Spec
<1>. QED
  BY <1>2 DEF ChangesNeedToken
=============================================================================
