----------------------------- MODULE Datasources -----------------------------
(***************************************************************************)
(* The datasource list of svgd-gate (src/gate/main.c): the array in memory *)
(* with the name of the default entry, and datasources.json, which is      *)
(* rewritten in place after every change and parsed by substring search    *)
(* when the gate starts.                                                   *)
(*                                                                         *)
(* The file is modelled by what load_datasources can find in it: the name  *)
(* behind "default" and the objects of the array.  A write that does not   *)
(* complete leaves a prefix of the text, in which the last object may be   *)
(* cut inside its port number.                                             *)
(***************************************************************************)
EXTENDS Integers, Sequences, FiniteSets, SequencesExt

CONSTANTS
    Names,       \* names of datasources
    Hosts,       \* host names
    HostKey,     \* the name spelled like the JSON key "host"
    PortKey,     \* the name spelled like the JSON key "port"
    DefaultName, \* the name "default"
    NoName,      \* the empty string
    Braces,      \* the braces in each name and host, in their order
    ArgHost, ArgPort,  \* the backend of the command line
    MaxSources,  \* MAX_DATASOURCES (16)
    MaxPort,     \* 65535
    FaultSettings  \* whether writes of datasources.json may fail or be torn

ASSUME SourcesAssumption ==
    /\ {HostKey, PortKey, DefaultName} \subseteq Names
    /\ NoName \notin Names
    /\ HostKey \in Hosts /\ ArgHost \in Hosts /\ NoName \notin Hosts
    /\ Braces \in [Names \cup Hosts \cup {NoName} -> Seq({"open", "close"})]
    /\ Braces[NoName] = <<>>
    /\ MaxSources \in Nat \ {0}
    /\ MaxPort \in Nat
    /\ ArgPort \in 1..MaxPort
    /\ FaultSettings \subseteq BOOLEAN

Source == [name : Names, host : Hosts, port : Nat \ {0}]

\* An object in the file; the last one may have lost its port and its host.
Written == [name : Names, host : Hosts \cup {NoName}, port : Nat]
Nothing == [name |-> NoName, host |-> NoName, port |-> 0]
EmptyFile == [default |-> NoName, entries |-> <<>>]

VARIABLES
    items,         \* datasources.items[0 .. count-1]
    default_name,  \* datasources.default_name
    file,          \* datasources.json
    faults,        \* one of FaultSettings, fixed
    phantom        \* history: a load has met an object inside another

sourceVars == <<items, default_name, file>>
loadVars == <<faults, phantom>>

NamesIn(list) == {list[i].name : i \in DOMAIN list}

SourcesTypeOK ==
    /\ items \in Seq(Source)
    /\ default_name \in Names \cup {NoName}
    /\ faults \in FaultSettings
    /\ phantom \in BOOLEAN
    /\ file \in [default : Names \cup {NoName}, entries : Seq(Written)]

----------------------------------------------------------------------------
\* What is left of a decimal number whose tail is missing.
TornPort(p) == {p \div d : d \in {10, 100, 1000, 10000}} \ {0}

Text(list, def) == [default |-> def, entries |-> list]

\* What is left of an object that is cut behind its name.
TornEntries(e) ==
    {[e EXCEPT !.port = p] : p \in {0} \cup TornPort(e.port)}
    \cup {[e EXCEPT !.host = NoName, !.port = 0]}

\* The prefixes of the text save_datasources writes.
TornTexts(list, def) ==
    {EmptyFile}
    \cup {Text(SubSeq(list, 1, n), def) : n \in 0..Len(list)}
    \cup UNION {{Text(SubSeq(list, 1, n - 1) \o <<e>>, def) : e \in TornEntries(list[n])}
                    : n \in DOMAIN list}

\* save_datasources: fopen("w") may fail and leave the old file; the results
\* of fprintf and fclose are not looked at.
save_datasources(list, def) ==
    \/ file' = Text(list, def)
    \/ /\ faults
       /\ file' \in {file} \cup TornTexts(list, def)

\* One object as load_datasources reads it: strstr(obj, "\"host\"") and
\* strstr(obj, "\"port\"") find the value of "name" first if it is spelled
\* like the key; the host is then the following key and the port is 0.
ParsedEntry(e) ==
    [name |-> e.name,
     host |-> IF e.name = HostKey THEN HostKey ELSE e.host,
     port |-> IF e.name = PortKey THEN 0 ELSE e.port]

\* The next object is looked for behind the next '}' and at the '{' after it,
\* in the texts of this one too: it is taken to begin at every '{' in them that
\* has a '}' as the brace before it.
Marks(e) == Braces[e.name] \o Braces[e.host]
Reopened(e) == {k \in 2..Len(Marks(e)) : Marks(e)[k - 1] = "close" /\ Marks(e)[k] = "open"}

\* Such an object has the name of the one that follows.  From inside a name the
\* next host and port are those of the same object, from inside a host the
\* next host is the following object's.  (A host spelled like the key "name"
\* is left out.)
InName(list, n) ==
    LET next == IF n < Len(list) THEN list[n + 1] ELSE Nothing
    IN  [name |-> next.name, host |-> list[n].host, port |-> list[n].port]
InHost(list, n) ==
    LET next == IF n < Len(list) THEN ParsedEntry(list[n + 1]) ELSE Nothing
    IN  [name |-> next.name, host |-> next.host, port |-> list[n].port]

\* An object that is met so many times is kept if it has a name, a host and a
\* positive port, while the array has room.
Keep(list, e, times) ==
    LET room == MaxSources - Len(list)
    IN  IF e.name = NoName \/ e.host = NoName \/ e.port = 0 THEN list
        ELSE list \o [i \in 1..(IF times < room THEN times ELSE room) |-> e]

\* The loop of load_datasources over the objects.
ParsedEntries(f) ==
    LET kept[n \in 0..Len(f.entries)] ==
            IF n = 0 THEN <<>>
            ELSE LET e      == f.entries[n]
                     inName == {k \in Reopened(e) : k <= Len(Braces[e.name])}
                 IN  Keep(Keep(Keep(kept[n - 1], ParsedEntry(e), 1),
                               InName(f.entries, n), Cardinality(inName)),
                          InHost(f.entries, n), Cardinality(Reopened(e) \ inName))
    IN  kept[Len(f.entries)]

\* Some text of the file makes load_datasources meet an object inside another.
HasPhantoms(f) == \E i \in DOMAIN f.entries : Reopened(f.entries[i]) # {}

\* Startup: load_datasources, or a single entry from the command line when
\* nothing was loaded (add_datasource makes the first entry the default and
\* saves); with faults, also because the file could not be read.
LoadOrCreate ==
    LET loaded == ParsedEntries(file)
        arg    == <<[name |-> DefaultName, host |-> ArgHost, port |-> ArgPort]>>
    IN  \/ /\ loaded # <<>>
           /\ items' = loaded
           /\ default_name' = file.default
           /\ phantom' = (phantom \/ HasPhantoms(file))
           /\ UNCHANGED file
        \/ /\ loaded = <<>> \/ faults
           /\ UNCHANGED phantom
           /\ items' = arg
           /\ default_name' = DefaultName
           /\ save_datasources(arg, DefaultName)

\* find_datasource
find_datasource(name) == SelectInSeq(items, LAMBDA e : e.name = name)

\* Mutant: names are not compared with the list.
AddWithoutLookup(name, port) ==
    IF Len(items) >= MaxSources THEN -1
    ELSE IF port \notin 1..MaxPort THEN -3
    ELSE 0

\* Mutant: a full list is reported as a port out of range.
AddMistakesFull(name, port) ==
    IF find_datasource(name) # 0 THEN -2
    ELSE IF Len(items) >= MaxSources \/ port \notin 1..MaxPort THEN -3
    ELSE 0

\* add_datasource: its return value, and the new list when that is 0.
add_result(name, port) ==
    IF Len(items) >= MaxSources THEN -1
    ELSE IF find_datasource(name) # 0 THEN -2
    ELSE IF port \notin 1..MaxPort THEN -3
    ELSE 0

add_datasource(name, host, port) ==
    LET list == Append(items, [name |-> name, host |-> host, port |-> port])
        def  == IF Len(list) = 1 THEN name ELSE default_name
    IN  /\ items' = list
        /\ default_name' = def
        /\ save_datasources(list, def)

\* Mutant: the default stays with the removed name.
RemoveKeepsDefault(name) ==
    LET list == RemoveAt(items, find_datasource(name))
    IN  /\ items' = list
        /\ UNCHANGED default_name
        /\ save_datasources(list, default_name)

\* remove_datasource of a listed name: the default moves to the new first
\* entry, or becomes empty with the list.
remove_datasource(name) ==
    LET list == RemoveAt(items, find_datasource(name))
        def  == IF default_name # name THEN default_name
                ELSE IF list # <<>> THEN list[1].name ELSE NoName
    IN  /\ items' = list
        /\ default_name' = def
        /\ save_datasources(list, def)

\* Mutant: the new default is not saved.
SetDefaultUnsaved(name) == default_name' = name /\ UNCHANGED <<items, file>>

\* handle_set_default of a listed name.
set_default(name) ==
    /\ default_name' = name
    /\ UNCHANGED items
    /\ save_datasources(items, name)

\* The backend of a request: the named entry, else the default entry, else
\* the command line's.  NoName stands for a request without ?datasource=.
Target(ds) ==
    LET wanted == IF ds # NoName THEN ds ELSE default_name
        i      == find_datasource(wanted)
    IN  IF i # 0 THEN [host |-> items[i].host, port |-> items[i].port]
        ELSE [host |-> ArgHost, port |-> ArgPort]

----------------------------------------------------------------------------
\* No name is listed twice: find_datasource would never see the second, and
\* deleting the name would uncover it.
UniqueNames == \A i, j \in DOMAIN items : items[i].name = items[j].name => i = j

\* The default is one of the entries, or there is no entry and no default.
DefaultIsListed ==
    IF items = <<>> THEN default_name = NoName ELSE default_name \in NamesIn(items)
=============================================================================
