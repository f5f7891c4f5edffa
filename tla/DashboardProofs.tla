--------------------------- MODULE DashboardProofs ---------------------------
(***************************************************************************)
(* Proofs about the dashboard, for any datasources, panels and periods, any*)
(* number of edits and of updates under way: what is on display belongs to *)
(* the active datasource, and layouts are kept per datasource.             *)
(***************************************************************************)
EXTENDS Dashboard, TLAPS

\* What an element may show.
Views == {View(Nothing), View(Loading), View(Failed)} \cup {Graph(g) : g \in Graphs}

\* Updates that will still be seen, and graphs on display, are of datasource a.
RunsOf(r, a) == \A i \in DOMAIN r : ~r[i].old => r[i].of.ds = a
ViewsOf(s, a) == \A p \in Panels : s[p].what = "graph" => s[p].of.ds = a

\* The state of the page but for what is on display.
PageInv ==
    /\ phase \in {"closed", "datasources", "metrics", "ready"}
    /\ sources \subseteq Sources /\ default \in sources
    /\ known \subseteq Sources /\ menu \subseteq Sources
    /\ active \in Sources
    /\ panels \subseteq Panels
    /\ period \in Periods
    /\ timer \in BOOLEAN
    /\ elements \subseteq Panels
    /\ removals \subseteq [panel : Panels, ds : Sources, old : BOOLEAN]
    /\ delayed \subseteq Panels \cup {Whole}
    /\ op \in Ops \cup {NoOp}
    /\ stored \in [Sources -> Layouts]
    /\ legacy \in Layouts
    /\ chosen \in Sources \cup {Absent}
    /\ edits \in 0..MaxEdits
    /\ seen \in [Sources -> Layouts]
    /\ mixed \subseteq Sources

\* What is on display, and what is on its way to it.
ViewInv ==
    /\ runs \in Seq(RunType)
    /\ shown \in [Panels -> Views]
    /\ ~drifted => RunsOf(runs, active) /\ ViewsOf(shown, active)

\* The layouts.  While the page loads and the user never chose, the gate's
\* default may still replace the active datasource.
Kept(d) == seen[d] # Absent => stored[d] = seen[d]
KeepInv ==
    /\ \A d \in Sources \ (mixed \cup {active}) : Kept(d)
    /\ phase = "datasources" /\ chosen = Absent => \A d \in Sources \ mixed : Kept(d)

DashInv == PageInv /\ ViewInv /\ KeepInv

----------------------------------------------------------------------------
\* What an element may show, field by field.
LEMMA ViewsLemma ==
    /\ \A w : View(w).what = w
    /\ \A g : Graph(g).what = "graph" /\ Graph(g).of = g
    /\ {View(Nothing), View(Loading), View(Failed)} \subseteq Views
    /\ \A g \in Graphs : Graph(g) \in Views
    /\ View(Nothing).what # "graph" /\ View(Loading).what # "graph" /\ View(Failed).what # "graph"
    /\ \A v \in Views : v.what \in {Nothing, Loading, Failed, "graph"}
<1>1. \A w : View(w).what = w
  BY DEF View
<1>2. \A g : Graph(g).what = "graph" /\ Graph(g).of = g
  BY DEF Graph
<1>3. View(Nothing).what # "graph" /\ View(Loading).what # "graph" /\ View(Failed).what # "graph"
  BY <1>1 DEF Nothing, Loading, Failed
<1>. QED
  BY <1>1, <1>2, <1>3 DEF Views

\* The next update of a round.
LEMMA BeginLemma ==
    ASSUME NEW before \in Seq(RunType), NEW rest \in SUBSET Panels, NEW present,
           NEW view \in [Panels -> Views], NEW of \in Graphs,
           Begin(before, rest, present, view, of)
    PROVE  /\ runs' \in Seq(RunType) /\ shown' \in [Panels -> Views]
           /\ \A a : RunsOf(before, a) /\ of.ds = a => RunsOf(runs', a)
           /\ \A a : ViewsOf(view, a) => ViewsOf(shown', a)
<1>1. CASE runs' = before /\ shown' = view
  BY <1>1
<1>2. ASSUME NEW p \in rest \cap present,
             runs' = Append(before, [panel |-> p, rest |-> rest \ {p}, of |-> of, old |-> FALSE]),
             shown' = [view EXCEPT ![p] = View(Loading)]
      PROVE  /\ runs' \in Seq(RunType) /\ shown' \in [Panels -> Views]
             /\ \A a : RunsOf(before, a) /\ of.ds = a => RunsOf(runs', a)
             /\ \A a : ViewsOf(view, a) => ViewsOf(shown', a)
  <2>. DEFINE run == [panel |-> p, rest |-> rest \ {p}, of |-> of, old |-> FALSE]
  <2>1. run \in RunType /\ run.of = of
    BY DEF RunType
  <2>. HIDE DEF run
  <2>2. runs' = Append(before, run)
    BY <1>2 DEF run
  <2>3. /\ runs' \in Seq(RunType) /\ Len(before) \in Nat
        /\ DOMAIN runs' = 1..(Len(before) + 1) /\ DOMAIN before = 1..Len(before)
        /\ \A i \in 1..Len(before) : runs'[i] = before[i]
        /\ runs'[Len(before) + 1] = run
    BY <2>1, <2>2
  <2>4. \A i \in DOMAIN runs' : i \in DOMAIN before \/ i = Len(before) + 1
    BY <2>3
  <2>5. \A a : RunsOf(before, a) /\ of.ds = a => RunsOf(runs', a)
    BY <2>1, <2>3, <2>4 DEF RunsOf
  <2>6. p \in Panels /\ shown' \in [Panels -> Views]
    BY <1>2, ViewsLemma
  <2>7. \A q \in Panels : shown'[q] = IF q = p THEN View(Loading) ELSE view[q]
    BY <1>2
  <2>8. \A a : ViewsOf(view, a) => ViewsOf(shown', a)
    BY <2>7, ViewsLemma DEF ViewsOf
  <2>. QED
    BY <2>3, <2>5, <2>6, <2>8
<1>. QED
  BY <1>1, <1>2 DEF Begin

\* renderPanels: updates under way are cut off from the display.
LEMMA RenderLemma ==
    ASSUME PageInv, ViewInv, NEW layout \in SUBSET Panels, NEW of \in Graphs,
           renderPanels(layout, of)
    PROVE  /\ elements' \subseteq Panels
           /\ removals' \subseteq [panel : Panels, ds : Sources, old : BOOLEAN]
           /\ runs' \in Seq(RunType) /\ shown' \in [Panels -> Views]
           /\ drifted' = FALSE
           /\ RunsOf(runs', of.ds) /\ ViewsOf(shown', of.ds)
<1>. DEFINE before == [i \in DOMAIN runs |-> [runs[i] EXCEPT !.old = TRUE]]
            view == [p \in Panels |-> View(IF p \in layout THEN Loading ELSE Nothing)]
<1>1. /\ elements' = layout /\ drifted' = FALSE
      /\ Begin(before, layout, layout, view, of)
      /\ removals' = {[r EXCEPT !.old = TRUE] : r \in removals}
  BY DEF renderPanels
<1>2. removals' \subseteq [panel : Panels, ds : Sources, old : BOOLEAN]
  BY <1>1 DEF PageInv
<1>3. runs \in Seq(RunType) /\ Len(runs) \in Nat /\ DOMAIN runs = 1..Len(runs)
      /\ \A i \in DOMAIN runs : runs[i] \in RunType
  BY DEF ViewInv
<1>4. \A i \in DOMAIN runs : before[i] \in RunType /\ before[i].old = TRUE
  BY <1>3 DEF RunType
<1>5. before \in Seq(RunType) /\ DOMAIN before = DOMAIN runs
  <2>1. before \in [1..Len(runs) -> RunType]
    BY <1>3, <1>4
  <2>. QED
    BY <1>3, <2>1
<1>6. \A a : RunsOf(before, a)
  BY <1>4, <1>5 DEF RunsOf
<1>7. \A p \in Panels : view[p] \in Views /\ view[p].what # "graph"
  BY ViewsLemma
<1>8. view \in [Panels -> Views] /\ \A a : ViewsOf(view, a)
  BY <1>7 DEF ViewsOf
<1>. HIDE DEF before, view
<1>. QED
  BY <1>1, <1>2, <1>5, <1>6, <1>8, BeginLemma

\* One update less.
LEMMA RemoveLemma ==
    ASSUME NEW r \in Seq(RunType), NEW i \in DOMAIN r
    PROVE  /\ RemoveAt(r, i) \in Seq(RunType)
           /\ \A a : RunsOf(r, a) => RunsOf(RemoveAt(r, i), a)
<1>. DEFINE n == Len(r)
            x == SubSeq(r, 1, i - 1)
            y == SubSeq(r, i + 1, n)
<1>1. n \in Nat /\ DOMAIN r = 1..n /\ i \in 1..n
  OBVIOUS
<1>2. /\ x \in Seq(RunType) /\ Len(x) = i - 1 /\ \A j \in 1..(i - 1) : x[j] = r[j]
  BY <1>1
<1>3. /\ y \in Seq(RunType) /\ Len(y) = n - i /\ \A j \in 1..(n - i) : y[j] = r[i + j]
  BY <1>1
<1>4. RemoveAt(r, i) = x \o y
  BY DEF RemoveAt
<1>. HIDE DEF x, y
<1>5. x \o y \in Seq(RunType) /\ Len(x \o y) = Len(x) + Len(y)
      /\ \A j \in 1..(Len(x) + Len(y)) :
            (x \o y)[j] = IF j <= Len(x) THEN x[j] ELSE y[j - Len(x)]
  BY <1>2, <1>3, SMTT(60)
<1>6. Len(x) + Len(y) = n - 1 /\ n - 1 \in Nat
  BY <1>1, <1>2, <1>3
<1>7. DOMAIN (x \o y) = 1..(n - 1)
  BY <1>5, <1>6
<1>8. ASSUME NEW j \in 1..(n - 1) PROVE \E k \in DOMAIN r : (x \o y)[j] = r[k]
  <2>1. CASE j <= i - 1
    <3>1. j \in 1..(i - 1) /\ j \in 1..n
      BY <1>1, <2>1
    <3>2. (x \o y)[j] = x[j]
      BY <1>2, <1>5, <1>6, <2>1
    <3>. QED
      BY <1>1, <1>2, <3>1, <3>2
  <2>2. CASE ~(j <= i - 1)
    <3>1. j - (i - 1) \in 1..(n - i) /\ i + (j - (i - 1)) = j + 1 /\ j + 1 \in 1..n
      BY <1>1, <2>2
    <3>2. (x \o y)[j] = y[j - (i - 1)]
      BY <1>2, <1>5, <1>6, <2>2
    <3>3. (x \o y)[j] = r[j + 1]
      BY <1>3, <3>1, <3>2
    <3>. QED
      BY <1>1, <3>1, <3>3
  <2>. QED
    BY <2>1, <2>2
<1>. DEFINE z == x \o y
<1>9. z \in Seq(RunType) /\ \A j \in DOMAIN z : \E k \in DOMAIN r : z[j] = r[k]
  BY <1>5, <1>7, <1>8
<1>10. RemoveAt(r, i) = z
  BY <1>4
<1>. HIDE DEF z
<1>11. \A a : RunsOf(r, a) => RunsOf(z, a)
  BY <1>9 DEF RunsOf
<1>. QED
  BY <1>9, <1>10, <1>11

----------------------------------------------------------------------------
\* The user does one more thing.
LEMMA EditLemma ==
    ASSUME edits \in 0..MaxEdits, Edit
    PROVE  edits' \in 0..MaxEdits
<1>1. MaxEdits \in Nat
  BY DashboardAssumption
<1>. QED
  BY <1>1 DEF Edit

\* What fetchSVG asks for.
LEMMA AskLemma ==
    ASSUME PageInv
    PROVE  Ask \in Graphs /\ Ask.ds = active
BY DEF Ask, Graphs, PageInv

\* Nothing on display changes, unless the active datasource does behind it.
LEMMA ViewStay ==
    ASSUME ViewInv, UNCHANGED <<runs, shown>>, ~drifted' => ~drifted /\ active' = active
    PROVE  ViewInv'
BY DEF ViewInv

\* Another update begins.
LEMMA ViewBegin ==
    ASSUME PageInv, ViewInv, NEW rest \in SUBSET Panels, NEW present, NEW of \in Graphs,
           of.ds = active, Begin(runs, rest, present, shown, of), UNCHANGED <<active, drifted>>
    PROVE  ViewInv'
<1>1. runs \in Seq(RunType) /\ shown \in [Panels -> Views]
  BY DEF ViewInv
<1>2. /\ runs' \in Seq(RunType) /\ shown' \in [Panels -> Views]
      /\ \A a : RunsOf(runs, a) /\ of.ds = a => RunsOf(runs', a)
      /\ \A a : ViewsOf(shown, a) => ViewsOf(shown', a)
  BY <1>1, BeginLemma
<1>. QED
  BY <1>2 DEF ViewInv

\* The panels are rendered.
LEMMA ViewRender ==
    ASSUME PageInv, ViewInv, NEW layout \in SUBSET Panels, NEW of \in Graphs,
           renderPanels(layout, of), of.ds = active'
    PROVE  ViewInv'
BY RenderLemma DEF ViewInv

\* Only the active datasource's layout changes, and while the page loads that
\* is recorded as mixed.
LEMMA KeepStay ==
    ASSUME KeepInv, active' = active, mixed \subseteq mixed',
           \A d \in Sources \ {active} : stored'[d] = stored[d] /\ seen'[d] = seen[d],
           phase' = "datasources" /\ chosen' = Absent =>
               /\ phase = "datasources" /\ chosen = Absent
               /\ active \in mixed' \/ (stored'[active] = stored[active] /\ seen'[active] = seen[active])
    PROVE  KeepInv'
<1>1. \A d \in Sources \ (mixed' \cup {active'}) : Kept(d)'
  BY DEF KeepInv, Kept
<1>2. ASSUME phase' = "datasources", chosen' = Absent, NEW d \in Sources \ mixed'
      PROVE  Kept(d)'
  <2>1. Kept(d) /\ stored'[d] = stored[d] /\ seen'[d] = seen[d]
    BY <1>2 DEF KeepInv
  <2>. QED
    BY <2>1 DEF Kept
<1>. QED
  BY <1>1, <1>2 DEF KeepInv

\* The page is left or loaded.
LEMMA FreshLemma ==
    ASSUME PageInv, NEW next \in {"closed", "datasources"}, Fresh(next),
           UNCHANGED <<sources, default>>,
           stored' \in [Sources -> Layouts], legacy' \in Layouts,
           chosen' \in Sources \cup {Absent}, edits' \in 0..MaxEdits
    PROVE  DashInv'
<1>1. /\ phase' = next /\ known' = {} /\ menu' = {} /\ panels' = {} /\ period' = FirstPeriod
      /\ active' = IF chosen' = Absent THEN Default ELSE chosen'
      /\ timer' = FALSE /\ elements' = {} /\ runs' = <<>> /\ removals' = {} /\ delayed' = {}
      /\ shown' = [p \in Panels |-> View(Nothing)]
      /\ op' = NoOp /\ drifted' = FALSE /\ seen' = stored' /\ mixed' = {}
  BY DEF Fresh
<1>2. PageInv'
  BY <1>1, DashboardAssumption DEF PageInv
<1>3. shown' \in [Panels -> Views] /\ \A a : ViewsOf(shown', a)
  BY <1>1, ViewsLemma DEF ViewsOf
<1>4. runs' \in Seq(RunType) /\ \A a : RunsOf(runs', a)
  BY <1>1 DEF RunsOf
<1>5. ViewInv'
  BY <1>3, <1>4 DEF ViewInv
<1>6. KeepInv'
  BY <1>1 DEF KeepInv, Kept
<1>. QED
  BY <1>2, <1>5, <1>6 DEF DashInv

\* Opening and reloading, import and reset, and a token that has expired.
LEMMA DashFresh ==
    ASSUME DashInv, \/ Open \/ Reload \/ Reset \/ Unauthorized
                    \/ \E layout \in SUBSET Panels : Import(layout)
    PROVE  DashInv'
<1>0. /\ PageInv /\ stored \in [Sources -> Layouts] /\ legacy \in Layouts
      /\ chosen \in Sources \cup {Absent} /\ edits \in 0..MaxEdits
  BY DEF DashInv, PageInv
<1>1. CASE Open \/ Unauthorized \/ Reload
  <2>1. \E next \in {"closed", "datasources"} : Fresh(next)
    BY <1>1 DEF Open, Unauthorized, Reload
  <2>2. UNCHANGED <<sources, default, stored, legacy, chosen>> /\ (edits' = edits \/ Edit)
    BY <1>1 DEF Open, Unauthorized, Reload, gateVars, storageVars
  <2>3. edits' \in 0..MaxEdits
    BY <1>0, <2>2, EditLemma
  <2>. QED
    BY <1>0, <2>1, <2>2, <2>3, FreshLemma
<1>2. CASE Reset
  <2>1. /\ Edit /\ Fresh("closed") /\ UNCHANGED <<sources, default>>
        /\ stored' = [d \in Sources |-> Absent] /\ legacy' = Absent /\ chosen' = Absent
    BY <1>2 DEF Reset, gateVars
  <2>2. edits' \in 0..MaxEdits
    BY <1>0, <2>1, EditLemma
  <2>3. stored' \in [Sources -> Layouts] /\ legacy' \in Layouts
    BY <2>1 DEF Layouts
  <2>. QED
    BY <1>0, <2>1, <2>2, <2>3, FreshLemma
<1>3. ASSUME NEW layout \in SUBSET Panels, Import(layout) PROVE DashInv'
  <2>1. /\ Edit /\ Fresh("datasources") /\ UNCHANGED <<sources, default, legacy, chosen>>
        /\ stored' = [stored EXCEPT ![active] = layout]
    BY <1>3 DEF Import, gateVars
  <2>2. layout \in Layouts
    BY DEF Layouts
  <2>3. stored' \in [Sources -> Layouts] /\ edits' \in 0..MaxEdits
    BY <1>0, <2>1, <2>2, EditLemma
  <2>. QED
    BY <1>0, <2>1, <2>3, FreshLemma
<1>. QED
  BY <1>1, <1>2, <1>3

\* initializeDashboard: the datasources and the metrics arrive.
LEMMA DashArrive ==
    ASSUME DashInv, DatasourcesArrive \/ MetricsArrive
    PROVE  DashInv'
<1>0. PageInv /\ ViewInv /\ KeepInv
  BY DEF DashInv
<1>1. CASE DatasourcesArrive
  <2>1. /\ phase = "datasources" /\ phase' = "metrics" /\ menu' = known'
        /\ \/ known' = sources /\ Drift(FetchedActive)
           \/ UNCHANGED <<known, active, drifted>>
        /\ UNCHANGED <<panels, period, timer, op, elements, shown, runs, removals, delayed,
                       sources, default, stored, legacy, chosen, edits, seen, mixed>>
    BY <1>1 DEF DatasourcesArrive, gateVars, storageVars, userVars
  <2>2. /\ active' = active \/ (chosen = Absent /\ active' = default)
        /\ ~drifted' => ~drifted /\ active' = active
        /\ known' \subseteq Sources
    <3>1. known' \subseteq Sources
      BY <1>0, <2>1 DEF PageInv
    <3>2. CASE Drift(FetchedActive)
      <4>1. active' = active \/ (chosen = Absent /\ active' = default)
        BY <3>2 DEF Drift, FetchedActive
      <4>2. ~drifted' => ~drifted /\ active' = active
        BY <3>2, Zenon DEF Drift
      <4>. QED
        BY <3>1, <4>1, <4>2
    <3>3. CASE UNCHANGED <<active, drifted>>
      BY <3>1, <3>3
    <3>. QED
      BY <2>1, <3>2, <3>3
  <2>3. PageInv'
    BY <1>0, <2>1, <2>2 DEF PageInv
  <2>4. ViewInv'
    BY <1>0, <2>1, <2>2, ViewStay
  <2>5. KeepInv'
    BY <1>0, <2>1, <2>2 DEF KeepInv, Kept
  <2>. QED
    BY <2>3, <2>4, <2>5 DEF DashInv
<1>2. CASE MetricsArrive
  <2>1. /\ phase = "metrics" /\ phase' = "ready" /\ timer' = TRUE
        /\ renderPanels(panels', Ask) /\ seen' = [seen EXCEPT ![active] = panels']
        /\ UNCHANGED <<known, menu, active, period, op, delayed, sources, default, chosen,
                       edits, mixed>>
    BY <1>2 DEF MetricsArrive, gateVars
  <2>2. /\ stored \in [Sources -> Layouts] /\ active \in Sources /\ legacy \in Layouts
        /\ Absent \in Layouts /\ \A l \in Layouts : l # Absent => l \subseteq Panels
    BY <1>0 DEF PageInv, Layouts
  <2>3. /\ panels' \in SUBSET Panels
        /\ stored' \in [Sources -> Layouts] /\ legacy' \in Layouts
        /\ \A d \in Sources \ {active} : stored'[d] = stored[d]
    <3>1. CASE stored[active] # Absent
      BY <1>2, <2>2, <3>1 DEF MetricsArrive
    <3>2. CASE stored[active] = Absent /\ legacy # Absent
      BY <1>2, <2>2, <3>2 DEF MetricsArrive
    <3>3. CASE stored[active] = Absent /\ legacy = Absent
      BY <1>2, <2>2, <3>3, DashboardAssumption DEF MetricsArrive
    <3>. QED
      BY <3>1, <3>2, <3>3
  <2>4. Ask \in Graphs /\ Ask.ds = active'
    BY <1>0, <2>1, AskLemma
  <2>5. /\ elements' \subseteq Panels
        /\ removals' \subseteq [panel : Panels, ds : Sources, old : BOOLEAN]
    BY <1>0, <2>1, <2>3, <2>4, RenderLemma
  <2>6. /\ seen' \in [Sources -> Layouts]
        /\ \A d \in Sources \ {active} : seen'[d] = seen[d]
    BY <1>0, <2>1, <2>3 DEF PageInv, Layouts
  <2>7. PageInv'
    BY <1>0, <2>1, <2>3, <2>5, <2>6 DEF PageInv
  <2>8. ViewInv'
    BY <1>0, <2>1, <2>3, <2>4, ViewRender
  <2>9. KeepInv'
    BY <1>0, <2>1, <2>3, <2>6, KeepStay
  <2>. QED
    BY <2>7, <2>8, <2>9 DEF DashInv
<1>. QED
  BY <1>1, <1>2

\* selectDatasource.
LEMMA DashSelect ==
    ASSUME DashInv, NEW d \in Sources, Select(d)
    PROVE  DashInv'
<1>0. PageInv /\ ViewInv /\ KeepInv
  BY DEF DashInv
<1>. DEFINE of == [ds |-> d, period |-> period]
<1>1. /\ Edit
      /\ stored' = [stored EXCEPT ![active] = panels] /\ active' = d /\ chosen' = d
      /\ panels' = IF stored'[d] = Absent THEN DefaultPanels ELSE stored'[d]
      /\ renderPanels(panels', of)
      /\ seen' = [seen EXCEPT ![active] = panels, ![d] = panels']
      /\ mixed' = IF phase = "ready" THEN mixed ELSE mixed \cup {active}
      /\ menu' = known
      /\ UNCHANGED <<phase, known, period, timer, op, delayed, sources, default, legacy>>
  BY DEF Select, SavedBefore, gateVars
<1>2. /\ active \in Sources /\ stored \in [Sources -> Layouts] /\ seen \in [Sources -> Layouts]
      /\ panels \in Layouts /\ \A l \in Layouts : l # Absent => l \subseteq Panels
      /\ SUBSET Panels \subseteq Layouts
  BY <1>0 DEF PageInv, Layouts
<1>3. /\ stored' \in [Sources -> Layouts] /\ stored'[active] = panels
      /\ \A x \in Sources \ {active} : stored'[x] = stored[x]
  BY <1>1, <1>2
<1>4. panels' \in SUBSET Panels
  BY <1>1, <1>2, <1>3, DashboardAssumption
<1>5. /\ seen' \in [Sources -> Layouts] /\ (active # d => seen'[active] = panels)
      /\ \A x \in Sources \ {active, d} : seen'[x] = seen[x]
  BY <1>1, <1>2, <1>4
<1>6. edits' \in 0..MaxEdits
  BY <1>0, <1>1, EditLemma DEF PageInv
<1>7. of \in Graphs /\ of.ds = active'
  BY <1>0, <1>1 DEF Graphs, PageInv
<1>. HIDE DEF of
<1>8. /\ elements' \subseteq Panels
      /\ removals' \subseteq [panel : Panels, ds : Sources, old : BOOLEAN]
  BY <1>0, <1>1, <1>4, <1>7, RenderLemma
<1>9. PageInv'
  BY <1>0, <1>1, <1>2, <1>3, <1>4, <1>5, <1>6, <1>8 DEF PageInv
<1>10. ViewInv'
  BY <1>0, <1>1, <1>4, <1>7, ViewRender
<1>11. KeepInv'
  <2>1. chosen' # Absent
    BY <1>1, DashboardAssumption
  <2>2. ASSUME NEW x \in Sources \ (mixed' \cup {d}) PROVE Kept(x)'
    <3>1. CASE x = active
      BY <1>3, <1>5, <2>2, <3>1 DEF Kept
    <3>2. CASE x # active
      <4>1. x \in Sources \ (mixed \cup {active})
        BY <1>1, <2>2, <3>2
      <4>. QED
        BY <1>0, <1>3, <1>5, <2>2, <3>2, <4>1 DEF Kept, KeepInv
    <3>. QED
      BY <3>1, <3>2
  <2>. QED
    BY <1>1, <2>1, <2>2 DEF KeepInv
<1>. QED
  BY <1>9, <1>10, <1>11 DEF DashInv

\* addPanel.
LEMMA DashAdd ==
    ASSUME DashInv, NEW p \in Panels, AddPanel(p)
    PROVE  DashInv'
<1>0. PageInv /\ ViewInv /\ KeepInv
  BY DEF DashInv
<1>1. /\ Edit /\ panels' = panels \cup {p} /\ renderPanels(panels', Ask)
      /\ seen' = [seen EXCEPT ![active] = panels']
      /\ mixed' = IF phase = "ready" THEN mixed ELSE mixed \cup {active}
      /\ UNCHANGED <<phase, known, menu, active, period, timer, op, delayed, sources, default,
                     stored, legacy, chosen>>
  BY DEF AddPanel, Arrange, gateVars, storageVars
<1>2. panels' \in SUBSET Panels /\ edits' \in 0..MaxEdits
  BY <1>0, <1>1, EditLemma DEF PageInv
<1>3. Ask \in Graphs /\ Ask.ds = active'
  BY <1>0, <1>1, AskLemma
<1>4. /\ elements' \subseteq Panels
      /\ removals' \subseteq [panel : Panels, ds : Sources, old : BOOLEAN]
  BY <1>0, <1>1, <1>2, <1>3, RenderLemma
<1>5. /\ seen' \in [Sources -> Layouts]
      /\ \A d \in Sources \ {active} : seen'[d] = seen[d]
  BY <1>0, <1>1, <1>2 DEF PageInv, Layouts
<1>6. PageInv'
  BY <1>0, <1>1, <1>2, <1>4, <1>5 DEF PageInv
<1>7. ViewInv'
  BY <1>0, <1>1, <1>2, <1>3, ViewRender
<1>8. KeepInv'
  BY <1>0, <1>1, <1>5, KeepStay
<1>. QED
  BY <1>6, <1>7, <1>8 DEF DashInv

\* removePanel, at the click and when its timer fires.
LEMMA DashRemove ==
    ASSUME DashInv, \/ \E p \in Panels : RemoveClick(p)
                    \/ \E r \in removals : RemoveFires(r)
    PROVE  DashInv'
<1>0. PageInv /\ ViewInv /\ KeepInv
  BY DEF DashInv
<1>1. ASSUME NEW p \in Panels, RemoveClick(p) PROVE DashInv'
  <2>1. /\ Edit /\ removals' = removals \cup {[panel |-> p, ds |-> active, old |-> FALSE]}
        /\ UNCHANGED <<phase, known, menu, active, panels, period, timer, op, elements, shown, runs,
                       delayed, drifted, sources, default, stored, legacy, chosen, seen, mixed>>
    BY <1>1 DEF RemoveClick, gateVars, storageVars
  <2>2. edits' \in 0..MaxEdits
    BY <1>0, <2>1, EditLemma DEF PageInv
  <2>3. removals' \subseteq [panel : Panels, ds : Sources, old : BOOLEAN]
    <3>1. /\ active \in Sources
          /\ removals \subseteq [panel : Panels, ds : Sources, old : BOOLEAN]
      BY <1>0 DEF PageInv
    <3>2. [panel |-> p, ds |-> active, old |-> FALSE] \in [panel : Panels, ds : Sources, old : BOOLEAN]
      BY <3>1
    <3>. QED
      BY <2>1, <3>1, <3>2
  <2>4. PageInv'
    BY <1>0, <2>1, <2>2, <2>3 DEF PageInv
  <2>5. ViewInv'
    BY <1>0, <2>1, ViewStay
  <2>6. KeepInv'
    BY <1>0, <2>1, KeepStay
  <2>. QED
    BY <2>4, <2>5, <2>6 DEF DashInv
<1>2. ASSUME NEW r \in removals, RemoveFires(r) PROVE DashInv'
  <2>1. /\ removals' = removals \ {r} /\ panels' = panels \ {r.panel}
        /\ stored' = [stored EXCEPT ![active] = panels']
        /\ seen' = [seen EXCEPT ![active] = panels']
        /\ mixed' = mixed \cup (IF r.ds # active THEN {r.ds, active}
                                ELSE IF phase = "ready" THEN {} ELSE {active})
        /\ UNCHANGED <<phase, known, menu, active, period, timer, op, delayed, drifted,
                       sources, default, legacy, chosen, edits>>
    BY <1>2 DEF RemoveFires, gateVars
  <2>2. r.panel \in Panels /\ r.ds \in Sources
    BY <1>0 DEF PageInv
  <2>3. panels' \in Layouts /\ panels' \subseteq Panels
    BY <1>0, <2>1 DEF PageInv, Layouts
  <2>4. /\ stored' \in [Sources -> Layouts] /\ seen' \in [Sources -> Layouts]
        /\ \A d \in Sources \ {active} : stored'[d] = stored[d] /\ seen'[d] = seen[d]
    BY <1>0, <2>1, <2>3 DEF PageInv
  <2>5. CASE /\ ~r.old /\ elements' = elements \ {r.panel}
             /\ shown' = [shown EXCEPT ![r.panel] = View(Nothing)]
             /\ runs' = [i \in DOMAIN runs |-> [runs[i] EXCEPT !.old = @ \/ runs[i].panel = r.panel]]
    <3>1. runs \in Seq(RunType) /\ Len(runs) \in Nat /\ DOMAIN runs = 1..Len(runs)
          /\ \A i \in DOMAIN runs : runs[i] \in RunType
      BY <1>0 DEF ViewInv
    <3>2. ASSUME NEW i \in DOMAIN runs
          PROVE  runs'[i] \in RunType /\ runs'[i].of = runs[i].of /\ (~runs'[i].old => ~runs[i].old)
      <4>. DEFINE x == runs[i]
                  b == x.old \/ x.panel = r.panel
      <4>1. x \in RunType /\ b \in BOOLEAN
        BY <3>1
      <4>2. runs'[i] = [x EXCEPT !.old = b]
        BY <2>5
      <4>3. ~b => ~x.old
        OBVIOUS
      <4>. HIDE DEF x, b
      <4>4. runs'[i] \in RunType /\ runs'[i].of = x.of /\ runs'[i].old = b
        BY <4>1, <4>2 DEF RunType
      <4>. QED
        BY <4>3, <4>4 DEF x
    <3>3. DOMAIN runs' = DOMAIN runs
      BY <2>5
    <3>4. runs' \in Seq(RunType)
      <4>1. runs' \in [1..Len(runs) -> RunType]
        BY <2>5, <3>1, <3>2
      <4>. QED
        BY <3>1, <4>1
    <3>5. \A a : RunsOf(runs, a) => RunsOf(runs', a)
      BY <3>2, <3>3 DEF RunsOf
    <3>6. shown' \in [Panels -> Views]
      BY <1>0, <2>2, <2>5, ViewsLemma DEF ViewInv
    <3>7. \A q \in Panels : shown'[q] = IF q = r.panel THEN View(Nothing) ELSE shown[q]
      BY <1>0, <2>5 DEF ViewInv
    <3>8. \A a : ViewsOf(shown, a) => ViewsOf(shown', a)
      BY <3>7, ViewsLemma DEF ViewsOf
    <3>. QED
      <4>1. ViewInv'
        BY <1>0, <2>1, <3>4, <3>5, <3>6, <3>8 DEF ViewInv
      <4>2. PageInv'
        BY <1>0, <2>1, <2>2, <2>3, <2>4, <2>5 DEF PageInv
      <4>3. KeepInv'
        BY <1>0, <2>1, <2>4, KeepStay
      <4>. QED
        BY <4>1, <4>2, <4>3 DEF DashInv
  <2>6. CASE r.old /\ UNCHANGED <<elements, shown, runs>>
    <3>1. ViewInv'
      BY <1>0, <2>1, <2>6, ViewStay
    <3>2. PageInv'
      BY <1>0, <2>1, <2>2, <2>3, <2>4, <2>6 DEF PageInv
    <3>3. KeepInv'
      BY <1>0, <2>1, <2>4, KeepStay
    <3>. QED
      BY <3>1, <3>2, <3>3 DEF DashInv
  <2>. QED
    BY <1>2, <2>5, <2>6 DEF RemoveFires
<1>. QED
  BY <1>1, <1>2

\* A drag saves the panels, or renders them, or both; stopResize saves them.
LEMMA DashArrange ==
    ASSUME DashInv, Drag \/ \E p \in Panels : Resize(p)
    PROVE  DashInv'
<1>0. PageInv /\ ViewInv /\ KeepInv
  BY DEF DashInv
<1>1. /\ Edit
      /\ stored' = stored \/ stored' = [stored EXCEPT ![active] = panels]
      /\ delayed' = delayed \/ delayed' = delayed \cup {Whole}
      /\ seen' = [seen EXCEPT ![active] = panels]
      /\ mixed' = IF phase = "ready" THEN mixed ELSE mixed \cup {active}
      /\ UNCHANGED <<phase, known, menu, active, panels, period, timer, op, sources, default,
                     legacy, chosen>>
  BY DEF Drag, Resize, Arrange, gateVars
<1>2. renderPanels(panels, Ask) \/ UNCHANGED <<elements, shown, runs, removals, drifted>>
  BY DEF Drag, Resize
<1>3. edits' \in 0..MaxEdits
  BY <1>0, <1>1, EditLemma DEF PageInv
<1>4. panels \in Layouts /\ panels \in SUBSET Panels
  BY <1>0 DEF PageInv, Layouts
<1>5. /\ stored' \in [Sources -> Layouts] /\ seen' \in [Sources -> Layouts]
      /\ \A d \in Sources \ {active} : stored'[d] = stored[d] /\ seen'[d] = seen[d]
  BY <1>0, <1>1, <1>4 DEF PageInv
<1>6. /\ elements' \subseteq Panels
      /\ removals' \subseteq [panel : Panels, ds : Sources, old : BOOLEAN]
      /\ ViewInv'
  <2>1. Ask \in Graphs /\ Ask.ds = active'
    BY <1>0, <1>1, AskLemma
  <2>2. CASE renderPanels(panels, Ask)
    BY <1>0, <1>4, <2>1, <2>2, RenderLemma, ViewRender
  <2>3. CASE UNCHANGED <<elements, shown, runs, removals, drifted>>
    BY <1>0, <1>1, <2>3, ViewStay DEF PageInv
  <2>. QED
    BY <1>2, <2>2, <2>3
<1>7. PageInv'
  BY <1>0, <1>1, <1>3, <1>5, <1>6 DEF PageInv
<1>8. KeepInv'
  BY <1>0, <1>1, <1>5, KeepStay
<1>. QED
  BY <1>6, <1>7, <1>8 DEF DashInv

\* What only starts updates.
LEMMA UpdateLemma ==
    ASSUME DashInv, Updates, ViewInv', edits' = edits \/ Edit, period' \in Periods,
           timer' \in BOOLEAN, delayed' \subseteq Panels \cup {Whole}
    PROVE  DashInv'
<1>0. PageInv /\ ViewInv /\ KeepInv
  BY DEF DashInv
<1>1. UNCHANGED <<phase, known, menu, active, panels, op, elements, removals, drifted,
                  sources, default, stored, legacy, chosen, seen, mixed>>
  BY DEF Updates, gateVars, storageVars
<1>2. edits' \in 0..MaxEdits
  BY <1>0, EditLemma DEF PageInv
<1>3. PageInv'
  BY <1>0, <1>1, <1>2 DEF PageInv
<1>4. KeepInv'
  BY <1>0, <1>1, KeepStay
<1>. QED
  BY <1>3, <1>4 DEF DashInv

\* Refreshes, periods and timers.
LEMMA DashUpdate ==
    ASSUME DashInv, \/ Refresh \/ Tick \/ startRefreshTimer
                    \/ \E p \in Panels : refreshPanel(p) \/ toggleFullscreen(p)
                    \/ \E t \in Periods : SetPeriod(t)
                    \/ \E t \in delayed : DelayFires(t)
    PROVE  DashInv'
<1>0. /\ PageInv /\ ViewInv /\ KeepInv
      /\ panels \in SUBSET Panels /\ period \in Periods /\ timer \in BOOLEAN
      /\ delayed \subseteq Panels \cup {Whole} /\ active \in Sources
      /\ Ask \in Graphs /\ Ask.ds = active
  BY AskLemma DEF DashInv, PageInv
<1>1. CASE Refresh \/ Tick
  <2>1. /\ Updates /\ Begin(runs, panels, elements, shown, Ask)
        /\ UNCHANGED <<period, timer, delayed>> /\ (edits' = edits \/ Edit)
    BY <1>1 DEF Refresh, Tick, updateAllPanels
  <2>2. ViewInv'
    BY <1>0, <2>1, ViewBegin DEF Updates
  <2>. QED
    BY <1>0, <2>1, <2>2, UpdateLemma
<1>2. CASE startRefreshTimer
  <2>1. /\ Updates /\ UNCHANGED <<period, delayed, shown, runs>> /\ Edit /\ timer' \in BOOLEAN
    BY <1>2 DEF startRefreshTimer
  <2>2. ViewInv'
    BY <1>0, <2>1, ViewStay DEF Updates
  <2>. QED
    BY <1>0, <2>1, <2>2, UpdateLemma
<1>3. ASSUME NEW p \in Panels, refreshPanel(p) PROVE DashInv'
  <2>1. /\ Updates /\ Begin(runs, {p}, elements, shown, Ask)
        /\ UNCHANGED <<period, timer, delayed>> /\ Edit
    BY <1>3 DEF refreshPanel
  <2>2. ViewInv'
    BY <1>0, <2>1, ViewBegin DEF Updates
  <2>. QED
    BY <1>0, <2>1, <2>2, UpdateLemma
<1>4. ASSUME NEW p \in Panels, toggleFullscreen(p) PROVE DashInv'
  <2>1. /\ Updates /\ UNCHANGED <<period, timer, shown, runs>> /\ Edit
        /\ delayed' = delayed \cup {p}
    BY <1>4 DEF toggleFullscreen, Updates
  <2>2. ViewInv'
    BY <1>0, <2>1, ViewStay DEF Updates
  <2>. QED
    BY <1>0, <2>1, <2>2, UpdateLemma
<1>5. ASSUME NEW t \in Periods, SetPeriod(t) PROVE DashInv'
  <2>. DEFINE of == [ds |-> active, period |-> t]
  <2>1. /\ Updates /\ Begin(runs, panels, elements, shown, of) /\ period' = t
        /\ UNCHANGED <<timer, delayed>> /\ Edit
    BY <1>5 DEF SetPeriod, updateAllPanels
  <2>2. of \in Graphs /\ of.ds = active
    BY <1>0 DEF Graphs
  <2>. HIDE DEF of
  <2>3. ViewInv'
    BY <1>0, <2>1, <2>2, ViewBegin DEF Updates
  <2>. QED
    BY <1>0, <2>1, <2>3, UpdateLemma
<1>6. ASSUME NEW t \in delayed, DelayFires(t) PROVE DashInv'
  <2>1. /\ Updates /\ delayed' = delayed \ {t} /\ UNCHANGED <<period, timer, edits>>
        /\ \/ Begin(runs, panels, elements, shown, Ask)
           \/ t # Whole /\ Begin(runs, {t}, elements, shown, Ask)
    BY <1>6 DEF DelayFires, updateAllPanels
  <2>2. t # Whole => {t} \in SUBSET Panels
    BY <1>0
  <2>3. ViewInv'
    BY <1>0, <2>1, <2>2, ViewBegin DEF Updates
  <2>. QED
    BY <1>0, <2>1, <2>3, UpdateLemma
<1>. QED
  BY <1>1, <1>2, <1>3, <1>4, <1>5, <1>6

\* updatePanel behind its await.
LEMMA DashResponse ==
    ASSUME DashInv, NEW i \in DOMAIN runs, Response(i)
    PROVE  DashInv'
<1>0. /\ PageInv /\ ViewInv /\ KeepInv
      /\ period \in Periods /\ timer \in BOOLEAN
      /\ delayed \subseteq Panels \cup {Whole}
      /\ Ask \in Graphs /\ Ask.ds = active
      /\ runs \in Seq(RunType) /\ shown \in [Panels -> Views]
  BY AskLemma DEF DashInv, PageInv, ViewInv
<1>1. PICK view \in {Graph(runs[i].of), View(Failed)} :
          Begin(RemoveAt(runs, i), runs[i].rest, elements, Shown(i, view), Ask)
  BY DEF Response
<1>2. Updates /\ UNCHANGED <<period, timer, delayed, edits>>
  BY DEF Response
<1>. DEFINE run == runs[i]
            before == RemoveAt(runs, i)
            display == Shown(i, view)
<1>3. run \in RunType
  BY <1>0
<1>4. run.panel \in Panels /\ run.rest \in SUBSET Panels /\ run.of \in Graphs
  BY <1>3 DEF RunType
<1>5. before \in Seq(RunType) /\ \A a : RunsOf(runs, a) => RunsOf(before, a)
  BY <1>0, RemoveLemma
<1>6. view \in Views /\ (view.what = "graph" => view.of = run.of)
  BY <1>1, <1>4, ViewsLemma
<1>7. display = IF run.old THEN shown ELSE [shown EXCEPT ![run.panel] = view]
  BY DEF Shown
<1>8. Begin(before, run.rest, elements, display, Ask)
  BY <1>1
<1>9. ~run.old => \A a : RunsOf(runs, a) => run.of.ds = a
  BY DEF RunsOf
<1>. HIDE DEF run, before, display
<1>10. display \in [Panels -> Views]
  BY <1>0, <1>4, <1>6, <1>7
<1>11. \A a : RunsOf(runs, a) /\ ViewsOf(shown, a) => ViewsOf(display, a)
  <2>1. CASE run.old
    BY <1>7, <2>1
  <2>2. CASE ~run.old
    <3>1. \A q \in Panels : display[q] = IF q = run.panel THEN view ELSE shown[q]
      BY <1>0, <1>7, <2>2
    <3>. QED
      BY <1>6, <1>9, <2>2, <3>1 DEF ViewsOf
  <2>. QED
    BY <2>1, <2>2
<1>12. /\ runs' \in Seq(RunType) /\ shown' \in [Panels -> Views]
       /\ \A a : RunsOf(before, a) /\ Ask.ds = a => RunsOf(runs', a)
       /\ \A a : ViewsOf(display, a) => ViewsOf(shown', a)
  BY <1>0, <1>4, <1>5, <1>8, <1>10, BeginLemma
<1>13. ViewInv'
  BY <1>0, <1>2, <1>5, <1>11, <1>12 DEF ViewInv, Updates
<1>. QED
  BY <1>0, <1>2, <1>13, UpdateLemma

\* The datasource list: a request is sent, answered, and the list fetched again.
LEMMA DashManage ==
    ASSUME DashInv,
           \/ \E what \in {"add", "delete", "default"}, d \in Sources : Manage(what, d)
           \/ OpAnswered \/ ListArrives
    PROVE  DashInv'
<1>0. PageInv /\ ViewInv /\ KeepInv
  BY DEF DashInv
<1>1. ASSUME NEW what \in {"add", "delete", "default"}, NEW d \in Sources, Manage(what, d)
      PROVE  DashInv'
  <2>1. /\ Edit /\ op' = [what |-> what, ds |-> d, sent |-> FALSE]
        /\ UNCHANGED <<phase, known, menu, active, panels, period, timer, sources, default,
                       stored, legacy, chosen, elements, shown, runs, removals, delayed, drifted,
                       seen, mixed>>
    BY <1>1 DEF Manage, gateVars, storageVars, viewVars
  <2>2. op' \in Ops
    BY <2>1 DEF Ops
  <2>3. edits' \in 0..MaxEdits
    BY <1>0, <2>1, EditLemma DEF PageInv
  <2>4. PageInv'
    BY <1>0, <2>1, <2>2, <2>3 DEF PageInv
  <2>5. ViewInv'
    BY <1>0, <2>1, ViewStay
  <2>6. KeepInv'
    BY <1>0, <2>1, KeepStay
  <2>. QED
    BY <2>4, <2>5, <2>6 DEF DashInv
<1>2. CASE OpAnswered
  <2>1. /\ op # NoOp
        /\ \/ GateChanges /\ op' \in {[op EXCEPT !.sent = TRUE], NoOp}
           \/ UNCHANGED <<sources, default>> /\ op' = NoOp
        /\ UNCHANGED <<phase, known, menu, active, panels, period, timer,
                       stored, legacy, chosen, elements, shown, runs, removals, delayed, drifted,
                       edits, seen, mixed>>
    BY <1>2 DEF OpAnswered, gateVars, storageVars, viewVars, userVars
  <2>2. op \in Ops /\ sources \subseteq Sources /\ default \in sources
    BY <1>0, <2>1 DEF PageInv
  <2>3. op.what \in {"add", "delete", "default"} /\ op.ds \in Sources
    BY <2>2 DEF Ops
  <2>4. op' \in Ops \cup {NoOp}
    BY <2>1, <2>2 DEF Ops
  <2>5. sources' \subseteq Sources /\ default' \in sources'
    <3>1. CASE UNCHANGED <<sources, default>>
      BY <2>2, <3>1
    <3>2. CASE GateChanges
      <4>1. CASE op.what = "add"
        BY <2>2, <2>3, <3>2, <4>1 DEF GateChanges
      <4>2. CASE op.what = "delete"
        BY <2>2, <2>3, <3>2, <4>2 DEF GateChanges
      <4>3. CASE op.what = "default"
        BY <2>2, <2>3, <3>2, <4>3 DEF GateChanges
      <4>. QED
        BY <2>3, <4>1, <4>2, <4>3
    <3>. QED
      BY <2>1, <3>1, <3>2
  <2>6. PageInv'
    BY <1>0, <2>1, <2>4, <2>5 DEF PageInv
  <2>7. ViewInv'
    BY <1>0, <2>1, ViewStay
  <2>8. KeepInv'
    BY <1>0, <2>1, KeepStay
  <2>. QED
    BY <2>6, <2>7, <2>8 DEF DashInv
<1>3. CASE ListArrives
  <2>1. /\ op' = NoOp
        /\ menu' = known' \/ menu' = menu
        /\ mixed' = IF active' = active THEN mixed ELSE mixed \cup {active, active'}
        /\ UNCHANGED <<phase, panels, period, timer, elements, shown, runs, removals, delayed,
                       sources, default, stored, legacy, chosen, edits, seen>>
    BY <1>3 DEF ListArrives, gateVars, storageVars
  <2>2. known' \subseteq Sources /\ \E d \in Sources : Drift(d)
    <3>1. PICK fetched \in BOOLEAN :
             /\ known' = IF fetched THEN sources ELSE known
             /\ \/ \E d \in known' : Drift(d)
                \/ Drift(IF fetched THEN FetchedActive ELSE active)
      BY <1>3 DEF ListArrives
    <3>2. known' \subseteq Sources
      BY <1>0, <3>1 DEF PageInv
    <3>3. (IF fetched THEN FetchedActive ELSE active) \in Sources
      BY <1>0 DEF PageInv, FetchedActive
    <3>. QED
      BY <3>1, <3>2, <3>3
  <2>3. PICK d \in Sources : Drift(d)
    BY <2>2
  <2>4. active' = d /\ (~drifted' => ~drifted /\ active' = active)
    <3>1. active' = d
      BY <2>3 DEF Drift
    <3>2. ~drifted' => ~drifted /\ d = active
      BY <2>3, Zenon DEF Drift
    <3>. QED
      BY <3>1, <3>2
  <2>5. PageInv'
    BY <1>0, <2>1, <2>2, <2>4 DEF PageInv
  <2>6. ViewInv'
    BY <1>0, <2>1, <2>4, ViewStay
  <2>7. KeepInv'
    BY <1>0, <2>1 DEF KeepInv, Kept
  <2>. QED
    BY <2>5, <2>6, <2>7 DEF DashInv
<1>. QED
  BY <1>1, <1>2, <1>3

----------------------------------------------------------------------------
\* Initially the page is closed and the storage empty or old.
LEMMA DashInit == Init => DashInv
<1>. SUFFICES ASSUME Init PROVE DashInv
  OBVIOUS
<1>1. /\ MaxEdits \in Nat /\ Default \in Sources /\ FirstPeriod \in Periods
  BY DashboardAssumption
<1>2. stored \in [Sources -> Layouts] /\ seen = stored /\ legacy \in Layouts
  BY DEF Init, Layouts
<1>3. PageInv
  <2>1. edits \in 0..MaxEdits
    BY <1>1 DEF Init
  <2>. QED
    BY <1>1, <1>2, <2>1 DEF Init, PageInv
<1>4. runs = <<>> /\ shown = [p \in Panels |-> View(Nothing)]
  BY DEF Init
<1>5. shown \in [Panels -> Views] /\ \A a : ViewsOf(shown, a)
  BY <1>4, ViewsLemma DEF ViewsOf
<1>6. runs \in Seq(RunType) /\ \A a : RunsOf(runs, a)
  BY <1>4 DEF RunsOf
<1>7. ViewInv
  BY <1>5, <1>6 DEF ViewInv
<1>8. KeepInv
  BY <1>2 DEF KeepInv, Kept
<1>. QED
  BY <1>3, <1>7, <1>8 DEF DashInv

\* Every step keeps the invariant.
LEMMA DashNext == DashInv /\ [Next]_vars => DashInv'
<1>. SUFFICES ASSUME DashInv, [Next]_vars PROVE DashInv'
  OBVIOUS
<1>1. CASE Open \/ Unauthorized
  BY <1>1, DashFresh
<1>2. CASE User
  <2>1. CASE Reload \/ Reset \/ \E layout \in SUBSET Panels : Import(layout)
    BY <2>1, DashFresh
  <2>2. CASE Drag \/ \E p \in Panels : Resize(p)
    BY <2>2, DashArrange
  <2>3. CASE \/ Refresh \/ startRefreshTimer
             \/ \E p \in Panels : refreshPanel(p) \/ toggleFullscreen(p)
             \/ \E t \in Periods : SetPeriod(t)
    BY <2>3, DashUpdate
  <2>4. CASE \E d \in Sources : Select(d)
    BY <2>4, DashSelect
  <2>5. CASE \E p \in Panels : AddPanel(p)
    BY <2>5, DashAdd
  <2>6. CASE \E p \in Panels : RemoveClick(p)
    BY <2>6, DashRemove
  <2>7. CASE \E what \in {"add", "delete", "default"}, d \in Sources : Manage(what, d)
    BY <2>7, DashManage
  <2>. QED
    BY <1>2, <2>1, <2>2, <2>3, <2>4, <2>5, <2>6, <2>7 DEF User
<1>3. CASE Browser
  <2>1. CASE DatasourcesArrive \/ MetricsArrive
    BY <2>1, DashArrive
  <2>2. CASE OpAnswered \/ ListArrives
    BY <2>2, DashManage
  <2>3. CASE \E r \in removals : RemoveFires(r)
    BY <2>3, DashRemove
  <2>4. CASE \E t \in delayed : DelayFires(t)
    BY <2>4, DashUpdate
  <2>. QED
    BY <1>3, <2>1, <2>2, <2>3, <2>4 DEF Browser
<1>4. CASE Tick
  BY <1>4, DashUpdate
<1>5. CASE \E i \in DOMAIN runs : Response(i)
  BY <1>5, DashResponse
<1>6. CASE UNCHANGED vars
  <2>1. UNCHANGED <<phase, known, menu, active, panels, period, timer, op, sources, default,
                    stored, legacy, chosen, elements, shown, runs, removals, delayed, drifted,
                    edits, seen, mixed>>
    BY <1>6 DEF vars, gateVars, storageVars, viewVars, userVars
  <2>2. PageInv'
    BY <2>1 DEF DashInv, PageInv
  <2>3. ViewInv'
    BY <2>1, ViewStay DEF DashInv
  <2>4. KeepInv'
    BY <2>1, KeepStay DEF DashInv
  <2>. QED
    BY <2>2, <2>3, <2>4 DEF DashInv
<1>. QED
  BY <1>1, <1>2, <1>3, <1>4, <1>5, <1>6 DEF Next

\* The inductive invariant: the page's state, updates under way that can still be
\* seen belong to the active datasource, and layouts are kept.
THEOREM DashInvariant == Spec => []DashInv
  BY DashInit, DashNext, PTL DEF Spec

\* Types: the gate always has a default among its datasources, and an active one
\* is always known by name.
THEOREM TypeCorrect == Spec => []TypeOK
<1>1. DashInv => TypeOK
  <2>. SUFFICES ASSUME DashInv PROVE TypeOK
    OBVIOUS
  <2>1. \A p \in Panels : shown[p].what \in {Nothing, Loading, Failed, "graph"}
    BY ViewsLemma DEF DashInv, ViewInv
  <2>2. runs \in Seq(RunType)
    BY DEF DashInv, ViewInv
  <2>. QED
    BY <2>1, <2>2 DEF DashInv, PageInv, TypeOK
<1>. QED
  BY <1>1, DashInvariant, PTL

\* updatePanel, renderPanels: a response that arrives after the user has switched
\* never shows under the new datasource.
THEOREM ActiveOnDisplay == Spec => []ShowsActive
<1>1. DashInv => ShowsActive
  BY DEF DashInv, PageInv, ViewInv, ViewsOf, ShowsActive
<1>. QED
  BY <1>1, DashInvariant, PTL

\* selectDatasource, savePanelsToStorage: switching back and forth loses no
\* layout.
THEOREM LayoutsKept == Spec => []KeepsLayouts
<1>1. DashInv => KeepsLayouts
  BY DEF DashInv, KeepInv, Kept, KeepsLayouts
<1>. QED
  BY <1>1, DashInvariant, PTL
=============================================================================
