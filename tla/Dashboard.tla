----------------------------- MODULE Dashboard ------------------------------
(***************************************************************************)
(* The dashboard in the browser (src/gate/static/script.js): panels kept   *)
(* per datasource in localStorage, and graphs that are fetched while the   *)
(* user goes on.  JavaScript is single-threaded: a step is what runs       *)
(* between two awaits.  Responses arrive in any order; fetchWithAuth       *)
(* (auth.js) waits ten seconds for headers.  A panel is its id, which the  *)
(* add form derives from the endpoint; the order of panels, their size,    *)
(* their titles and the search box are left out.                           *)
(***************************************************************************)
EXTENDS Integers, Sequences, FiniteSets, SequencesExt

CONSTANTS
    Sources,        \* names of datasources
    Default,        \* config.activeDatasource before anything is loaded
    Panels,         \* panel ids
    DefaultPanels,  \* defaultPanels
    Periods,        \* time ranges of the dropdown
    FirstPeriod,    \* config.currentPeriod of a fresh page
    Absent,         \* no such key, no name
    MaxEdits,       \* bound on what the user does
    MaxRuns         \* bound on the updates under way

ASSUME DashboardAssumption ==
    /\ Default \in Sources
    /\ DefaultPanels \subseteq Panels
    /\ FirstPeriod \in Periods
    /\ Absent \notin Sources
    /\ MaxEdits \in Nat
    /\ MaxRuns \in Nat \ {0}

VARIABLES
    phase,     \* "closed", "datasources", "metrics" (initializeDashboard), "ready"
    sources,   \* the gate: its datasources ...
    default,   \* ... and its default
    known,     \* config.datasources, and the list with its buttons
    menu,      \* the names in the datasource dropdown
    active,    \* config.activeDatasource
    panels,    \* config.panels
    period,    \* config.currentPeriod
    timer,     \* the refresh timer runs
    elements,  \* panels that have an element in the document
    shown,     \* what the element of a panel shows
    runs,      \* updateAllPanels and updatePanel at their await, oldest first
    removals,  \* removePanel timers
    delayed,   \* other timers: a resize, the panels that went fullscreen or back
    op,        \* the request to the datasource API under way
    stored,    \* localStorage: svgd-panels-<datasource>
    legacy,    \* localStorage: svgd-panels
    chosen,    \* localStorage: svgd-active-datasource
    edits,     \* what the user did so far
    seen,      \* history: the panels the user last had for a datasource
    mixed,     \* history: datasources whose panels got mixed up (see KeepsLayouts)
    drifted    \* history: active has changed behind the panels on display

gateVars    == <<sources, default>>
storageVars == <<stored, legacy, chosen>>
viewVars    == <<elements, shown, runs, removals, delayed, drifted>>
userVars    == <<edits, seen, mixed>>
vars == <<phase, known, menu, active, panels, period, timer, op,
          gateVars, storageVars, viewVars, userVars>>

Nothing == "nothing"
Loading == "loading"
Failed  == "error"
Graphs  == [ds : Sources, period : Periods]
RunType == [panel : Panels, rest : SUBSET Panels, of : Graphs, old : BOOLEAN]
Layouts == (SUBSET Panels) \cup {Absent}
Whole   == "resize"
Ops     == [what : {"add", "delete", "default"}, ds : Sources, sent : BOOLEAN]
NoOp    == [what |-> Absent]

TypeOK ==
    /\ phase \in {"closed", "datasources", "metrics", "ready"}
    /\ sources \subseteq Sources /\ default \in sources
    /\ known \subseteq Sources /\ menu \subseteq Sources
    /\ active \in Sources
    /\ panels \subseteq Panels
    /\ period \in Periods
    /\ timer \in BOOLEAN
    /\ elements \subseteq Panels
    /\ \A p \in Panels : shown[p].what \in {Nothing, Loading, Failed, "graph"}
    /\ runs \in Seq(RunType)
    /\ removals \subseteq [panel : Panels, ds : Sources, old : BOOLEAN]
    /\ delayed \subseteq Panels \cup {Whole}
    /\ op \in Ops \cup {NoOp}
    /\ stored \in [Sources -> Layouts]
    /\ legacy \in Layouts
    /\ chosen \in Sources \cup {Absent}
    /\ edits \in 0..MaxEdits
    /\ seen \in [Sources -> Layouts]
    /\ mixed \subseteq Sources

View(what) == [what |-> what]
Graph(g)   == [what |-> "graph", of |-> g]

Init ==
    /\ phase = "closed"
    /\ sources = Sources
    /\ default \in Sources
    /\ known = {}
    /\ menu = {}
    /\ active = Default
    /\ panels = {}
    /\ period = FirstPeriod
    /\ timer = FALSE
    /\ elements = {}
    /\ shown = [p \in Panels |-> View(Nothing)]
    /\ runs = <<>>
    /\ removals = {}
    /\ delayed = {}
    /\ op = NoOp
    /\ stored = [d \in Sources |-> Absent]
    /\ legacy \in {Absent, Panels}
    /\ chosen = Absent
    /\ edits = 0
    /\ seen = stored
    /\ mixed = {}
    /\ drifted = FALSE

----------------------------------------------------------------------------
\* Mutant: the period is fixed when the page is loaded.
AskFirstPeriod == [ds |-> active, period |-> FirstPeriod]

\* fetchSVG asks for the datasource and the period of the moment.
Ask == [ds |-> active, period |-> period]

\* updatePanel for one of the panels in rest, up to its await; a panel without
\* an element is passed over.
Begin(before, rest, present, view, of) ==
    IF rest \cap present = {}
    THEN runs' = before /\ shown' = view
    ELSE \E p \in rest \cap present :
            /\ runs' = Append(before, [panel |-> p, rest |-> rest \ {p}, of |-> of, old |-> FALSE])
            /\ shown' = [view EXCEPT ![p] = View(Loading)]

\* updateAllPanels.
updateAllPanels(of) == Begin(runs, panels, elements, shown, of)

\* renderPanels: every element is replaced, so that updates under way write to
\* elements that are no longer in the document; then updateAllPanels.
renderPanels(layout, of) ==
    /\ elements' = layout
    /\ Begin([i \in DOMAIN runs |-> [runs[i] EXCEPT !.old = TRUE]], layout, layout,
             [p \in Panels |-> View(IF p \in layout THEN Loading ELSE Nothing)], of)
    /\ removals' = {[r EXCEPT !.old = TRUE] : r \in removals}
    /\ drifted' = FALSE

Room == Len(runs) < MaxRuns
Edit == phase # "closed" /\ edits < MaxEdits /\ edits' = edits + 1

\* The user arranges panels: those of the active datasource, or, while the page
\* still loads, whatever config.panels holds by then.
Arrange(layout) ==
    /\ seen' = [seen EXCEPT ![active] = layout]
    /\ mixed' = IF phase = "ready" THEN mixed ELSE mixed \cup {active}

\* The active datasource changes and nothing is rendered.
Drift(d) == active' = d /\ drifted' = (drifted \/ d # active)

----------------------------------------------------------------------------
\* The page is left for the login page or loaded: of the script's state only
\* localStorage is left.
Fresh(next) ==
    /\ phase' = next
    /\ known' = {}
    /\ menu' = {}
    /\ active' = IF chosen' = Absent THEN Default ELSE chosen'
    /\ panels' = {}
    /\ period' = FirstPeriod
    /\ timer' = FALSE
    /\ elements' = {}
    /\ shown' = [p \in Panels |-> View(Nothing)]
    /\ runs' = <<>>
    /\ removals' = {}
    /\ delayed' = {}
    /\ op' = NoOp
    /\ drifted' = FALSE
    /\ seen' = stored'
    /\ mixed' = {}

\* The page is opened, after a login if there was no token.
Open ==
    /\ phase = "closed"
    /\ UNCHANGED <<gateVars, storageVars, edits>>
    /\ Fresh("datasources")

\* The user reloads; what was added since the last save is gone.
Reload ==
    /\ Edit
    /\ UNCHANGED <<gateVars, storageVars>>
    /\ Fresh("datasources")

\* importDashboard: the panels are saved for the active datasource, then
\* location.reload.
Import(layout) ==
    /\ Edit
    /\ stored' = [stored EXCEPT ![active] = layout]
    /\ UNCHANGED <<gateVars, legacy, chosen>>
    /\ Fresh("datasources")

\* resetDashboard: localStorage.clear takes the token too.
Reset ==
    /\ Edit
    /\ stored' = [d \in Sources |-> Absent]
    /\ legacy' = Absent
    /\ chosen' = Absent
    /\ UNCHANGED gateVars
    /\ Fresh("closed")

\* fetchWithAuth: some request is answered 401.
Unauthorized ==
    /\ phase \in {"datasources", "metrics"} \/ runs # <<>> \/ op # NoOp
    /\ UNCHANGED <<gateVars, storageVars, edits>>
    /\ Fresh("closed")

\* Mutant: the stored name is taken, even if there is none.
FetchedChosen == chosen

\* fetchDatasources with an answer: the list, and the gate's default if the user
\* never chose.
FetchedActive == IF chosen = Absent THEN default ELSE active

\* initializeDashboard, behind its first await.
DatasourcesArrive ==
    /\ phase = "datasources"
    /\ phase' = "metrics"
    /\ \/ known' = sources /\ Drift(FetchedActive)
       \/ UNCHANGED <<known, active, drifted>>
    /\ menu' = known'
    /\ UNCHANGED <<panels, period, timer, op, elements, shown, runs, removals, delayed,
                   gateVars, storageVars, userVars>>

\* initializeDashboard, behind its second await: the panels of the active
\* datasource, or the ones of the time before datasources, or the defaults.
MetricsArrive ==
    /\ phase = "metrics"
    /\ phase' = "ready"
    /\ IF stored[active] # Absent
       THEN panels' = stored[active] /\ UNCHANGED <<stored, legacy>>
       ELSE IF legacy # Absent
       THEN /\ panels' = legacy
            /\ stored' = [stored EXCEPT ![active] = legacy]
            /\ legacy' = Absent
       ELSE panels' = DefaultPanels /\ UNCHANGED <<stored, legacy>>
    /\ seen' = [seen EXCEPT ![active] = panels']
    /\ renderPanels(panels', Ask)
    /\ timer' = TRUE
    /\ UNCHANGED <<known, menu, active, period, op, delayed, gateVars, chosen, edits, mixed>>

----------------------------------------------------------------------------
\* Mutant: the panels on display are saved after the switch.
SavedAsNew(d) == [stored EXCEPT ![d] = panels]

\* savePanelsToStorage at the start of selectDatasource.
SavedBefore(d) == [stored EXCEPT ![active] = panels]

\* selectDatasource.
Select(d) ==
    /\ Edit /\ Room
    /\ d \in menu
    /\ stored' = SavedBefore(d)
    /\ active' = d
    /\ chosen' = d
    /\ panels' = IF stored'[d] = Absent THEN DefaultPanels ELSE stored'[d]
    /\ renderPanels(panels', [ds |-> d, period |-> period])
    /\ seen' = [seen EXCEPT ![active] = panels, ![d] = panels']
    /\ mixed' = IF phase = "ready" THEN mixed ELSE mixed \cup {active}
    /\ menu' = known
    /\ UNCHANGED <<phase, known, period, timer, op, delayed, gateVars, legacy>>

\* addPanel: rendered, not saved.
AddPanel(p) ==
    /\ Edit /\ Room
    /\ p \notin panels
    /\ panels' = panels \cup {p}
    /\ renderPanels(panels', Ask)
    /\ Arrange(panels')
    /\ UNCHANGED <<phase, known, menu, active, period, timer, op, delayed, gateVars, storageVars>>

\* removePanel: the element fades out ...
RemoveClick(p) ==
    /\ Edit
    /\ p \in elements
    /\ removals' = removals \cup {[panel |-> p, ds |-> active, old |-> FALSE]}
    /\ UNCHANGED <<phase, known, menu, active, panels, period, timer, op, elements, shown, runs,
                   delayed, drifted, gateVars, storageVars, seen, mixed>>

\* ... and 300 ms later it is removed with its panel, from the datasource that is
\* active by then.
RemoveFires(r) ==
    /\ r \in removals
    /\ removals' = removals \ {r}
    /\ panels' = panels \ {r.panel}
    /\ stored' = [stored EXCEPT ![active] = panels']
    /\ IF r.old THEN UNCHANGED <<elements, shown, runs>>
       ELSE /\ elements' = elements \ {r.panel}
            /\ shown' = [shown EXCEPT ![r.panel] = View(Nothing)]
            /\ runs' = [i \in DOMAIN runs |->
                          [runs[i] EXCEPT !.old = @ \/ runs[i].panel = r.panel]]
    /\ seen' = [seen EXCEPT ![active] = panels']
    /\ mixed' = mixed \cup (IF r.ds # active THEN {r.ds, active}
                            ELSE IF phase = "ready" THEN {} ELSE {active})
    /\ UNCHANGED <<phase, known, menu, active, period, timer, op, delayed, drifted,
                   gateVars, legacy, chosen, edits>>

\* A panel is dragged: dropped on another one, swapPanels renders all of them;
\* dragend saves, if the browser fires it for an element that is gone.
Drag ==
    /\ Edit /\ Room
    /\ elements # {}
    /\ \/ /\ Cardinality(elements \cap panels) > 1
          /\ renderPanels(panels, Ask)
          /\ stored' \in {stored, [stored EXCEPT ![active] = panels]}
       \/ /\ stored' = [stored EXCEPT ![active] = panels]
          /\ UNCHANGED <<elements, shown, runs, removals, drifted>>
    /\ Arrange(panels)
    /\ UNCHANGED <<phase, known, menu, active, panels, period, timer, op, delayed,
                   gateVars, legacy, chosen>>

\* stopResize; updateAllPanels follows 300 ms later.
Resize(p) ==
    /\ Edit
    /\ p \in elements
    /\ stored' = IF p \in panels THEN [stored EXCEPT ![active] = panels] ELSE stored
    /\ delayed' = delayed \cup {Whole}
    /\ Arrange(panels)
    /\ UNCHANGED <<phase, known, menu, active, panels, period, timer, op, elements, shown, runs,
                   removals, drifted, gateVars, legacy, chosen>>

\* toggleFullscreen, or Escape: updatePanel follows 350 ms later.
toggleFullscreen(p) ==
    /\ Edit
    /\ p \in elements \cap panels
    /\ delayed' = delayed \cup {p}
    /\ UNCHANGED <<phase, known, menu, active, panels, period, timer, op, elements, shown, runs,
                   removals, drifted, gateVars, storageVars, seen, mixed>>

\* What only starts an update leaves the rest alone.
Updates ==
    UNCHANGED <<phase, known, menu, active, panels, op, elements, removals, drifted,
                gateVars, storageVars, seen, mixed>>

DelayFires(t) ==
    /\ Room
    /\ t \in delayed
    /\ delayed' = delayed \ {t}
    /\ IF t = Whole THEN updateAllPanels(Ask) ELSE Begin(runs, {t}, elements, shown, Ask)
    /\ Updates /\ UNCHANGED <<period, timer, edits>>

\* The refresh button.
Refresh ==
    /\ Edit /\ Room
    /\ updateAllPanels(Ask)
    /\ Updates /\ UNCHANGED <<period, timer, delayed>>

refreshPanel(p) ==
    /\ Edit /\ Room
    /\ p \in panels \cap elements
    /\ Begin(runs, {p}, elements, shown, Ask)
    /\ Updates /\ UNCHANGED <<period, timer, delayed>>

\* The time range dropdown.
SetPeriod(t) ==
    /\ Edit /\ Room
    /\ period' = t
    /\ updateAllPanels([ds |-> active, period |-> t])
    /\ Updates /\ UNCHANGED <<timer, delayed>>

\* startRefreshTimer, for another interval or for none.
startRefreshTimer ==
    /\ Edit
    /\ timer' \in BOOLEAN
    /\ Updates /\ UNCHANGED <<period, delayed, shown, runs>>

\* The refresh timer has counted down.
Tick ==
    /\ timer /\ Room
    /\ updateAllPanels(Ask)
    /\ Updates /\ UNCHANGED <<period, timer, delayed, edits>>

\* Mutant: the element is looked up again behind the await.
Written(i, view) == [shown EXCEPT ![runs[i].panel] = IF @ = View(Nothing) THEN @ ELSE view]

\* updatePanel behind its await writes to the element it found before.
Shown(i, view) == IF runs[i].old THEN shown ELSE [shown EXCEPT ![runs[i].panel] = view]

\* An answer, an error or the abort of fetchWithAuth; then updateAllPanels goes on
\* with the next panel.
Response(i) ==
    /\ i \in DOMAIN runs
    /\ \E view \in {Graph(runs[i].of), View(Failed)} :
          Begin(RemoveAt(runs, i), runs[i].rest, elements, Shown(i, view), Ask)
    /\ Updates /\ UNCHANGED <<period, timer, delayed, edits>>

----------------------------------------------------------------------------
\* addDatasource, deleteDatasource and setDefaultDatasource up to their await;
\* one at a time, and the last datasource stays.
Manage(what, d) ==
    /\ Edit
    /\ op = NoOp
    /\ CASE what = "add"     -> d \notin sources
         [] what = "delete"  -> d \in known /\ sources # {d}
         [] what = "default" -> d \in known
    /\ op' = [what |-> what, ds |-> d, sent |-> FALSE]
    /\ UNCHANGED <<phase, known, menu, active, panels, period, timer,
                   gateVars, storageVars, viewVars, seen, mixed>>

\* The gate does as it is told (see Datasources), or refuses a name it lacks.
GateChanges ==
    /\ op.what # "add" => op.ds \in sources
    /\ sources' = CASE op.what = "add"    -> sources \cup {op.ds}
                    [] op.what = "delete" -> sources \ {op.ds}
                    [] OTHER              -> sources
    /\ CASE op.what = "default"                      -> default' = op.ds
         [] op.what = "delete" /\ default = op.ds    -> default' \in sources'
         [] OTHER                                    -> UNCHANGED default

\* The request is done, refused, or done with its answer lost.
OpAnswered ==
    /\ op # NoOp /\ ~op.sent
    /\ \/ GateChanges /\ op' \in {[op EXCEPT !.sent = TRUE], NoOp}
       \/ UNCHANGED gateVars /\ op' = NoOp
    /\ UNCHANGED <<phase, known, menu, active, panels, period, timer, storageVars, viewVars, userVars>>

\* fetchDatasources behind the operation, or its failure; when the active datasource
\* was deleted another one of the list takes its place.
ListArrives ==
    /\ op # NoOp /\ op.sent
    /\ op' = NoOp
    /\ \E fetched \in BOOLEAN :
          LET now == IF fetched THEN FetchedActive ELSE active IN
          /\ known' = IF fetched THEN sources ELSE known
          /\ IF op.what = "delete" /\ now = op.ds /\ known' # {}
             THEN \E d \in known' : Drift(d)
             ELSE Drift(now)
    /\ menu' = IF op.what = "delete" THEN known' ELSE menu
    /\ mixed' = IF active' = active THEN mixed ELSE mixed \cup {active, active'}
    /\ UNCHANGED <<phase, panels, period, timer, elements, shown, runs, removals, delayed,
                   gateVars, storageVars, edits, seen>>

----------------------------------------------------------------------------
User ==
    \/ Reload \/ Reset \/ Drag \/ Refresh \/ startRefreshTimer
    \/ \E d \in Sources : Select(d)
    \/ \E layout \in SUBSET Panels : Import(layout)
    \/ \E p \in Panels :
          \/ AddPanel(p) \/ RemoveClick(p) \/ Resize(p)
          \/ toggleFullscreen(p) \/ refreshPanel(p)
    \/ \E t \in Periods : SetPeriod(t)
    \/ \E what \in {"add", "delete", "default"}, d \in Sources : Manage(what, d)

\* What the browser and the network do in the end: timers fire, and a request is
\* aborted after ten seconds, or its headers have come and its body arrives or fails.
Browser ==
    \/ DatasourcesArrive \/ MetricsArrive
    \/ OpAnswered \/ ListArrives
    \/ \E r \in removals : RemoveFires(r)
    \/ \E t \in delayed : DelayFires(t)

Next ==
    \/ Open \/ Unauthorized \/ User \/ Browser \/ Tick
    \/ \E i \in DOMAIN runs : Response(i)

Spec ==
    /\ Init /\ [][Next]_vars
    /\ WF_vars(Browser) /\ WF_vars(Tick) /\ WF_vars(Response(1))

----------------------------------------------------------------------------
\* No element shows a graph of another datasource than the active one, whatever
\* was on its way when the user switched (script.js:483, 761): responses that
\* come late write to elements that are gone.  Deleting the active datasource, or
\* a new default, changes it behind the panels (script.js:221, 279).
ShowsActive ==
    ~drifted => \A p \in elements :
                  shown[p].what = "graph" => shown[p].of.ds = active

\* A datasource that is not active has in localStorage the panels the user last
\* had for it, those added and never saved included (script.js:462, 845).  Not for
\* the ones in mixed: panels arranged before they were loaded, a removal that
\* fires after the switch (script.js:823), panels on display when the active
\* datasource changed behind them (script.js:279).
KeepsLayouts ==
    \A d \in Sources \ (mixed \cup {active}) :
        seen[d] # Absent => stored[d] = seen[d]

\* A panel shows what was asked for under an earlier setting.
Outdated(p) ==
    shown[p].what = "graph" /\ (shown[p].of.ds # active \/ shown[p].of.period # period)

\* Once the user is done and while the refresh timer runs, in the end no panel
\* shows a graph of an earlier period or datasource, in whatever order the
\* responses arrive (script.js:761, 1216).
GraphsCatchUp ==
    <>[](phase = "ready" /\ timer) =>
        <>[](\A p \in panels \cap elements : ~Outdated(p))
=============================================================================
