-------------------------- MODULE FrontendService --------------------------
(***************************************************************************)
(* The service behind the graphical frontend (frontend/service.py): one    *)
(* loaded case, its latest run and the snapshot file of every case.        *)
(*                                                                         *)
(* The service handles one request at a time.  Beside it run the extension *)
(* that saves a layout into the snapshot file, and a user who edits        *)
(* simulation files and kills the process.  A request is split where these *)
(* others can come in between: a run, the reading of the layout, and the   *)
(* replacement of the file.                                                *)
(*                                                                         *)
(* A configuration has a value for the parameters an editor shows and one  *)
(* for those it does not (descriptor.py, editable: initial states, the     *)
(* values set by events, types).  A result is the configuration it was     *)
(* computed from.                                                          *)
(***************************************************************************)
EXTENDS Naturals

CONSTANTS
    Cases,      \* simulation files
    Values,     \* values of a parameter
    Overrides,  \* overrides the extension sends
    Layouts,    \* layouts the extension saves
    Original,   \* contents of every simulation file at first
    Edits,      \* what the user may write into a file
    None        \* no case, result or layout

Config == [shown : Values, hidden : Values]
Result == Config \cup {None}
Snapshot == [parameters : Values, signals : Result, small : Result,
             layout : Layouts \cup {None}]
Methods == {"load", "run", "small"}

ASSUME FrontendAssumption ==
    /\ Original \in [Cases -> Config]
    /\ Edits \subseteq Config
    /\ Overrides \subseteq [shown : Values \cup {None}, hidden : Values \cup {None}]
    /\ None \notin Cases \cup Values \cup Layouts \cup Config \cup (Cases \X Overrides)
    /\ None \notin Methods /\ None \notin Snapshot

VARIABLES
    files,     \* contents of the simulation files
    disk,      \* snapshot of every case
    service,   \* FrontendService
    request,   \* method being handled, None between requests
    step,      \* how far it has come
    current    \* history: the layout read by this save is the one on disk

vars == <<files, disk, service, request, step, current>>

Empty == [case |-> None, key |-> None, model |-> None, simulation |-> None,
          signals |-> None, small |-> None, layout |-> None]

Service == [case : Cases \cup {None}, key : (Cases \X Overrides) \cup {None},
            model : Result, simulation : Result, signals : Result, small : Result,
            layout : Layouts \cup {None}]

TypeOK ==
    /\ files \in [Cases -> Config]
    /\ disk \in [Cases -> Snapshot \cup {None}]
    /\ service \in Service
    /\ request \in Methods \cup {None}
    /\ step \in {"idle", "loaded", "running", "analysing", "reading", "writing"}
    /\ current \in BOOLEAN

\* params.load: the file with its overrides.
Configured(file, overrides) ==
    [shown  |-> IF overrides.shown = None THEN file.shown ELSE overrides.shown,
     hidden |-> IF overrides.hidden = None THEN file.hidden ELSE overrides.hidden]

Init ==
    /\ files = Original /\ disk = [c \in Cases |-> None]
    /\ service = Empty /\ request = None /\ step = "idle" /\ current = TRUE

----------------------------------------------------------------------------
(***************************************************************************)
(* Loading a model.                                                        *)
(***************************************************************************)
\* FrontendService.restore.
Restored(s, saved) ==
    LET placed == [s EXCEPT !.layout = saved.layout]
    IN  IF saved = None THEN s
        ELSE IF saved.parameters # s.model.shown THEN placed
        ELSE [placed EXCEPT !.signals = saved.signals, !.small = saved.small]

\* FrontendService.reset.
Reset(s) == Empty

\* FrontendService.load_model.
Loaded(case, overrides) ==
    LET key == <<case, overrides>>
    IN  IF service.model # None /\ service.key = key THEN service
        ELSE Restored([Reset(service) EXCEPT
                          !.case = case, !.key = key,
                          !.model = Configured(files[case], overrides)],
                      disk[case])

\* The first part of model.load, simulation.start and smallSignal.run.  A
\* case or an override that is refused leaves the service as it is.
Load(method, case, overrides) ==
    /\ request = None
    /\ request' = method /\ step' = "loaded"
    /\ service' = Loaded(case, overrides)
    /\ UNCHANGED <<files, disk, current>>

\* model.reset.
ResetModel ==
    /\ request = None /\ service' = Reset(service)
    /\ UNCHANGED <<files, disk, request, step, current>>

----------------------------------------------------------------------------
(***************************************************************************)
(* Analyses.                                                               *)
(***************************************************************************)

\* The beginning of FrontendService.run.
Cleared(s) == [s EXCEPT !.simulation = None, !.signals = None, !.small = None]

StartRun ==
    /\ step = "loaded"
    /\ \/ request = "run"
       \/ request = "small" /\ service.simulation = None
    /\ service' = Cleared(service) /\ step' = "running"
    /\ UNCHANGED <<files, disk, request, current>>

\* Mutant of FinishRun: the run is kept before its signals are.
FinishRunEarly ==
    /\ step = "running"
    /\ service' = [service EXCEPT !.simulation = service.model]
    /\ step' = IF request = "run" THEN "reading" ELSE "analysing"
    /\ UNCHANGED <<files, disk, request, current>>

\* The rest of FrontendService.run.
FinishRun ==
    /\ step = "running"
    /\ service' = [service EXCEPT !.simulation = service.model, !.signals = service.model]
    /\ step' = IF request = "run" THEN "reading" ELSE "analysing"
    /\ UNCHANGED <<files, disk, request, current>>

\* No run is needed before this step of the request.
SkipRun ==
    /\ step = "loaded"
    /\ \/ request = "load" /\ step' = "reading"
       \/ request = "small" /\ service.simulation # None /\ step' = "analysing"
    /\ UNCHANGED <<files, disk, service, request, current>>

\* FrontendService.run_small_signal, which fails without an operating state.
Analyse(available) ==
    /\ step = "analysing"
    /\ service' = [service EXCEPT !.small = IF available THEN service.simulation ELSE None]
    /\ step' = IF available THEN "reading" ELSE "idle"
    /\ request' = IF available THEN request ELSE None
    /\ UNCHANGED <<files, disk, current>>

\* An exception in a run or an analysis; serve answers it and goes on.
Fail ==
    /\ step \in {"running", "analysing"}
    /\ request' = None /\ step' = "idle"
    /\ UNCHANGED <<files, disk, service, current>>

----------------------------------------------------------------------------
(***************************************************************************)
(* FrontendService.save, in two steps.                                     *)
(***************************************************************************)
\* Mutant of Placed: the layout of the load is written back.
PlacedAtLoad(s, saved) == s

\* The layout the extension saved since, if any.
Placed(s, saved) ==
    IF saved = None THEN s
    ELSE IF saved.layout = None THEN s
    ELSE [s EXCEPT !.layout = saved.layout]

ReadLayout ==
    /\ step = "reading"
    /\ service' = Placed(service, disk[service.case])
    /\ step' = "writing" /\ current' = TRUE
    /\ UNCHANGED <<files, disk, request>>

\* os.replace of the snapshot, and the response.
Write ==
    /\ step = "writing"
    /\ disk' = [disk EXCEPT ![service.case] =
                   [parameters |-> service.model.shown, signals |-> service.signals,
                    small |-> service.small, layout |-> service.layout]]
    /\ request' = None /\ step' = "idle"
    /\ UNCHANGED <<files, service, current>>

----------------------------------------------------------------------------
(***************************************************************************)
(* The others.                                                             *)
(***************************************************************************)
\* The extension saves a layout in an existing snapshot.
SaveLayout(case, layout) ==
    /\ disk[case] # None
    /\ disk' = [disk EXCEPT ![case].layout = layout]
    /\ current' = (current /\ ~(step = "writing" /\ case = service.case))
    /\ UNCHANGED <<files, service, request, step>>

Edit(case, config) ==
    /\ files' = [files EXCEPT ![case] = config]
    /\ UNCHANGED <<disk, service, request, step, current>>

\* The process ends, at any point, and is started again.
Kill ==
    /\ service' = Empty /\ request' = None /\ step' = "idle"
    /\ UNCHANGED <<files, disk, current>>

Next ==
    \/ \E method \in Methods, case \in Cases, overrides \in Overrides :
           Load(method, case, overrides)
    \/ ResetModel \/ StartRun \/ FinishRun \/ SkipRun \/ Fail
    \/ \E available \in BOOLEAN : Analyse(available)
    \/ ReadLayout \/ Write
    \/ \E case \in Cases, layout \in Layouts : SaveLayout(case, layout)
    \/ \E case \in Cases, config \in Edits : Edit(case, config)
    \/ Kill

Spec == Init /\ [][Next]_vars

----------------------------------------------------------------------------
(***************************************************************************)
(* Properties.                                                             *)
(***************************************************************************)
\* A step of a request works on a loaded model, a run on nothing older.
Handling ==
    /\ (request = None) <=> (step = "idle")
    /\ step # "idle" => service.model # None
    /\ service.model # None => service.case \in Cases
    /\ step = "running" => service.simulation = None /\ service.small = None

\* The signals held beside a run are those of that run, not restored ones.
SignalsOfRun == service.simulation # None => service.signals = service.simulation

\* The run that an analysis starts from is one of the loaded model, whatever
\* was loaded, run, reset or refused before.
RunIsOfModel == service.simulation # None => service.simulation = service.model

\* Signals that are shown, from memory or from a file of an earlier process,
\* were computed with the parameter values shown beside them.
ResultsMatchParameters ==
    /\ service.signals # None => service.signals.shown = service.model.shown
    /\ \A c \in Cases :
           disk[c] # None => (disk[c].signals # None => disk[c].signals.shown = disk[c].parameters)

\* Modes and signals shown together come from the same run.
ModesMatchSignals ==
    /\ service.small # None => service.small = service.signals
    /\ \A c \in Cases :
           disk[c] # None => (disk[c].small # None => disk[c].small = disk[c].signals)

\* What the requests keep about results: the three together are inductive.
ResultsInv == /\ TypeOK /\ Handling /\ RunIsOfModel /\ SignalsOfRun
              /\ ResultsMatchParameters /\ ModesMatchSignals

\* A layout that the service holds came from the snapshot of its case, which
\* has had one ever since; between the two steps of a save the service holds
\* the very layout of the file, unless the extension saved one in between.
LayoutIsOnDisk ==
    /\ service.layout # None =>
           /\ service.model # None
           /\ disk[service.case] # None /\ disk[service.case].layout # None
    /\ step = "writing" /\ current /\ disk[service.case] # None =>
           service.layout = disk[service.case].layout

\* What holds of the service in every state.
IndInv == ResultsInv /\ LayoutIsOnDisk

\* A save does not take back a layout that was saved in place before the
\* save read the file, however long ago the model was loaded.
SaveKeepsLayout ==
    [][step = "writing" /\ step' = "idle" /\ request' = None /\ disk' # disk /\ current =>
          \A c \in Cases : disk[c] # None => disk'[c].layout = disk[c].layout]_vars

============================================================================
