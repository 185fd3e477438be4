----------------------- MODULE FrontendServiceProofs -----------------------
(***************************************************************************)
(* What the frontend shows is consistent, for any files, overrides and     *)
(* layouts, and however requests, failures, edits and kills interleave.    *)
(***************************************************************************)
EXTENDS FrontendService, TLAPS

\* A service without a model has nothing to be inconsistent with.
LEMMA EmptyService == Empty \in Service
BY DEF Empty, Service, Result

\* A file with its overrides is a configuration.
LEMMA ConfiguredType ==
    ASSUME NEW file \in Config, NEW overrides \in Overrides
    PROVE  Configured(file, overrides) \in Config
BY FrontendAssumption DEF Configured, Config

\* Nothing is loaded at first.
LEMMA InitInv == Init => ResultsInv
BY EmptyService, FrontendAssumption
   DEF Init, ResultsInv, TypeOK, Handling, RunIsOfModel, SignalsOfRun, ResultsMatchParameters,
       ModesMatchSignals, Empty, Config

\* Loading keeps the model and its run, or starts from the snapshot alone,
\* whose results are taken only with the parameters they were saved with.
LEMMA LoadInv ==
    ASSUME ResultsInv,
           NEW method \in Methods, NEW case \in Cases, NEW overrides \in Overrides,
           Load(method, case, overrides)
    PROVE  ResultsInv'
<1> DEFINE model == Configured(files[case], overrides)
           key == <<case, overrides>>
           new == [Empty EXCEPT !.case = case, !.key = key, !.model = model]
           saved == disk[case]
<1>1. model \in Config /\ model # None
  BY ConfiguredType, FrontendAssumption DEF ResultsInv, TypeOK
<1>2. key \in Cases \X Overrides
  OBVIOUS
<1>3. new \in Service /\ new.case = case /\ new.model = model /\ new.simulation = None
      /\ new.signals = None /\ new.small = None
  BY <1>1, <1>2 DEF Empty, Service, Result
<1>4. saved \in Snapshot \cup {None}
  BY DEF ResultsInv, TypeOK
<1>0. method # None /\ step' = "loaded" /\ request' = method /\ current' = current
  BY FrontendAssumption DEF Load
<1>5. CASE service.model # None /\ service.key = key
  <2>1. service' = service /\ files' = files /\ disk' = disk /\ step' = "loaded"
        /\ request' = method
    BY <1>5 DEF Load, Loaded
  <2>2. service.key \in Cases \X Overrides /\ service.key # None
    BY <1>5, <1>2, FrontendAssumption
  <2>3. service.case \in Cases
    BY <1>5 DEF ResultsInv, Handling
  <2> QED
    BY <1>0, <2>1, <2>3, <1>5
       DEF ResultsInv, TypeOK, Handling, RunIsOfModel, SignalsOfRun, ResultsMatchParameters,
           ModesMatchSignals
<1>6. CASE ~(service.model # None /\ service.key = key)
  <2>1. service' = Restored(new, saved)
    BY <1>6 DEF Load, Loaded, Reset
  <2>2. files' = files /\ disk' = disk /\ step' = "loaded" /\ request' = method
    BY DEF Load
  <2>3. CASE saved = None
    BY <1>0, <2>1, <2>2, <2>3, <1>1, <1>3
       DEF ResultsInv, TypeOK, Handling, RunIsOfModel, SignalsOfRun, ResultsMatchParameters,
           ModesMatchSignals, Restored
  <2>4. CASE saved # None /\ saved.parameters # model.shown
    <3>1. service' = [new EXCEPT !.layout = saved.layout]
      BY <2>1, <2>4, <1>3 DEF Restored
    <3>2. service' \in Service /\ service'.case = case /\ service'.model = model
          /\ service'.simulation = None /\ service'.signals = None /\ service'.small = None
      BY <3>1, <1>3, <1>4, <2>4 DEF Service, Snapshot
    <3> QED
      BY <1>0, <3>2, <2>2, <1>1
         DEF ResultsInv, TypeOK, Handling, RunIsOfModel, SignalsOfRun, ResultsMatchParameters,
             ModesMatchSignals
  <2>5. CASE saved # None /\ saved.parameters = model.shown
    <3>1. service' = [new EXCEPT !.layout = saved.layout, !.signals = saved.signals,
                                 !.small = saved.small]
      BY <2>1, <2>5, <1>3 DEF Restored, Service
    <3>2. service' \in Service /\ service'.case = case /\ service'.model = model
          /\ service'.simulation = None /\ service'.signals = saved.signals
          /\ service'.small = saved.small
      BY <3>1, <1>3, <1>4, <2>5 DEF Service, Snapshot
    <3> QED
      BY <1>0, <3>2, <2>2, <2>5, <1>1
         DEF ResultsInv, TypeOK, Handling, RunIsOfModel, SignalsOfRun, ResultsMatchParameters,
             ModesMatchSignals
  <2> QED
    BY <2>3, <2>4, <2>5
<1> QED
  BY <1>5, <1>6

\* A run first forgets every result; a finished one sets run and signals
\* together; modes are those of the run held.
LEMMA AnalysisInv ==
    ASSUME ResultsInv,
           StartRun \/ FinishRun \/ SkipRun \/ Fail \/ \E a \in BOOLEAN : Analyse(a)
    PROVE  ResultsInv'
<1> USE DEF ResultsInv, TypeOK, Handling, RunIsOfModel, SignalsOfRun, ResultsMatchParameters,
            ModesMatchSignals, Service, Result
<1>1. CASE StartRun
  BY <1>1 DEF StartRun, Cleared
<1>2. CASE FinishRun
  BY <1>2 DEF FinishRun
<1>3. CASE SkipRun
  BY <1>3 DEF SkipRun
<1>4. CASE Fail
  BY <1>4 DEF Fail
<1>5. ASSUME NEW a \in BOOLEAN, Analyse(a) PROVE ResultsInv'
  BY <1>5 DEF Analyse
<1> QED
  BY <1>1, <1>2, <1>3, <1>4, <1>5

\* A save writes what is held, with the parameters of its model.
LEMMA SaveInv ==
    ASSUME ResultsInv, ReadLayout \/ Write
    PROVE  ResultsInv'
<1>1. CASE ReadLayout
  <2>1. disk[service.case] \in Snapshot \cup {None}
    BY <1>1 DEF ResultsInv, TypeOK, Handling, ReadLayout
  <2>2. service' \in Service /\ service'.case = service.case
        /\ service'.model = service.model /\ service'.simulation = service.simulation
        /\ service'.signals = service.signals /\ service'.small = service.small
    BY <1>1, <2>1 DEF ResultsInv, TypeOK, ReadLayout, Placed, Service, Snapshot
  <2> QED
    BY <1>1, <2>2
       DEF ResultsInv, TypeOK, Handling, RunIsOfModel, SignalsOfRun, ResultsMatchParameters,
           ModesMatchSignals, ReadLayout
<1>2. CASE Write
  <2> DEFINE file == [parameters |-> service.model.shown, signals |-> service.signals,
                      small |-> service.small, layout |-> service.layout]
  <2>1. service.case \in Cases /\ service.model \in Config
    BY <1>2 DEF ResultsInv, TypeOK, Handling, Write, Service, Result
  <2>2. file \in Snapshot
    BY <2>1 DEF ResultsInv, TypeOK, Service, Snapshot, Config
  <2>3. \A c \in Cases : disk'[c] = IF c = service.case THEN file ELSE disk[c]
    BY <1>2, <2>1 DEF ResultsInv, TypeOK, Write
  <2>4. disk' \in [Cases -> Snapshot \cup {None}]
    BY <1>2, <2>2 DEF ResultsInv, TypeOK, Write
  <2>5. service' = service /\ files' = files /\ request' = None /\ step' = "idle"
        /\ current' = current
    BY <1>2 DEF Write
  <2> QED
    BY <2>2, <2>3, <2>4, <2>5
       DEF ResultsInv, TypeOK, Handling, RunIsOfModel, SignalsOfRun, ResultsMatchParameters,
           ModesMatchSignals
<1> QED
  BY <1>1, <1>2

\* The others touch no result.
LEMMA OthersInv ==
    ASSUME ResultsInv,
           \/ ResetModel \/ Kill
           \/ \E case \in Cases, layout \in Layouts : SaveLayout(case, layout)
           \/ \E case \in Cases, config \in Edits : Edit(case, config)
    PROVE  ResultsInv'
<1>1. CASE ResetModel
  BY <1>1, EmptyService
     DEF ResetModel, Reset, ResultsInv, TypeOK, Handling, RunIsOfModel, SignalsOfRun,
         ResultsMatchParameters, ModesMatchSignals, Empty
<1>2. CASE Kill
  BY <1>2, EmptyService
     DEF Kill, ResultsInv, TypeOK, Handling, RunIsOfModel, SignalsOfRun, ResultsMatchParameters,
         ModesMatchSignals, Empty
<1>3. ASSUME NEW case \in Cases, NEW layout \in Layouts, SaveLayout(case, layout)
      PROVE  ResultsInv'
  <2>1. disk[case] \in Snapshot /\ disk[case] # None
    BY <1>3 DEF ResultsInv, TypeOK, SaveLayout
  <2> DEFINE file == [disk[case] EXCEPT !.layout = layout]
  <2>2. file \in Snapshot /\ file.parameters = disk[case].parameters
        /\ file.signals = disk[case].signals /\ file.small = disk[case].small
    BY <2>1 DEF Snapshot
  <2>3. disk' = [disk EXCEPT ![case] = file]
    BY <1>3 DEF SaveLayout
  <2>4. disk' \in [Cases -> Snapshot \cup {None}]
        /\ \A c \in Cases : disk'[c] = IF c = case THEN file ELSE disk[c]
    BY <2>2, <2>3 DEF ResultsInv, TypeOK
  <2>5. UNCHANGED <<files, service, request, step>> /\ current' \in BOOLEAN
    BY <1>3 DEF SaveLayout, ResultsInv, TypeOK
  <2> HIDE DEF file
  <2>6. TypeOK' /\ Handling' /\ RunIsOfModel' /\ SignalsOfRun'
    BY <2>4, <2>5 DEF ResultsInv, TypeOK, Handling, RunIsOfModel, SignalsOfRun
  <2>7. ResultsMatchParameters'
    BY <2>1, <2>2, <2>4, <2>5 DEF ResultsInv, ResultsMatchParameters
  <2>8. ModesMatchSignals'
    BY <2>1, <2>2, <2>4, <2>5 DEF ResultsInv, ModesMatchSignals
  <2> QED
    BY <2>6, <2>7, <2>8 DEF ResultsInv
<1>4. ASSUME NEW case \in Cases, NEW config \in Edits, Edit(case, config)
      PROVE  ResultsInv'
  BY <1>4, FrontendAssumption
     DEF Edit, ResultsInv, TypeOK, Handling, RunIsOfModel, SignalsOfRun, ResultsMatchParameters,
         ModesMatchSignals
<1> QED
  BY <1>1, <1>2, <1>3, <1>4

\* Nothing a step reads or writes but the layouts of the service and the files.
LEMMA LayoutStays ==
    ASSUME ResultsInv, LayoutIsOnDisk, disk' = disk, current' = current,
           service'.layout = service.layout, service'.case = service.case,
           service.model # None => service'.model # None, step' # "writing" \/ step' = step
    PROVE  LayoutIsOnDisk'
BY DEF LayoutIsOnDisk

\* A model that is loaded takes the layout of its snapshot, or has none.
LEMMA LoadLayout ==
    ASSUME ResultsInv, LayoutIsOnDisk,
           NEW method \in Methods, NEW case \in Cases, NEW overrides \in Overrides,
           Load(method, case, overrides)
    PROVE  LayoutIsOnDisk'
<1> DEFINE model == Configured(files[case], overrides)
           key == <<case, overrides>>
           new == [Empty EXCEPT !.case = case, !.key = key, !.model = model]
           saved == disk[case]
<1>1. model # None
  BY ConfiguredType, FrontendAssumption DEF ResultsInv, TypeOK
<1>2. new \in [case : {case}, key : {key}, model : {model}, simulation : {None},
               signals : {None}, small : {None}, layout : {None}]
  BY DEF Empty
<1>3. disk' = disk /\ current' = current /\ step' = "loaded"
  BY DEF Load
<1>4. CASE service.model # None /\ service.key = key
  <2>1. service' = service
    BY <1>4 DEF Load, Loaded
  <2> QED
    BY <2>1, <1>3, LayoutStays
<1>5. CASE ~(service.model # None /\ service.key = key)
  <2>1. service' = Restored(new, saved)
    BY <1>5 DEF Load, Loaded, Reset
  <2>2. CASE saved = None
    BY <2>1, <2>2, <1>2, <1>3 DEF Restored, LayoutIsOnDisk
  <2>3. CASE saved # None
    <3>1. service'.layout = saved.layout /\ service'.case = case /\ service'.model = model
      BY <2>1, <2>3, <1>2 DEF Restored
    <3> QED
      BY <3>1, <2>3, <1>1, <1>3 DEF LayoutIsOnDisk
  <2> QED
    BY <2>2, <2>3
<1> QED
  BY <1>4, <1>5

\* No analysis moves a layout.
LEMMA AnalysisLayout ==
    ASSUME ResultsInv, LayoutIsOnDisk,
           StartRun \/ FinishRun \/ SkipRun \/ Fail \/ \E a \in BOOLEAN : Analyse(a)
    PROVE  LayoutIsOnDisk'
<1>1. service \in Service
  BY DEF ResultsInv, TypeOK
<1>2. /\ service'.layout = service.layout /\ service'.case = service.case
      /\ service'.model = service.model
      /\ disk' = disk /\ current' = current /\ step' # "writing"
  BY <1>1 DEF StartRun, Cleared, FinishRun, SkipRun, Fail, Analyse, Service
<1> QED
  BY <1>2, LayoutStays

\* A save takes the layout of the file, or keeps the one it has where the file
\* has none to take, which is then no layout either; what it writes is what it
\* holds.
LEMMA SaveLayouts ==
    ASSUME ResultsInv, LayoutIsOnDisk, ReadLayout \/ Write
    PROVE  LayoutIsOnDisk'
<1>1. service \in Service /\ service.case \in Cases /\ service.model # None
  BY DEF ResultsInv, TypeOK, Handling, ReadLayout, Write
<1> DEFINE saved == disk[service.case]
<1>2. CASE ReadLayout
  <2>1. service' = Placed(service, saved) /\ disk' = disk
    BY <1>2 DEF ReadLayout
  <2>2. service'.case = service.case /\ service'.model = service.model
    BY <2>1, <1>1 DEF Placed, Service
  <2>3. service'.layout = IF saved = None \/ saved.layout = None
                            THEN service.layout ELSE saved.layout
    BY <2>1, <1>1 DEF Placed, Service
  <2> QED
    BY <2>1, <2>2, <2>3, <1>1 DEF LayoutIsOnDisk
<1>3. CASE Write
  <2> DEFINE file == [parameters |-> service.model.shown, signals |-> service.signals,
                      small |-> service.small, layout |-> service.layout]
  <2>1. disk'[service.case] = file /\ service' = service /\ step' = "idle"
    BY <1>3, <1>1 DEF ResultsInv, TypeOK, Write
  <2>2. file.layout = service.layout /\ file \in Snapshot
    <3>1. service.model \in Config
      BY <1>1 DEF Service, Result
    <3> QED
      BY <1>1, <3>1 DEF Service, Snapshot, Config
  <2>3. file # None
    BY <2>2, FrontendAssumption
  <2> QED
    BY <2>1, <2>2, <2>3, <1>1 DEF LayoutIsOnDisk
<1> QED
  BY <1>2, <1>3

\* A layout that is saved in place takes no layout away, and is seen by a save
\* that has read the file.
LEMMA OthersLayout ==
    ASSUME ResultsInv, LayoutIsOnDisk,
           \/ ResetModel \/ Kill
           \/ \E case \in Cases, layout \in Layouts : SaveLayout(case, layout)
           \/ \E case \in Cases, config \in Edits : Edit(case, config)
    PROVE  LayoutIsOnDisk'
<1>1. CASE ResetModel
  <2>1. request = None /\ step' = step /\ service'.layout = None
    BY <1>1 DEF ResetModel, Reset, Empty
  <2> QED
    BY <2>1 DEF ResultsInv, Handling, LayoutIsOnDisk
<1>2. CASE Kill
  BY <1>2 DEF Kill, Empty, LayoutIsOnDisk
<1>3. ASSUME NEW case \in Cases, NEW layout \in Layouts, SaveLayout(case, layout)
      PROVE  LayoutIsOnDisk'
  <2>1. disk[case] \in Snapshot /\ disk[case] # None
    BY <1>3 DEF ResultsInv, TypeOK, SaveLayout
  <2> DEFINE file == [disk[case] EXCEPT !.layout = layout]
  <2>2. file \in Snapshot /\ file.layout = layout
    BY <2>1 DEF Snapshot
  <2>3. layout # None /\ file # None
    BY <2>2, FrontendAssumption
  <2>4. disk' = [disk EXCEPT ![case] = file]
    BY <1>3 DEF SaveLayout
  <2>5. \A c \in Cases : disk'[c] = IF c = case THEN file ELSE disk[c]
    BY <2>4 DEF ResultsInv, TypeOK
  <2>6. service' = service /\ step' = step
        /\ current' = (current /\ ~(step = "writing" /\ case = service.case))
    BY <1>3 DEF SaveLayout
  <2>7. service.model # None => service.case \in Cases
    BY DEF ResultsInv, Handling
  <2>8. step = "writing" => service.model # None
    BY DEF ResultsInv, Handling
  <2>9. current \in BOOLEAN
    BY DEF ResultsInv, TypeOK
  <2> HIDE DEF file
  <2>10. service'.layout # None =>
            /\ service'.model # None
            /\ disk'[service'.case] # None /\ disk'[service'.case].layout # None
    BY <2>2, <2>3, <2>5, <2>6, <2>7 DEF LayoutIsOnDisk
  <2>11. step' = "writing" /\ current' /\ disk'[service'.case] # None =>
            service'.layout = disk'[service'.case].layout
    <3>1. SUFFICES ASSUME step = "writing", current', disk'[service.case] # None
                   PROVE  service.layout = disk'[service.case].layout
      BY <2>6
    <3>2. current /\ case # service.case
      BY <3>1, <2>6, <2>9
    <3>3. disk'[service.case] = disk[service.case]
      BY <3>1, <3>2, <2>5, <2>7, <2>8
    <3> QED
      BY <3>1, <3>2, <3>3 DEF LayoutIsOnDisk
  <2> QED
    BY <2>10, <2>11 DEF LayoutIsOnDisk
<1>4. ASSUME NEW case \in Cases, NEW config \in Edits, Edit(case, config)
      PROVE  LayoutIsOnDisk'
  BY <1>4 DEF Edit, LayoutIsOnDisk
<1> QED
  BY <1>1, <1>2, <1>3, <1>4

\* The service keeps the invariant of its held and saved results and layouts.
THEOREM Invariance == Spec => []IndInv
<1>1. Init => IndInv
  BY InitInv DEF IndInv, Init, Empty, LayoutIsOnDisk
<1>2. ASSUME IndInv, [Next]_vars PROVE IndInv'
  <2>1. ResultsInv /\ LayoutIsOnDisk
    BY <1>2 DEF IndInv
  <2>2. CASE UNCHANGED vars
    BY <2>1, <2>2
       DEF vars, IndInv, ResultsInv, TypeOK, Handling, RunIsOfModel, SignalsOfRun,
           ResultsMatchParameters, ModesMatchSignals, LayoutIsOnDisk
  <2>3. CASE Next
    <3>1. ResultsInv'
      BY <2>1, <2>3, LoadInv, AnalysisInv, SaveInv, OthersInv DEF Next
    <3>2. LayoutIsOnDisk'
      BY <2>1, <2>3, LoadLayout, AnalysisLayout, SaveLayouts, OthersLayout DEF Next
    <3> QED
      BY <3>1, <3>2 DEF IndInv
  <2> QED
    BY <1>2, <2>2, <2>3
<1> QED
  BY <1>1, <1>2, PTL DEF Spec

\* Signals shown in memory or in a file belong to the parameters beside them.
THEOREM ShownResultsMatch == Spec => []ResultsMatchParameters
<1>1. IndInv => ResultsMatchParameters
  BY DEF IndInv, ResultsInv
<1> QED
  BY <1>1, Invariance, PTL

\* Modes and signals shown together come from one run.
THEOREM ShownModesMatch == Spec => []ModesMatchSignals
<1>1. IndInv => ModesMatchSignals
  BY DEF IndInv, ResultsInv
<1> QED
  BY <1>1, Invariance, PTL

\* An analysis starts from a run of the loaded model.
THEOREM AnalysedRun == Spec => []RunIsOfModel
<1>1. IndInv => RunIsOfModel
  BY DEF IndInv, ResultsInv
<1> QED
  BY <1>1, Invariance, PTL

\* A save writes the layout that was in the file when it read it: it undoes no
\* layout that the extension saved in place before that, however long ago the
\* model was loaded and whatever was saved for it since.
THEOREM SavesKeepLayouts == Spec => SaveKeepsLayout
<1> DEFINE Kept == step = "writing" /\ step' = "idle" /\ request' = None /\ disk' # disk
                      /\ current =>
                   \A c \in Cases : disk[c] # None => disk'[c].layout = disk[c].layout
<1>1. ASSUME IndInv, Next PROVE Kept
  <2>1. SUFFICES ASSUME step = "writing", step' = "idle", disk' # disk, current,
                        NEW c \in Cases, disk[c] # None
                 PROVE  disk'[c].layout = disk[c].layout
    OBVIOUS
  <2>2. Write
    BY <1>1, <2>1
       DEF Next, Load, ResetModel, StartRun, FinishRun, SkipRun, Fail, Analyse, ReadLayout,
           SaveLayout, Edit, Kill
  <2>3. service.case \in Cases /\ disk \in [Cases -> Snapshot \cup {None}]
    BY <1>1, <2>1 DEF IndInv, ResultsInv, TypeOK, Handling
  <2>4. CASE c = service.case
    <3>1. disk'[c].layout = service.layout
      BY <2>2, <2>3, <2>4 DEF Write
    <3>2. service.layout = disk[c].layout
      BY <1>1, <2>1, <2>4 DEF IndInv, LayoutIsOnDisk
    <3> QED
      BY <3>1, <3>2
  <2>5. CASE c # service.case
    BY <2>2, <2>3, <2>5 DEF Write
  <2> QED
    BY <2>4, <2>5
<1>2. ASSUME IndInv, [Next]_vars PROVE [Kept]_vars
  BY <1>1, <1>2
<1> QED
  BY <1>2, Invariance, PTL DEF Spec, SaveKeepsLayout

============================================================================
