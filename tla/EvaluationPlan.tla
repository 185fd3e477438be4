--------------------------- MODULE EvaluationPlan ---------------------------
(***************************************************************************)
(* How a model evaluates its outputs and derivatives (solver/model.py,     *)
(* Model): output methods and input copies are sorted by what they read,   *)
(* cycles become algebraic loops torn at some copies, and shorter plans    *)
(* are cut out for derivatives, for held inputs and for the groups of the  *)
(* multirate solver.                                                       *)
(*                                                                         *)
(* A signal has no value here.  An operation is present when what it wrote *)
(* last is what it would write from the present states, held inputs and    *)
(* signals.  A subsystem with set_outputs has one stage that reads all of  *)
(* its connected inputs or none; one whose output is its state has none.   *)
(***************************************************************************)
EXTENDS DependencyPlan

CONSTANT Models

\* A method of a subsystem that writes outputs.  Several subsystems own it when
\* it is of a circuit that they are views of.
Stage(sub, owners, reads, writes, rhs, after) ==
    [sub |-> sub, owners |-> owners, reads |-> reads, writes |-> writes, rhs |-> rhs,
     after |-> after]

\* An input and the outputs it is the weighted sum of.
Connection(dst, field, from) == [dst |-> dst, field |-> field, from |-> from]

\* Stages as the code accepts them: no methods wait for each other, so that
\* every cycle of signals has a connection to solve for.
Declaration(subsystems) ==
    {stages \in Seq([sub : subsystems, owners : SUBSET subsystems, reads : SUBSET STRING,
                     writes : SUBSET STRING, rhs : BOOLEAN, after : SUBSET Nat]) :
        /\ \A i \in DOMAIN stages : stages[i].sub \in stages[i].owners
                                   /\ stages[i].after \subseteq DOMAIN stages
        /\ \A S \in SUBSET DOMAIN stages :
              S # {} => \E i \in S : stages[i].after \cap S = {}}

IsModel(m) ==
    /\ m.stateful \subseteq m.subsystems /\ m.windowed \subseteq m.subsystems
    /\ m.held \subseteq m.subsystems \X STRING
    /\ m.asked \subseteq SUBSET m.subsystems
    /\ m.stages \in Seq(Declaration(m.subsystems)) /\ m.stages # <<>>
    /\ m.connections \in Seq([dst : m.subsystems, field : STRING,
                              from : SUBSET (m.subsystems \X STRING)])

ASSUME ModelsAssumption == \A m \in Models : IsModel(m)

VARIABLES
    model,          \* the subsystems, their stages and their connections
    declared,       \* which declaration of the stages is in force
    plan,           \* the evaluation plan
    group,          \* the plans of the windowed group, and the revision they are of
    plan_revision,
    answers,        \* the cache of has_external_state_dependency
    call,           \* what the model was called for
    remaining,      \* operations of this call still to be done
    present,        \* signals that are as the present states and held inputs make them
    inputs_set,     \* inputs a caller has set itself
    synced          \* all outputs are of the present states, up to held inputs

theModel == <<model, declared, plan_revision>>
evaluated == <<remaining, present, inputs_set, synced>>
evaluationVars == <<theModel, plan, group, answers, call, evaluated>>

----------------------------------------------------------------------------
\* The operations

Stages(m) == model.stages[m]
Copies == model.connections
Nodes(m) == 1 .. Len(Stages(m)) + Len(Copies)
IsCopy(m, n) == n > Len(Stages(m))
CopyOf(m, n) == Copies[n - Len(Stages(m))]

\* producer: the stage that writes an output; a state needs none.
Producers(m, from) ==
    {i \in DOMAIN Stages(m) : \E f \in Stages(m)[i].writes : <<Stages(m)[i].sub, f>> \in from}

CopiesTo(m, sub, fields) ==
    {n \in Nodes(m) : IsCopy(m, n) /\ CopyOf(m, n).dst = sub /\ CopyOf(m, n).field \in fields}

SignalDependencies(m) ==
    Table([n \in Nodes(m) |->
              IF IsCopy(m, n) THEN Producers(m, CopyOf(m, n).from)
              ELSE Stages(m)[n].after
                       \cup CopiesTo(m, Stages(m)[n].sub, Stages(m)[n].reads)])

NodeOwners(m, n) == IF IsCopy(m, n) THEN {CopyOf(m, n).dst} ELSE Stages(m)[n].owners
SourcesOf(m, n) == IF IsCopy(m, n) THEN {f[1] : f \in CopyOf(m, n).from} ELSE {}

\* What derivatives read at once: the inputs of stateful subsystems, and the
\* stages declared so.
ReadByRhs(m, n) ==
    IF IsCopy(m, n) THEN CopyOf(m, n).dst \in model.stateful ELSE Stages(m)[n].rhs

\* closure: the seeds with all they depend on.
Closure(seeds, deps) ==
    LET needed[k \in 0 .. Len(deps)] ==
            IF k = 0 THEN seeds
            ELSE LET before == needed[k - 1] IN before \cup UNION {deps[i] : i \in before}
    IN  needed[Len(deps)]

\* The nodes that a change at some nodes reaches.
Behind(deps, nodes) == Closure(nodes, Successors(deps))

----------------------------------------------------------------------------
\* The plan

FirstCopy(m, left) == MinOf({n \in left : IsCopy(m, n)})

\* A turn of the tearing of a cycle: the nodes whose dependencies in it are
\* done, or else the first copy, which takes its value from the sweep before.
TearTurn(m, deps, s) ==
    LET ready == {n \in s.left : deps[n] \cap s.left = {}}
        chosen == IF ready = {} THEN {FirstCopy(m, s.left)} ELSE ready
    IN  IF s.left = {} THEN s
        ELSE [left |-> s.left \ chosen, order |-> s.order \o Sorted(chosen),
              tears |-> s.tears \cup (chosen \ ready)]

Torn(m, deps, nodes) ==
    LET torn[k \in 0 .. Cardinality(nodes)] ==
            IF k = 0 THEN [left |-> nodes, order |-> <<>>, tears |-> {}]
            ELSE TearTurn(m, deps, torn[k - 1])
    IN  torn[Cardinality(nodes)]

\* One operation of the plan: a node, or the solution of a loop.
Operation(m, deps, nodes) ==
    [nodes |-> nodes,
     loop |-> Cardinality(nodes) > 1 \/ \E n \in nodes : n \in deps[n],
     order |-> Torn(m, deps, nodes).order, tears |-> Torn(m, deps, nodes).tears]

\* Whatever a required operation depends on is required too, found in one pass
\* from the end of the plan.
Live(required, deps) ==
    LET live[k \in 0 .. Len(deps)] ==
            IF k = 0 THEN required
            ELSE LET i == Len(deps) - (k - 1)
                 IN  IF i \in live[k - 1] THEN live[k - 1] \cup deps[i] ELSE live[k - 1]
    IN  live[Len(deps)]

\* What held inputs reach, in one pass from the beginning.
Affected(seeds, deps) ==
    LET reached[i \in 0 .. Len(deps)] ==
            IF i = 0 THEN {}
            ELSE IF i \in seeds \/ deps[i] \cap reached[i - 1] # {} THEN reached[i - 1] \cup {i}
            ELSE reached[i - 1]
    IN  reached[Len(deps)]

OperationOwners(m, op) == UNION {NodeOwners(m, n) : n \in op.nodes}
OperationSources(m, op) == UNION {SourcesOf(m, n) : n \in op.nodes}
OwnedBy(m, p, subs) == {i \in DOMAIN p.operations :
                           OperationOwners(m, p.operations[i]) \cap subs # {}}

InOrder(p, positions) ==
    LET s == Sorted(positions) IN Table([i \in DOMAIN s |-> p.operations[s[i]]])

Copied(m, op) == ~op.loop /\ \A n \in op.nodes : IsCopy(m, n)

\* The inputs from outside.
Boundary(m, p, members) ==
    {i \in OwnedBy(m, p, members) :
        Copied(m, p.operations[i]) /\ ~(OperationSources(m, p.operations[i]) \subseteq members)}

\* _group_plan of the windowed group: everything its members need, its own
\* operations with the copies inside it, and the inputs from outside.
GroupPlan(m, p, members) ==
    LET of == OwnedBy(m, p, members)
        boundary == Boundary(m, p, members)
    IN  [plan |-> InOrder(p, Closure(of, p.positions)),
         own |-> InOrder(p, of \ boundary),
         feed |-> InOrder(p, Closure(boundary, p.positions)),
         inputs |-> UNION {p.operations[i].nodes : i \in boundary}]

Grouped(m, p, r) ==
    [revision |-> r, windowed |-> GroupPlan(m, p, model.windowed),
     system |-> GroupPlan(m, p, model.subsystems \ model.windowed)]

----------------------------------------------------------------------------
\* has_external_state_dependency

External(members) == model.stateful \ members

\* The search from the operations of the members along the plan.
Reaches(m, p, members) ==
    \E i \in Behind(p.positions, OwnedBy(m, p, members)) :
        i \in p.rhs /\ i \in OwnedBy(m, p, External(members))

----------------------------------------------------------------------------
\* Evaluation

NoPlan == [deps |-> <<>>, parts |-> <<>>, condensed |-> <<>>, order |-> <<>>,
           operations |-> <<>>, positions |-> <<>>, rhs |-> {}, zoh |-> {}]

EvaluationInit ==
    /\ model \in Models
    /\ declared = 1
    /\ plan = NoPlan
    /\ plan_revision = 0
    /\ group = [revision |-> 0]
    /\ answers = <<>>
    /\ call = "connect" /\ remaining = <<>>
    /\ present = {} /\ inputs_set = {}
    /\ synced = FALSE

\* _build_evaluation_plan, step by step: what every operation depends on,
Connect ==
    /\ call = "connect" /\ call' = "analyze"
    /\ plan' = [plan EXCEPT !.deps = SignalDependencies(declared)]
    /\ UNCHANGED <<theModel, group, answers, evaluated>>

\* the parts that are one operation each, and what these depend on,
Analyze ==
    /\ call = "analyze" /\ call' = "condense"
    /\ plan' = [plan EXCEPT !.parts =
                   IF Residual(plan.deps) = {} THEN Table([n \in Nodes(declared) |-> {n}])
                   ELSE OrderedComponents(plan.deps)]
    /\ UNCHANGED <<theModel, group, answers, evaluated>>

Condense ==
    /\ call = "condense" /\ call' = "sort"
    /\ plan' = [plan EXCEPT !.condensed = Condensed(plan.deps, plan.parts)]
    /\ UNCHANGED <<theModel, group, answers, evaluated>>

\* their order, with the cyclic ones torn,
Sort ==
    /\ call = "sort" /\ call' = "collapse"
    /\ plan' = [plan EXCEPT !.order = TopologicalOrder(plan.condensed)]
    /\ UNCHANGED <<theModel, group, answers, evaluated>>

Collapse ==
    /\ call = "collapse" /\ call' = "cut"
    /\ plan' = [plan EXCEPT
          !.operations = Table([i \in DOMAIN plan.order |->
                             Operation(declared, plan.deps, plan.parts[plan.order[i]])]),
          !.positions = Table([i \in DOMAIN plan.order |->
                             {j \in DOMAIN plan.order :
                                 plan.order[j] \in plan.condensed[plan.order[i]]}])]
    /\ UNCHANGED <<theModel, group, answers, evaluated>>

\* and the plans of the derivatives and of held inputs.
Cut ==
    LET required == {i \in DOMAIN plan.operations :
                        \E n \in plan.operations[i].nodes : ReadByRhs(declared, n)}
        holding == OwnedBy(declared, plan, {h[1] : h \in model.held})
    IN  /\ call = "cut"
        /\ call' = IF plan_revision = 0 THEN "solver" ELSE "none"
        /\ plan' = [plan EXCEPT !.rhs = Live(required, plan.positions),
                                !.zoh = Affected(holding, plan.positions)]
        /\ UNCHANGED <<theModel, group, answers, evaluated>>

\* The multirate solver is made for the first plan.
MakeSolver ==
    /\ call = "solver" /\ call' = "none"
    /\ group' = Grouped(declared, plan, plan_revision)
    /\ UNCHANGED <<theModel, plan, answers, evaluated>>

Calls == {"sync", "zoh", "rhs", "windowed", "system", "own", "feed"}

\* A call of the model that begins by loading states: every signal is of the
\* states before until it has been evaluated.
Load(name, operations, inputs) ==
    /\ call = "none"
    /\ call' = name /\ remaining' = operations
    /\ present' = inputs /\ inputs_set' = inputs
    /\ synced' = FALSE

Sync ==
    /\ Load("sync", plan.operations, {})
    /\ UNCHANGED <<theModel, plan, group, answers>>

Rhs ==
    /\ Load("rhs", InOrder(plan, plan.rhs), {})
    /\ UNCHANGED <<theModel, plan, group, answers>>

\* Mutant: the plans of the groups are those the solver was built with.
StaleGroups == group

\* model_plan_changed: a new plan of the model renews the plans of the groups.
Groups == IF group.revision = plan_revision THEN group ELSE Grouped(declared, plan, plan_revision)

\* rhs_group for either group, and with the inputs from outside as they are.
RhsGroup ==
    /\ \/ Load("windowed", Groups.windowed.plan, {})
       \/ Load("system", Groups.system.plan, {})
       \/ Load("own", Groups.windowed.own, Groups.windowed.inputs)
       \/ Load("feed", Groups.windowed.feed, {})
    /\ group' = Groups
    /\ UNCHANGED <<theModel, plan, answers>>

\* sync_zoh: held inputs have changed since all outputs were evaluated.
SyncZoh ==
    /\ call = "none" /\ synced
    /\ call' = "zoh" /\ remaining' = InOrder(plan, plan.zoh)
    /\ UNCHANGED <<theModel, plan, group, answers, present, inputs_set, synced>>

\* The stages that read a held input.
ReadersOf(h) == {i \in DOMAIN Stages(declared) :
                    Stages(declared)[i].sub = h[1] /\ h[2] \in Stages(declared)[i].reads}

\* set_zoh_input: what depends on the stages that read it has another value.
SetZohInput ==
    /\ call = "none"
    /\ \E h \in model.held : present' = present \ Behind(plan.deps, ReadersOf(h))
    /\ UNCHANGED <<theModel, plan, group, answers, call, remaining, inputs_set, synced>>

\* One sweep of a loop evaluates each of its nodes, after those it depends on
\* or from the value of the sweep before.
OneSweep(deps, op) ==
    /\ ToSet(op.order) = op.nodes
    /\ \A i \in DOMAIN op.order : \A n \in deps[op.order[i]] \cap op.nodes :
          op.order[i] \in op.tears \/ \E j \in 1 .. i - 1 : op.order[j] = n

\* One operation of a call.
Run ==
    LET op == Head(remaining)
        before == (UNION {plan.deps[n] : n \in op.nodes}) \ op.nodes
    IN  /\ remaining # <<>>
        /\ remaining' = Tail(remaining)
        /\ present' = IF before \subseteq present /\ (op.loop => OneSweep(plan.deps, op))
                      THEN present \cup op.nodes ELSE present \ op.nodes
        /\ inputs_set' = inputs_set \ op.nodes
        /\ UNCHANGED <<theModel, plan, group, answers, call, synced>>

\* A loop that does not converge ends the call.
NoConvergence ==
    /\ remaining # <<>> /\ Head(remaining).loop
    /\ call' = "none" /\ remaining' = <<>>
    /\ present' = present \ Head(remaining).nodes
    /\ synced' = FALSE
    /\ inputs_set' = {}
    /\ UNCHANGED <<theModel, plan, group, answers>>

Return ==
    /\ call \in Calls /\ remaining = <<>>
    /\ call' = "none" /\ inputs_set' = {}
    /\ synced' = (call \in {"sync", "zoh"})
    /\ UNCHANGED <<theModel, plan, group, answers, remaining, present>>

\* Mutant: answers outlive the plan they were found in.
KeptAnswers == answers

Answers == <<>>

\* rebuild_evaluation_plan: a circuit declares other stages after a change of
\* its equations, at a boundary of the run.
Rebuild ==
    /\ call = "none" /\ plan_revision < Len(model.stages) - 1
    /\ call' = "connect"
    /\ declared' = declared + 1
    /\ plan' = NoPlan
    /\ plan_revision' = plan_revision + 1
    /\ answers' = Answers
    /\ present' = {} /\ synced' = FALSE
    /\ UNCHANGED <<model, group, remaining, inputs_set>>

\* has_external_state_dependency.
Ask ==
    /\ call = "none"
    /\ \E members \in model.asked \ DOMAIN answers :
          answers' = WithValue(answers, members, Reaches(declared, plan, members))
    /\ UNCHANGED <<theModel, plan, group, call, evaluated>>

EvaluationNext ==
    \/ Connect \/ Analyze \/ Condense \/ Sort \/ Collapse \/ Cut
    \/ MakeSolver
    \/ Sync \/ Rhs \/ RhsGroup \/ SyncZoh \/ SetZohInput \/ Run \/ NoConvergence \/ Return
    \/ Rebuild \/ Ask

EvaluationSpec == EvaluationInit /\ [][EvaluationNext]_evaluationVars

----------------------------------------------------------------------------
\* Properties

Reads(subs) ==
    {n \in Nodes(declared) : NodeOwners(declared, n) \cap subs # {}
                             /\ (IsCopy(declared, n) \/ Stages(declared)[n].rhs)}

\* The windowed group reads from outside otherwise than by an input of its own:
\* in a loop, or by a stage of a circuit that is not all in it.
Split(m, p) ==
    \E i \in OwnedBy(m, p, model.windowed) :
        LET op == p.operations[i]
        IN  \/ op.loop
               /\ ~(OperationOwners(m, op) \cup OperationSources(m, op) \subseteq model.windowed)
            \/ \E n \in op.nodes :
                  /\ ~IsCopy(m, n)
                  /\ \/ Stages(m)[n].sub \notin model.windowed
                     \/ \E a \in Stages(m)[n].after : NodeOwners(m, a) \cap model.windowed = {}

\* "output and connected input fields are current when rhs runs" (Subsystem):
\* when a call has done its operations, whatever its caller reads is of the
\* states it loaded and of the held inputs, and inputs kept for a window are
\* those the caller set.
ReadsArePresent ==
    call \in Calls /\ remaining = <<>> =>
        CASE call \in {"sync", "zoh"} -> Nodes(declared) \subseteq present
          [] call = "rhs" -> Reads(model.stateful) \subseteq present
          [] call = "windowed" -> Reads(model.stateful \cap model.windowed) \subseteq present
          [] call = "system" -> Reads(model.stateful \ model.windowed) \subseteq present
          [] call = "feed" -> group.windowed.inputs \subseteq present
          [] call = "own" -> Split(declared, plan)
                             \/ /\ Reads(model.stateful \cap model.windowed) \subseteq present
                                /\ inputs_set = group.windowed.inputs

\* Every operation is a class of nodes that reach each other, it is solved as a
\* loop only if it is cyclic, follows all it depends on, and is torn at copies.
LoopsAreCycles ==
    LET deps == plan.deps
        operations == plan.operations
        Class(n) == {m \in Behind(deps, {n}) : n \in Behind(deps, {m})}
    IN  call = "none" =>
        /\ UNION {operations[i].nodes : i \in DOMAIN operations} = Nodes(declared)
        /\ \A i \in DOMAIN operations :
               /\ \A n \in operations[i].nodes : operations[i].nodes = Class(n)
               /\ operations[i].loop <=>
                     \E n \in operations[i].nodes : deps[n] \cap operations[i].nodes # {}
               /\ operations[i].loop <=> operations[i].tears # {}
               /\ \A n \in operations[i].tears : IsCopy(declared, n)
               /\ \A d \in plan.positions[i] : d < i

\* What was answered about a set of subsystems is so with the present plan:
\* an output of theirs reaches a signal that the derivatives of a stateful
\* subsystem outside use.
AnswersArePresent ==
    LET deps == plan.deps
        used == {n \in Nodes(declared) : \E q \in Behind(deps, {n}) : ReadByRhs(declared, q)}
    IN  \A members \in DOMAIN answers :
            answers[members] <=>
                \E n \in Nodes(declared), m \in used :
                    /\ NodeOwners(declared, n) \cap members # {}
                    /\ NodeOwners(declared, m) \cap External(members) # {}
                    /\ m \in Behind(deps, {n})

(***************************************************************************)
(* The plan, and what was answered from it, are of the model as it is, in  *)
(* any mode and after any number of renewals (_build_evaluation_plan,      *)
(* rebuild_evaluation_plan, has_external_state_dependency).                *)
(***************************************************************************)
PlanIsPresent == LoopsAreCycles /\ AnswersArePresent

=============================================================================
