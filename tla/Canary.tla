------------------------------- MODULE Canary -------------------------------
(***************************************************************************)
(* The drift detector: once a day the loop of each process sends fixed     *)
(* prompts to the models in use, records the answers as runs, takes the    *)
(* first Window runs of a model and prompt as its baseline, and raises an  *)
(* alert when later runs stray from it.                                    *)
(*                                                                         *)
(* One model's runs, baselines and alerts are one transaction, and the     *)
(* provider calls are made inside it, so sweeps of two processes and the   *)
(* catalog's administrators interleave with it.  A unique index allows one *)
(* baseline per model and prompt: the second insert waits for the first to *)
(* commit and then ends its sweep.  Latency, refusals and similarity only  *)
(* decide whether an alert is raised, which is left open here.             *)
(***************************************************************************)
EXTENDS ModelCatalog

CONSTANTS
    ActiveModels,        \* models with requests in the last seven days, sorted
    Prompts,             \* the enabled canary prompts
    Console,             \* bound: the processes calls reach, and that restart
    PerTick,             \* _CANARY_MAX_MODELS_PER_TICK
    Window,              \* _BASELINE_WINDOW_SIZE
    InitialRuns,         \* runs each model and prompt has at the start
    MaxRuns              \* bound

Models == {ActiveModels[i] : i \in DOMAIN ActiveModels}
Sweep == [pc : {"idle", "pick", "ask", "flag"}, todo : Seq(Models),
          ran : SUBSET Prompts, new : SUBSET Prompts, alert : BOOLEAN]
AtRest == [pc |-> "idle", todo |-> <<>>, ran |-> {}, new |-> {}, alert |-> FALSE]

ASSUME CanaryAssumption ==
    /\ ActiveModels \in Seq(Names \cup Registry) /\ Prompts # {} /\ Console \subseteq Procs
    /\ PerTick \in Nat /\ Window \in Nat \ {0} /\ InitialRuns \in Nat /\ MaxRuns \in Nat

VARIABLES
    swept,      \* the processes whose day's sweep has begun
    sweep,
    disabled,   \* canary_model_settings: the models switched off
    runs, baseline, alert

canary == <<swept, sweep, disabled, runs, baseline, alert>>
allVars == <<vars, canary>>

CanaryInit ==
    /\ Init
    /\ swept = {} /\ sweep = [p \in Procs |-> AtRest] /\ disabled = {}
    /\ runs = [n \in Models |-> [q \in Prompts |-> InitialRuns]]
    /\ baseline = [n \in Models |-> {}]
    /\ alert = [n \in Models |-> "none"]

-----------------------------------------------------------------------------
Enabled(n) == n \notin disabled
ThisTick ==
    LET enabled == SelectSeq(ActiveModels, Enabled)
    IN SubSeq(enabled, 1, IF Len(enabled) < PerTick THEN Len(enabled) ELSE PerTick)

\* The day's marker is set before the sweep runs.
StartSweep(p) ==
    /\ p \notin swept /\ sweep[p].pc = "idle"
    /\ ops < MaxOps /\ ops' = ops + 1
    /\ swept' = swept \cup {p}
    /\ sweep' = [sweep EXCEPT ![p].pc = "pick", ![p].todo = ThisTick]
    /\ UNCHANGED <<tables, handler, cache, call, history, disabled, runs, baseline,
                   alert>>

\* The sweep looks models up in the registry and the self-hosted cache only.
CanaryRoute(p, n) ==
    IF n \in Registry THEN Static
    ELSE IF n \in DOMAIN cache[p].hosted THEN cache[p].hosted[n].row
    ELSE None

\* A model with no route, or no credential, is skipped.
PickModel(p) ==
    LET route == CanaryRoute(p, Head(sweep[p].todo)) IN
    /\ sweep[p].pc = "pick"
    /\ sweep' = [sweep EXCEPT ![p] =
           IF @.todo = <<>> THEN AtRest
           ELSE IF route = None \/ (route \in Hosted /\ row[route] = None)
                THEN [@ EXCEPT !.todo = Tail(@)]
           ELSE [@ EXCEPT !.pc = "ask"]]
    /\ UNCHANGED <<vars, swept, disabled, runs, baseline, alert>>

NoCredential(p) ==
    /\ sweep[p].pc = "ask" /\ sweep' = [sweep EXCEPT ![p].pc = "pick", ![p].todo = Tail(@)]
    /\ UNCHANGED <<vars, swept, disabled, runs, baseline, alert>>

\* What the transaction sees: the committed runs and its own.
RunsSeen(p, ran, q) ==
    runs[Head(sweep[p].todo)][q] + (IF q \in ran THEN 1 ELSE 0)

\* Faulty: a run that failed counts.
ReadyForBaseline_AnyRun(p, ran) ==
    {q \in Prompts \ baseline[Head(sweep[p].todo)] : RunsSeen(p, Prompts, q) >= Window}

ReadyForBaseline(p, ran) ==
    {q \in Prompts \ baseline[Head(sweep[p].todo)] : RunsSeen(p, ran, q) >= Window}

\* Nothing is compared when the model has no baseline.
MayFlag(p, ran) == baseline[Head(sweep[p].todo)] \cup ReadyForBaseline(p, ran) # {}

\* The calls: a prompt whose call fails leaves no run, the others get theirs.
RunCanaries(p) ==
    /\ sweep[p].pc = "ask"
    /\ \E ran \in SUBSET Prompts, stray \in BOOLEAN :
        /\ stray => MayFlag(p, ran)
        /\ sweep' = [sweep EXCEPT ![p].pc = "flag", ![p].ran = ran,
                                  ![p].new = ReadyForBaseline(p, ran), ![p].alert = stray]
    /\ UNCHANGED <<vars, swept, disabled, runs, baseline, alert>>

\* Another sweep's baseline for the same model and prompt came first: the
\* insert fails, the transaction is undone and the sweep ends.
CommitModel(p) ==
    LET n == Head(sweep[p].todo) IN
    /\ sweep[p].pc = "flag"
    /\ IF sweep[p].new \cap baseline[n] # {}
       THEN /\ sweep' = [sweep EXCEPT ![p] = AtRest]
            /\ UNCHANGED <<runs, baseline, alert>>
       ELSE /\ \A q \in Prompts : RunsSeen(p, sweep[p].ran, q) <= MaxRuns
            /\ runs' = [runs EXCEPT ![n] = [q \in Prompts |-> RunsSeen(p, sweep[p].ran, q)]]
            /\ baseline' = [baseline EXCEPT ![n] = @ \cup sweep[p].new]
            /\ alert' = [alert EXCEPT ![n] = IF sweep[p].alert THEN "open" ELSE @]
            /\ sweep' = [sweep EXCEPT ![p] = [AtRest EXCEPT !.pc = "pick",
                                                            !.todo = Tail(sweep[p].todo)]]
    /\ UNCHANGED <<vars, swept, disabled>>

\* Anything but a provider's error ends the sweep until the next day.
SweepFails(p) ==
    /\ sweep[p].pc \in {"ask", "flag"}
    /\ sweep' = [sweep EXCEPT ![p] = AtRest]
    /\ UNCHANGED <<vars, swept, disabled, runs, baseline, alert>>

DayPasses(p) ==
    /\ ops < MaxOps /\ ops' = ops + 1
    /\ p \in swept /\ swept' = swept \ {p}
    /\ UNCHANGED <<tables, handler, cache, call, history, sweep, disabled, runs,
                   baseline, alert>>

-----------------------------------------------------------------------------
SetCanaryModelSetting(n) ==
    /\ ops < MaxOps /\ ops' = ops + 1
    /\ \E off \in BOOLEAN : disabled' = IF off THEN disabled \cup {n} ELSE disabled \ {n}
    /\ UNCHANGED <<tables, handler, cache, call, history, swept, sweep, runs,
                   baseline, alert>>

ExportDriftAlert(n) ==
    /\ ops < MaxOps /\ ops' = ops + 1
    /\ alert[n] = "open" /\ alert' = [alert EXCEPT ![n] = "exported"]
    /\ UNCHANGED <<tables, handler, cache, call, history, swept, sweep, disabled,
                   runs, baseline>>

-----------------------------------------------------------------------------
CatalogStep ==
    /\ \/ \E h \in Handlers, p \in Console : Request(h, p)
       \/ \E h \in Handlers : Proceed(h)
       \/ \E c \in Calls, p \in Console : ReceiveCall(c, p)
       \/ \E c \in Calls : CallProceeds(c)
       \/ \E p \in Console : CooldownEnds(p)
    /\ UNCHANGED canary

RestartAll(p) ==
    /\ Restart(p)
    /\ swept' = swept \ {p} /\ sweep' = [sweep EXCEPT ![p] = AtRest]
    /\ UNCHANGED <<disabled, runs, baseline, alert>>

SweepStep(p) ==
    \/ StartSweep(p) \/ PickModel(p) \/ NoCredential(p) \/ RunCanaries(p)
    \/ CommitModel(p) \/ SweepFails(p)

CanaryNext ==
    \/ CatalogStep
    \/ \E p \in Procs : SweepStep(p) \/ DayPasses(p)
    \/ \E p \in Console : RestartAll(p)
    \/ \E n \in Models : SetCanaryModelSetting(n) \/ ExportDriftAlert(n)

CanarySpec == CanaryInit /\ [][CanaryNext]_allVars

-----------------------------------------------------------------------------
\* Sweeps that race, fail or die halfway leave no baseline that fewer than
\* Window committed runs stand for, and no alert without a baseline.
BaselineStandsOnRuns ==
    \A n \in Models :
        /\ \A q \in baseline[n] : runs[n][q] >= Window
        /\ alert[n] # "none" => baseline[n] # {}
=============================================================================
