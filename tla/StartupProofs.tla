---------------------------- MODULE StartupProofs ----------------------------
(***************************************************************************)
(* Proofs about the way from the command line to a running process, for    *)
(* all files and environments, while what was started already runs.        *)
(***************************************************************************)
EXTENDS Temperature, TLAPS

USE StartupAssumption

-----------------------------------------------------------------------------
(* The configuration.                                                      *)

Stages == {"load", "open", "pve", "pbs", "alerter", "serve", "running", "exited", "panicked"}

\* While anything runs, the settings are what Load made of file and
\* environment, and they are valid.
ConfigLoaded ==
  /\ file \in Files /\ env \in Envs /\ stage \in Stages
  /\ Loaded => cfg = WithEnv(FromFile(file), env) /\ Valid(cfg)
  /\ running # {} => stage \notin {"load", "open", "exited"}

LEMMA ConfigFacts ==
  ASSUME ConfigLoaded, Loaded
  PROVE  /\ cfg.pve = IF file.pve = <<>> THEN env.pve ELSE file.pve
         /\ cfg.pbs = IF file.pbs = <<>> THEN env.pbs ELSE file.pbs
         /\ Len(cfg.pve) \in Nat /\ Len(cfg.pbs) \in Nat
         /\ cfg.rules = file.rules
         /\ cfg.pve # <<>> /\ cfg.pool >= 1
         /\ \A r \in Rules : cfg.rules[r] # <<>> => cfg.rules[r][1].limit > 0
<1>1. /\ cfg.pve = IF file.pve = <<>> THEN env.pve ELSE file.pve
      /\ cfg.pbs = IF file.pbs = <<>> THEN env.pbs ELSE file.pbs
      /\ cfg.rules = file.rules
  BY DEF ConfigLoaded, WithEnv, FromFile
<1>2. Len(cfg.pve) \in Nat /\ Len(cfg.pbs) \in Nat
  BY <1>1 DEF ConfigLoaded
<1>3. Valid(cfg)
  BY DEF ConfigLoaded
<1> QED BY <1>1, <1>2, <1>3 DEF Valid

\* Of a step of the whole process, only start-up touches these variables.
LEMMA StepIsStartup ==
  ASSUME [Next]_vars
  PROVE  StartupStep \/ UNCHANGED vars0
BY DEF Next, vars, World, PollPartly, Publish, Measure, Deliver, MeasureFails

LEMMA ConfigStep ==
  ASSUME ConfigLoaded, StartupStep \/ UNCHANGED vars0
  PROVE  ConfigLoaded'
<1> USE DEF ConfigLoaded, Loaded, Stages
<1>1. CASE UNCHANGED vars0
  BY <1>1 DEF vars0
<1>2. CASE LoadConfig
  BY <1>2 DEF LoadConfig
<1>3. CASE LoadFails
  BY <1>3 DEF LoadFails
<1>4. CASE OpenStore
  BY <1>4 DEF OpenStore
<1>5. CASE StartPve \/ AllPveStarted \/ StartPbs \/ StartPruner
  BY <1>5 DEF StartPve, AllPveStarted, StartPbs, StartPruner
<1>6. CASE StartAlerter \/ StartServer
  BY <1>6 DEF StartAlerter, StartServer
<1>7. ASSUME NEW x \in running, Panic(x[1], x[2]) PROVE ConfigLoaded'
  BY <1>7 DEF Panic
<1> QED BY <1>1, <1>2, <1>3, <1>4, <1>5, <1>6, <1>7 DEF StartupStep, Main

-----------------------------------------------------------------------------
(* The rules and the chip.                                                 *)

\* The rules are fit at any time; from the alerter's start on the chip has
\* the alerter's limit.
RulesSet ==
  /\ rules \in [Rules -> Rule] /\ \A r \in Rules : rules[r].limit > 0
  /\ <<"server", 1>> \in running => stage = "running"
  /\ stage \in {"serve", "running"} => chip = rules["backup_stale"].limit

LEMMA RuleFits ==
  ASSUME ConfigLoaded, Loaded, NEW r \in Rules
  PROVE  RuleOf(r) \in Rule /\ RuleOf(r).limit > 0
<1>1. CASE cfg.rules[r] = <<>>
  BY <1>1 DEF RuleOf
<1>2. CASE cfg.rules[r] # <<>>
  <2>1. cfg.rules[r] \in Seq(Rule)
    BY ConfigFacts DEF ConfigLoaded
  <2>2. cfg.rules[r][1] \in Rule /\ cfg.rules[r][1].limit > 0
    BY <1>2, <2>1, ConfigFacts
  <2>3. DefaultRules[r].severity \in STRING
    BY DEF Rule
  <2>4. PICK rule \in Rule : rule = cfg.rules[r][1]
    BY <2>2
  <2>5. RuleOf(r) = [rule EXCEPT !.severity = IF @ = "" THEN DefaultRules[r].severity ELSE @]
    BY <1>2, <2>4 DEF RuleOf
  <2> QED BY <2>2, <2>3, <2>4, <2>5 DEF Rule
<1> QED BY <1>1, <1>2

LEMMA RulesStep ==
  ASSUME ConfigLoaded, RulesSet, StartupStep \/ UNCHANGED vars0
  PROVE  RulesSet'
<1>1. CASE UNCHANGED vars0
  BY <1>1 DEF vars0, RulesSet
<1>2. CASE LoadConfig \/ LoadFails \/ OpenStore
  BY <1>2 DEF LoadConfig, LoadFails, OpenStore, RulesSet
<1>3. CASE StartPve
  BY <1>3 DEF StartPve, RulesSet
<1>4. CASE AllPveStarted \/ StartPbs \/ StartPruner
  BY <1>4 DEF AllPveStarted, StartPbs, StartPruner, RulesSet
<1>5. CASE StartAlerter
  <2>1. \A r \in Rules : RuleOf(r) \in Rule /\ RuleOf(r).limit > 0
    BY <1>5, RuleFits DEF StartAlerter, Loaded
  <2>2. rules' = [r \in Rules |-> RuleOf(r)] /\ chip' = rules'["backup_stale"].limit
    BY <1>5 DEF StartAlerter, ChipHours
  <2>3. <<"server", 1>> \notin running'
    BY <1>5 DEF StartAlerter, RulesSet
  <2> QED BY <2>1, <2>2, <2>3 DEF RulesSet
<1>6. CASE StartServer
  BY <1>6 DEF StartServer, RulesSet
<1>7. ASSUME NEW x \in running, Panic(x[1], x[2]) PROVE RulesSet'
  BY <1>7 DEF Panic, RulesSet
<1> QED BY <1>1, <1>2, <1>3, <1>4, <1>5, <1>6, <1>7 DEF StartupStep, Main

-----------------------------------------------------------------------------
(* What runs.                                                              *)

\* How far the two loops of main are; a collector runs exactly when its loop
\* has passed its instance.
PveDone(k) == k \in 1..Len(cfg.pve) /\ (stage = "pve" => k < next)
PbsDone(k) == k \in 1..Len(cfg.pbs) /\ stage # "pve" /\ (stage = "pbs" => k < next)

CollectorRuns(k) ==
  /\ <<"pve", k>> \in running <=> PveDone(k)
  /\ <<"temp", k>> \in running <=> PveDone(k) /\ cfg.pve[k].ssh # "" /\ cfg.pve[k].key
  /\ <<"pbs", k>> \in running <=> PbsDone(k)

Starting == stage \in {"pve", "pbs", "alerter", "serve", "running"}

Progress ==
  /\ next \in Nat \ {0}
  /\ ~Starting => running = {}
  /\ stage \in {"load", "open"} => next = 1
  /\ Starting => \A k : CollectorRuns(k)
  /\ stage \in {"alerter", "serve", "running"} => <<"pruner", 1>> \in running
  /\ stage \in {"serve", "running"} => <<"alerter", 1>> \in running

\* The arithmetic of a loop over 1..len that has come to n.
LEMMA LoopSteps ==
  ASSUME NEW len \in Nat, NEW n \in Nat \ {0}, NEW k, n <= len
  PROVE  (k \in 1..len /\ k < n + 1) <=> (k \in 1..len /\ k < n) \/ k = n
OBVIOUS

LEMMA LoopEnds ==
  ASSUME NEW len \in Nat, NEW n \in Nat \ {0}, NEW k, n > len
  PROVE  k \in 1..len => k < n
OBVIOUS

LEMMA CollectorsStep ==
  ASSUME ConfigLoaded, Progress, Main, Starting', NEW k
  PROVE  CollectorRuns(k)'
<1> USE DEF CollectorRuns, PveDone, PbsDone
<1>1. CASE LoadConfig \/ LoadFails
  BY <1>1 DEF LoadConfig, LoadFails, Starting
<1>2. CASE OpenStore
  <2>1. stage = "open" /\ stage' = "pve" /\ UNCHANGED <<cfg, next, running>>
    BY <1>2 DEF OpenStore, Starting
  <2>2. Len(cfg.pve) \in Nat /\ running = {} /\ next = 1
    BY <2>1, ConfigFacts DEF Loaded, Progress, Starting
  <2>3. ~PveDone(k)' /\ ~PbsDone(k)'
    BY <2>1, <2>2
  <2> HIDE DEF PveDone, PbsDone
  <2> QED BY <2>1, <2>2, <2>3
<1>3. ASSUME Starting PROVE CollectorRuns(k)'
  <2>1. CollectorRuns(k) /\ next \in Nat \ {0}
    BY <1>3 DEF Progress
  <2>2. Len(cfg.pve) \in Nat /\ Len(cfg.pbs) \in Nat
    BY <1>3, ConfigFacts DEF Loaded, Starting
  <2>3. CASE StartPve
    <3>1. /\ stage = "pve" /\ next <= Len(cfg.pve)
          /\ next' = next + 1 /\ UNCHANGED <<cfg, stage>>
          /\ running' = running \cup {<<"pve", next>>}
               \cup (IF cfg.pve[next].ssh # "" /\ cfg.pve[next].key THEN {<<"temp", next>>} ELSE {})
      BY <2>3 DEF StartPve
    <3>2. PveDone(k)' <=> PveDone(k) \/ k = next
      <4>1. PveDone(k)' <=> k \in 1..Len(cfg.pve) /\ k < next + 1
        BY <3>1
      <4>2. PveDone(k) <=> k \in 1..Len(cfg.pve) /\ k < next
        BY <3>1
      <4> HIDE DEF PveDone
      <4> QED BY <2>1, <2>2, <3>1, <4>1, <4>2, LoopSteps
    <3>3. <<"pve", k>> \in running' <=> <<"pve", k>> \in running \/ k = next
      BY <3>1
    <3>4. <<"temp", k>> \in running' <=>
             <<"temp", k>> \in running \/ (k = next /\ cfg.pve[k].ssh # "" /\ cfg.pve[k].key)
      BY <3>1
    <3>5. <<"pbs", k>> \in running' <=> <<"pbs", k>> \in running
      BY <3>1
    <3> HIDE DEF PveDone
    <3> QED BY <2>1, <3>1, <3>2, <3>3, <3>4, <3>5
  <2>4. CASE AllPveStarted
    <3>1. /\ stage = "pve" /\ next > Len(cfg.pve) /\ stage' = "pbs" /\ next' = 1
          /\ UNCHANGED <<cfg, running>>
      BY <2>4 DEF AllPveStarted
    <3>2. PveDone(k)' <=> PveDone(k)
      <4>1. k \in 1..Len(cfg.pve) => k < next
        BY <2>1, <2>2, <3>1, LoopEnds
      <4> QED BY <3>1, <4>1
    <3>3. ~PbsDone(k)' /\ ~PbsDone(k)
      BY <2>2, <3>1
    <3> HIDE DEF PveDone, PbsDone
    <3> QED BY <2>1, <3>1, <3>2, <3>3
  <2>5. CASE StartPbs
    <3>1. /\ stage = "pbs" /\ next <= Len(cfg.pbs) /\ next' = next + 1 /\ UNCHANGED <<cfg, stage>>
          /\ running' = running \cup {<<"pbs", next>>}
      BY <2>5 DEF StartPbs
    <3>2. PbsDone(k)' <=> PbsDone(k) \/ k = next
      <4>1. PbsDone(k)' <=> k \in 1..Len(cfg.pbs) /\ k < next + 1
        BY <3>1
      <4>2. PbsDone(k) <=> k \in 1..Len(cfg.pbs) /\ k < next
        BY <3>1
      <4> HIDE DEF PbsDone
      <4> QED BY <2>1, <2>2, <3>1, <4>1, <4>2, LoopSteps
    <3>3. PveDone(k)' <=> PveDone(k)
      BY <3>1
    <3>4. <<"pbs", k>> \in running' <=> <<"pbs", k>> \in running \/ k = next
      BY <3>1
    <3>5. /\ <<"pve", k>> \in running' <=> <<"pve", k>> \in running
          /\ <<"temp", k>> \in running' <=> <<"temp", k>> \in running
      BY <3>1
    <3> HIDE DEF PveDone, PbsDone
    <3> QED BY <2>1, <3>1, <3>2, <3>3, <3>4, <3>5
  <2>6. CASE StartPruner
    <3>1. /\ stage = "pbs" /\ next > Len(cfg.pbs) /\ stage' = "alerter" /\ UNCHANGED cfg
          /\ running' = running \cup {<<"pruner", 1>>}
      BY <2>6 DEF StartPruner
    <3>2. PbsDone(k)' <=> PbsDone(k)
      <4>1. k \in 1..Len(cfg.pbs) => k < next
        BY <2>1, <2>2, <3>1, LoopEnds
      <4> QED BY <3>1, <4>1
    <3>3. PveDone(k)' <=> PveDone(k)
      BY <3>1
    <3>4. \A kind \in {"pve", "temp", "pbs"} : <<kind, k>> \in running' <=> <<kind, k>> \in running
      BY <3>1
    <3> HIDE DEF PveDone, PbsDone
    <3> QED BY <2>1, <3>1, <3>2, <3>3, <3>4
  <2>7. CASE StartAlerter
    <3>1. /\ stage = "alerter" /\ stage' = "serve" /\ UNCHANGED cfg
          /\ running' = running \cup {<<"alerter", 1>>}
      BY <2>7 DEF StartAlerter
    <3> QED BY <2>1, <3>1
  <2>8. CASE StartServer
    <3>1. /\ stage = "serve" /\ stage' = "running" /\ UNCHANGED cfg
          /\ running' = running \cup {<<"server", 1>>}
      BY <2>8 DEF StartServer
    <3> QED BY <2>1, <3>1
  <2>9. ~(LoadConfig \/ LoadFails \/ OpenStore)
    BY <1>3 DEF LoadConfig, LoadFails, OpenStore, Starting
  <2> QED BY <2>3, <2>4, <2>5, <2>6, <2>7, <2>8, <2>9 DEF Main
<1>4. CASE ~Starting /\ ~(LoadConfig \/ LoadFails \/ OpenStore)
  BY <1>4 DEF Starting, Main, StartPve, AllPveStarted, StartPbs, StartPruner, StartAlerter, StartServer
<1> QED BY <1>1, <1>2, <1>3, <1>4

LEMMA ProgressStep ==
  ASSUME ConfigLoaded, Progress, StartupStep \/ UNCHANGED vars0
  PROVE  Progress'
<1>1. CASE UNCHANGED vars0
  BY <1>1 DEF vars0, Progress, Starting, CollectorRuns, PveDone, PbsDone
<1>2. CASE Main
  <2>1. Starting' => \A k : CollectorRuns(k)'
    BY <1>2, CollectorsStep
  <2>2. next' = next \/ next' = next + 1 \/ next' = 1
    BY <1>2 DEF Main, LoadConfig, LoadFails, OpenStore, StartPve, AllPveStarted, StartPbs,
         StartPruner, StartAlerter, StartServer
  <2>3. next' \in Nat \ {0}
    BY <2>2 DEF Progress
  <2>4. CASE LoadConfig \/ LoadFails \/ OpenStore
    BY <2>1, <2>3, <2>4 DEF LoadConfig, LoadFails, OpenStore, Progress, Starting
  <2>5. CASE StartPve \/ AllPveStarted \/ StartPbs \/ StartPruner \/ StartAlerter \/ StartServer
    <3>1. Starting' /\ stage' \notin {"load", "open"}
      BY <2>5 DEF StartPve, AllPveStarted, StartPbs, StartPruner, StartAlerter, StartServer, Starting
    <3>2. /\ stage' \in {"alerter", "serve", "running"} => <<"pruner", 1>> \in running'
          /\ stage' \in {"serve", "running"} => <<"alerter", 1>> \in running'
      BY <2>5 DEF StartPve, AllPveStarted, StartPbs, StartPruner, StartAlerter, StartServer, Progress
    <3> QED BY <2>1, <2>3, <3>1, <3>2 DEF Progress
  <2> QED BY <1>2, <2>4, <2>5 DEF Main
<1>3. ASSUME NEW x \in running, Panic(x[1], x[2]) PROVE Progress'
  BY <1>3 DEF Panic, Progress, Starting
<1> QED BY <1>1, <1>2, <1>3 DEF StartupStep

-----------------------------------------------------------------------------
(* The ticker.                                                             *)

\* The interval of an instance of the environment is positive, and one left
\* out is replaced: only a negative one of the file remains.
LEMMA BadInterval ==
  ASSUME ConfigLoaded, Progress, NEW x \in running, Panic(x[1], x[2])
  PROVE  \/ \E k \in 1..Len(file.pve) : file.pve[k].interval < 0
         \/ \E k \in 1..Len(file.pbs) : file.pbs[k].interval < 0
<1> DEFINE k == x[2]
<1>1. Loaded /\ Starting
  BY DEF Progress, Loaded, Starting
<1>2. /\ <<x[1], k>> \in running /\ x[1] \in {"pve", "pbs"}
      /\ IntervalOf(Ticks(x[1])[k]) <= 0
  BY DEF Panic
<1>3. CASE x[1] = "pve"
  <2>1. k \in 1..Len(cfg.pve) /\ IntervalOf(cfg.pve[k]) <= 0
    BY <1>1, <1>2, <1>3 DEF Progress, CollectorRuns, PveDone, Ticks
  <2>2. cfg.pve = file.pve \/ cfg.pve = env.pve
    BY <1>1, ConfigFacts
  <2>3. cfg.pve[k].interval \in Int /\ (cfg.pve = env.pve => cfg.pve[k].interval > 0)
    BY <2>1, <2>2 DEF ConfigLoaded, IsInstance
  <2>4. cfg.pve[k].interval < 0
    BY <2>1, <2>3 DEF IntervalOf
  <2> QED BY <2>1, <2>2, <2>3, <2>4
<1>4. CASE x[1] = "pbs"
  <2>1. k \in 1..Len(cfg.pbs) /\ IntervalOf(cfg.pbs[k]) <= 0
    BY <1>1, <1>2, <1>4 DEF Progress, CollectorRuns, PbsDone, Ticks
  <2>2. cfg.pbs = file.pbs \/ cfg.pbs = env.pbs
    BY <1>1, ConfigFacts
  <2>3. cfg.pbs[k].interval \in Int /\ (cfg.pbs = env.pbs => cfg.pbs[k].interval > 0)
    BY <2>1, <2>2 DEF ConfigLoaded, IsInstance
  <2>4. cfg.pbs[k].interval < 0
    BY <2>1, <2>3 DEF IntervalOf
  <2> QED BY <2>1, <2>2, <2>3, <2>4
<1> QED BY <1>2, <1>3, <1>4

LEMMA PanicStep ==
  ASSUME ConfigLoaded, Progress, OnlyNegativeIntervalsPanic, StartupStep \/ UNCHANGED vars0
  PROVE  OnlyNegativeIntervalsPanic'
<1>1. file' = file
  BY DEF StartupStep, Main, LoadConfig, LoadFails, OpenStore, StartPve, AllPveStarted, StartPbs,
       StartPruner, StartAlerter, StartServer, Panic, vars0
<1>2. CASE \E x \in running : Panic(x[1], x[2])
  BY <1>1, <1>2, BadInterval DEF OnlyNegativeIntervalsPanic
<1>3. CASE Main
  <2>1. stage' # "panicked"
    BY <1>3 DEF Main, LoadConfig, LoadFails, OpenStore, StartPve, AllPveStarted, StartPbs,
         StartPruner, StartAlerter, StartServer
  <2> QED BY <2>1 DEF OnlyNegativeIntervalsPanic
<1>4. CASE UNCHANGED vars0
  BY <1>4 DEF vars0, OnlyNegativeIntervalsPanic
<1> QED BY <1>2, <1>3, <1>4 DEF StartupStep

-----------------------------------------------------------------------------
(* The theorems.                                                           *)

IInv == ConfigLoaded /\ RulesSet /\ Progress /\ OnlyNegativeIntervalsPanic

LEMMA Inductive == Spec => []IInv
<1>1. Init => IInv
  BY DEF Init, Init0, IInv, ConfigLoaded, Loaded, Stages, RulesSet, Progress, Starting,
       OnlyNegativeIntervalsPanic
<1>2. IInv /\ [Next]_vars => IInv'
  BY StepIsStartup, ConfigStep, RulesStep, ProgressStep, PanicStep DEF IInv
<1> QED BY <1>1, <1>2, PTL DEF Spec

\* No process runs with a pool without slots, without an instance, or with a
\* rule whose limit is not positive, whatever file and environment say.
THEOREM SettingsFit == Spec => []PoolAndRulesFit
<1>1. IInv => PoolAndRulesFit
  BY ConfigFacts DEF IInv, RulesSet, PoolAndRulesFit
<1> QED BY <1>1, Inductive, PTL

\* The chip and the alerter agree about every backup, for any limits.
THEOREM ChipAgrees == Spec => []ChipMatchesAlerter
<1>1. IInv => ChipMatchesAlerter
  BY DEF IInv, RulesSet, ChipMatchesAlerter, BackupStatusLabel, BackupIsStale
<1> QED BY <1>1, Inductive, PTL

\* Each configured instance is collected once main says so, for any number of
\* them, whichever the store did not register.
THEOREM EverythingStarts == Spec => []AllStarted
<1>1. ASSUME IInv, stage = "running"
      PROVE  /\ \A k \in 1..Len(file.pve) :
                  /\ <<"pve", k>> \in running /\ cfg.pve[k] = file.pve[k]
                  /\ (<<"temp", k>> \in running) <=> (file.pve[k].ssh # "" /\ file.pve[k].key)
             /\ \A k \in 1..Len(file.pbs) : <<"pbs", k>> \in running /\ cfg.pbs[k] = file.pbs[k]
             /\ {<<"pruner", 1>>, <<"alerter", 1>>} \subseteq running
  <2>1. ConfigLoaded /\ Loaded /\ Progress
    BY <1>1 DEF IInv, Loaded
  <2>2. ASSUME NEW k \in 1..Len(file.pve) PROVE cfg.pve = file.pve
    BY <2>1, ConfigFacts
  <2>3. ASSUME NEW k \in 1..Len(file.pbs) PROVE cfg.pbs = file.pbs
    BY <2>1, ConfigFacts
  <2> QED BY <1>1, <2>1, <2>2, <2>3 DEF Progress, Starting, CollectorRuns, PveDone, PbsDone
<1>2. IInv => AllStarted
  BY <1>1 DEF AllStarted
<1> QED BY <1>2, Inductive, PTL

\* A process dies of a ticker only over a negative interval in the file.
THEOREM OnlyNegativePanic == Spec => []OnlyNegativeIntervalsPanic
BY Inductive, PTL DEF IInv

-----------------------------------------------------------------------------
(* The types of the running process.                                       *)

HIDE StartupAssumption

\* How many instances there are and how far the loops of main may count.
Counted ==
  /\ Len(cfg.pve) \in 0..MaxInstances /\ Len(cfg.pbs) \in 0..MaxInstances
  /\ next \in 1..Len(cfg.pve) + Len(cfg.pbs) + 1

\* What main registers, starts and tells the dashboard.
RunningTyped ==
  /\ registered \subseteq {"pve", "pbs"} \X STRING
  /\ running \subseteq {"pve", "temp", "pbs", "pruner", "alerter", "server"} \X (1..MaxInstances)
  /\ chip \in Nat

\* The cluster, the cache and the SSH sessions.
WorldTyped ==
  /\ real \in [Nodes -> Temps] /\ online \subseteq Nodes
  /\ nodes \in [Names -> NodeMaps]
  /\ \A i \in Names : DOMAIN nodes[i] \subseteq NodesAt[i]
  /\ probe \in [1..MaxInstances -> Temps \cup {None}]

\* Whoever wrote them, the instances that Load returns have their nodes.
LEMMA LoadedInstances ==
  ASSUME NEW f \in Files, NEW e \in Envs, NEW c, c = WithEnv(FromFile(f), e)
  PROVE  /\ HasNodes(c.pve) /\ \A k \in 1..Len(c.pve) : IsInstance(c.pve[k])
         /\ HasNodes(c.pbs) /\ \A k \in 1..Len(c.pbs) : IsInstance(c.pbs[k])
         /\ Len(c.pve) \in 0..MaxInstances /\ Len(c.pbs) \in 0..MaxInstances
<1>1. \A x \in {f, e} :
        /\ HasNodes(x.pve) /\ \A k \in 1..Len(x.pve) : IsInstance(x.pve[k])
        /\ HasNodes(x.pbs) /\ \A k \in 1..Len(x.pbs) : IsInstance(x.pbs[k])
        /\ Len(x.pve) \in Nat /\ Len(x.pbs) \in Nat
  BY StartupAssumption, TemperatureAssumption
<1>2. (c.pve = f.pve \/ c.pve = e.pve) /\ (c.pbs = f.pbs \/ c.pbs = e.pbs)
  BY DEF WithEnv, FromFile
<1>3. /\ HasNodes(c.pve) /\ \A k \in 1..Len(c.pve) : IsInstance(c.pve[k])
      /\ HasNodes(c.pbs) /\ \A k \in 1..Len(c.pbs) : IsInstance(c.pbs[k])
      /\ Len(c.pve) \in Nat /\ Len(c.pbs) \in Nat
  BY <1>1, <1>2
<1>4. ASSUME NEW s, HasNodes(s), Len(s) \in Nat PROVE Len(s) \in 0..MaxInstances
  <2>1. Len(s) <= MaxInstances /\ MaxInstances \in Nat
    BY <1>4, TemperatureAssumption DEF HasNodes
  <2> QED BY <1>4, <2>1
<1> QED BY <1>3, <1>4

LEMMA InstancesHaveNodes ==
  ASSUME ConfigLoaded, Loaded
  PROVE  /\ HasNodes(cfg.pve) /\ \A k \in 1..Len(cfg.pve) : IsInstance(cfg.pve[k])
         /\ HasNodes(cfg.pbs) /\ \A k \in 1..Len(cfg.pbs) : IsInstance(cfg.pbs[k])
         /\ Len(cfg.pve) \in 0..MaxInstances /\ Len(cfg.pbs) \in 0..MaxInstances
<1>1. file \in Files /\ env \in Envs /\ cfg = WithEnv(FromFile(file), env)
  BY DEF ConfigLoaded
<1> QED BY <1>1, LoadedInstances

\* The next instance of a loop over p or q of them.
LEMMA NextCounts ==
  ASSUME NEW p \in 0..MaxInstances, NEW q \in 0..MaxInstances, NEW n \in 1..p + q + 1,
         NEW m, m = 1 \/ m = n \/ (m = n + 1 /\ (n <= p \/ n <= q))
  PROVE  m \in 1..p + q + 1
<1>1. MaxInstances \in Nat
  BY TemperatureAssumption
<1> QED BY <1>1

LEMMA CountedStep ==
  ASSUME ConfigLoaded, Progress, Counted, StartupStep \/ UNCHANGED vars0
  PROVE  Counted'
<1> DEFINE p == Len(cfg.pve)  q == Len(cfg.pbs)
<1>1. CASE LoadConfig
  <2>1. file \in Files /\ env \in Envs /\ cfg' = WithEnv(FromFile(file), env)
    BY <1>1 DEF LoadConfig, ConfigLoaded
  <2>2. p' \in 0..MaxInstances /\ q' \in 0..MaxInstances
    BY <2>1, LoadedInstances
  <2>3. next' = 1
    BY <1>1 DEF LoadConfig, Progress
  <2>4. next' \in 1..p' + q' + 1
    <3> HIDE DEF p, q
    <3>1. 1 \in 1..p' + q' + 1
      BY <2>2, TemperatureAssumption
    <3> QED BY <2>3, <3>1
  <2> QED BY <2>2, <2>4 DEF Counted
<1>2. CASE ~LoadConfig
  <2>1. cfg' = cfg
    BY <1>2 DEF StartupStep, Main, LoadFails, OpenStore, StartPve, AllPveStarted, StartPbs,
         StartPruner, StartAlerter, StartServer, Panic, vars0
  <2>2. next' = 1 \/ next' = next \/ (next' = next + 1 /\ (next <= p \/ next <= q))
    BY <1>2 DEF StartupStep, Main, LoadFails, OpenStore, StartPve, AllPveStarted, StartPbs,
         StartPruner, StartAlerter, StartServer, Panic, vars0
  <2>3. p \in 0..MaxInstances /\ q \in 0..MaxInstances /\ next \in 1..p + q + 1
    BY DEF Counted
  <2>4. next' \in 1..p + q + 1
    <3> HIDE DEF p, q
    <3> QED BY <2>2, <2>3, NextCounts
  <2> QED BY <2>1, <2>3, <2>4 DEF Counted
<1> QED BY <1>1, <1>2

LEMMA RunningTypedStep ==
  ASSUME ConfigLoaded, RulesSet', Counted, RunningTyped, StartupStep \/ UNCHANGED vars0
  PROVE  RunningTyped'
<1>0. 1 \in 1..MaxInstances
  <2>1. MaxInstances \in Nat \ {0}
    BY TemperatureAssumption
  <2> QED BY <2>1
<1>1. CASE UNCHANGED vars0
  BY <1>1 DEF vars0, RunningTyped
<1>2. CASE LoadConfig \/ LoadFails \/ OpenStore \/ AllPveStarted
  BY <1>2 DEF LoadConfig, LoadFails, OpenStore, AllPveStarted, RunningTyped
<1>3. ASSUME NEW n, NEW p, p \in 0..MaxInstances, n \in 1..p PROVE n \in 1..MaxInstances
  <2>1. MaxInstances \in Nat
    BY TemperatureAssumption
  <2> QED BY <1>3, <2>1
<1>4. next \in Nat \ {0} /\ Len(cfg.pve) \in 0..MaxInstances /\ Len(cfg.pbs) \in 0..MaxInstances
  BY TemperatureAssumption DEF Counted
<1>5. CASE StartPve
  <2>1. next \in 1..Len(cfg.pve)
    <3>1. next <= Len(cfg.pve)
      BY <1>5 DEF StartPve
    <3>2. Len(cfg.pve) \in Nat
      BY <1>4
    <3> QED BY <1>4, <3>1, <3>2
  <2>2. next \in 1..MaxInstances /\ cfg.pve[next].name \in STRING
    <3>1. Loaded
      BY <1>5 DEF StartPve, Loaded
    <3>2. IsInstance(cfg.pve[next])
      BY <2>1, <3>1, InstancesHaveNodes
    <3> QED BY <1>3, <1>4, <2>1, <3>2 DEF IsInstance
  <2>3. registered' \subseteq registered \cup {<<"pve", cfg.pve[next].name>>}
    BY <1>5 DEF StartPve, Register
  <2>4. running' \subseteq running \cup {<<"pve", next>>, <<"temp", next>>} /\ chip' = chip
    BY <1>5 DEF StartPve
  <2> QED BY <2>2, <2>3, <2>4 DEF RunningTyped
<1>6. CASE StartPbs
  <2>1. next \in 1..Len(cfg.pbs)
    BY <1>4, <1>6 DEF StartPbs
  <2>2. next \in 1..MaxInstances /\ cfg.pbs[next].name \in STRING
    <3>1. Loaded
      BY <1>6 DEF StartPbs, Loaded
    <3>2. IsInstance(cfg.pbs[next])
      BY <2>1, <3>1, InstancesHaveNodes
    <3> QED BY <1>3, <1>4, <2>1, <3>2 DEF IsInstance
  <2>3. registered' \subseteq registered \cup {<<"pbs", cfg.pbs[next].name>>}
    BY <1>6 DEF StartPbs, Register
  <2>4. running' = running \cup {<<"pbs", next>>} /\ chip' = chip
    BY <1>6 DEF StartPbs
  <2> QED BY <2>2, <2>3, <2>4 DEF RunningTyped
<1>7. CASE StartPruner \/ StartServer
  BY <1>0, <1>7 DEF StartPruner, StartServer, RunningTyped
<1>8. CASE StartAlerter
  <2>1. rules'["backup_stale"] \in Rule /\ rules'["backup_stale"].limit > 0
    BY StartupAssumption DEF RulesSet
  <2>2. chip' = rules'["backup_stale"].limit
    BY <1>8 DEF StartAlerter, ChipHours
  <2>3. chip' \in Nat
    BY <2>1, <2>2 DEF Rule
  <2> QED BY <1>0, <1>8, <2>3 DEF StartAlerter, RunningTyped
<1>9. ASSUME NEW x \in running, Panic(x[1], x[2]) PROVE RunningTyped'
  BY <1>9 DEF Panic, RunningTyped
<1> QED BY <1>1, <1>2, <1>5, <1>6, <1>7, <1>8, <1>9 DEF StartupStep, Main

\* A running collector is that of a configured instance.
LEMMA CollectorKnown ==
  ASSUME ConfigLoaded, Progress, RunningTyped, NEW kind \in {"pve", "temp"}, NEW k, <<kind, k>> \in running
  PROVE  /\ k \in 1..MaxInstances /\ NameOf(k) \in Names
         /\ kind = "temp" => cfg.pve[k].ssh \in Nodes
<1>1. Starting /\ Loaded
  BY DEF Progress, Starting, Loaded
<1>2. k \in 1..Len(cfg.pve) /\ (kind = "temp" => cfg.pve[k].ssh # "")
  BY <1>1 DEF Progress, CollectorRuns, PveDone
<1>3. HasNodes(cfg.pve) /\ MaxInstances \in Nat
  BY <1>1, InstancesHaveNodes, TemperatureAssumption
<1> QED BY <1>2, <1>3 DEF HasNodes, NameOf, Names, RunningTyped

\* A map of some of an instance's nodes in place of what is there.
LEMMA NodesReplaced ==
  ASSUME WorldTyped, NEW i \in Names, NEW listed \in SUBSET NodesAt[i],
         NEW f \in [listed -> Temps \cup {None}], nodes' = [nodes EXCEPT ![i] = f]
  PROVE  /\ nodes' \in [Names -> NodeMaps]
         /\ \A j \in Names : DOMAIN nodes'[j] \subseteq NodesAt[j]
<1>1. listed \in SUBSET Nodes
  BY TemperatureAssumption DEF Names
<1>2. f \in NodeMaps
  BY <1>1 DEF NodeMaps
<1> QED BY <1>2 DEF WorldTyped

LEMMA WorldTypedStep ==
  ASSUME ConfigLoaded, Progress, RunningTyped, WorldTyped, [Next]_vars
  PROVE  WorldTyped'
<1>1. CASE UNCHANGED <<real, online, nodes, probe>>
  BY <1>1 DEF WorldTyped
<1>2. ASSUME NEW n \in Nodes, World(n) PROVE WorldTyped'
  <2>1. real' \in [Nodes -> Temps] /\ online' \subseteq Nodes /\ UNCHANGED <<nodes, probe>>
    BY <1>2 DEF World, WorldTyped
  <2> QED BY <2>1 DEF WorldTyped
<1>3. ASSUME NEW k, PollPartly(k) PROVE WorldTyped'
  <2>1. NameOf(k) \in Names
    BY <1>3, CollectorKnown DEF PollPartly, Publish
  <2>2. PICK listed \in SUBSET NodesAt[NameOf(k)] : Publish(k, listed)
    BY <1>3 DEF PollPartly, Online
  <2>3. [n \in listed |-> None] \in [listed -> Temps \cup {None}]
    OBVIOUS
  <2>4. /\ nodes' = [nodes EXCEPT ![NameOf(k)] = [n \in listed |-> None]]
        /\ UNCHANGED <<real, online, probe>>
    BY <2>2 DEF Publish
  <2>5. /\ nodes' \in [Names -> NodeMaps]
        /\ \A j \in Names : DOMAIN nodes'[j] \subseteq NodesAt[j]
    BY <2>1, <2>3, <2>4, NodesReplaced
  <2> QED BY <2>4, <2>5 DEF WorldTyped
<1>4. ASSUME NEW k, Measure(k) PROVE WorldTyped'
  <2>1. k \in 1..MaxInstances /\ cfg.pve[k].ssh \in Nodes
    BY <1>4, CollectorKnown DEF Measure
  <2> QED BY <1>4, <2>1 DEF Measure, WorldTyped
<1>5. ASSUME NEW k, Deliver(k) PROVE WorldTyped'
  <2> DEFINE name == NameOf(k)
             f == [nodes[name] EXCEPT ![name] = probe[k]]
  <2>1. k \in 1..MaxInstances /\ name \in Names
    BY <1>5, CollectorKnown DEF Deliver
  <2>2. probe' \in [1..MaxInstances -> Temps \cup {None}] /\ UNCHANGED <<real, online>>
    BY <1>5 DEF Deliver, WorldTyped
  <2>3. CASE name \notin DOMAIN nodes[name]
    BY <1>5, <2>2, <2>3 DEF Deliver, WorldTyped
  <2>4. CASE name \in DOMAIN nodes[name]
    <3>1. PICK listed \in SUBSET Nodes : nodes[name] \in [listed -> Temps \cup {None}]
      BY <2>1 DEF WorldTyped, NodeMaps
    <3>2. listed \in SUBSET NodesAt[name]
      BY <2>1, <3>1 DEF WorldTyped
    <3>3. f \in [listed -> Temps \cup {None}]
      BY <2>1, <3>1 DEF WorldTyped
    <3>4. nodes' = [nodes EXCEPT ![name] = f]
      BY <1>5, <2>4, <2>1 DEF Deliver, WorldTyped
    <3>5. /\ nodes' \in [Names -> NodeMaps]
          /\ \A j \in Names : DOMAIN nodes'[j] \subseteq NodesAt[j]
      BY <2>1, <3>2, <3>3, <3>4, NodesReplaced
    <3> QED BY <2>2, <3>5 DEF WorldTyped
  <2> QED BY <2>3, <2>4
<1>6. ASSUME NEW k, MeasureFails(k) PROVE WorldTyped'
  BY <1>6 DEF MeasureFails, WorldTyped
<1> QED BY <1>1, <1>2, <1>3, <1>4, <1>5, <1>6 DEF Next, vars

\* Every value is of its type, and no instance's part of the cache holds a node
\* that is not the instance's, for any files, environments and nodes: what a
\* session delivers late goes nowhere else (UpdateNodeTemperature, Load, main).
THEOREM TypeCorrect == Spec => []TypeOK
<1> DEFINE Typed == Counted /\ RunningTyped /\ WorldTyped
<1>1. Init => Typed
  <2> SUFFICES ASSUME Init PROVE Typed
    OBVIOUS
  <2>1. Counted
    <3>1. Len(cfg.pve) = 0 /\ Len(cfg.pbs) = 0 /\ next = 1
      BY DEF Init, Init0, NoConfig
    <3>2. MaxInstances \in Nat
      BY TemperatureAssumption
    <3> QED BY <3>1, <3>2 DEF Counted
  <2>2. RunningTyped
    BY StartupAssumption DEF Init, Init0, RunningTyped
  <2>3. WorldTyped
    <3>1. [n \in {} |-> None] \in [{} -> Temps \cup {None}]
      OBVIOUS
    <3>2. [n \in {} |-> None] \in NodeMaps
      BY <3>1 DEF NodeMaps
    <3> QED BY <3>2 DEF Init, WorldTyped
  <2> QED BY <2>1, <2>2, <2>3
<1>2. IInv /\ IInv' /\ Typed /\ [Next]_vars => Typed'
  BY StepIsStartup, CountedStep, RunningTypedStep, WorldTypedStep DEF IInv
<1>3. IInv /\ Typed => TypeOK
  BY ConfigFacts DEF IInv, Counted, RunningTyped, WorldTyped, ConfigLoaded, Stages, RulesSet, TypeOK
<1> HIDE DEF Typed
<1> QED BY <1>1, <1>2, <1>3, Inductive, PTL DEF Spec
=============================================================================
