------------------------------- MODULE Startup -------------------------------
(***************************************************************************)
(* From the command line to a running process (internal/config, main in    *)
(* cmd/glint/main.go): the configuration is built from defaults, the file  *)
(* and the environment, and validated; then main opens the store, starts a *)
(* collector for each instance, and the pruner, the alerter and the server *)
(* with the settings that are theirs, while what it has started runs.      *)
(*                                                                         *)
(* An optional value is a sequence: <<>> when it is not set, <<v>> when it *)
(* is.  A variable that should hold a number and does not is not set.      *)
(***************************************************************************)
EXTENDS Views, Sequences

CONSTANTS
  Files,        \* what -config may name
  Envs,         \* the GLINT_ variables that may be set
  Rules,        \* the alert rules that the file can change
  DefaultRules, \* [Rules -> rule]: DefaultAlertConfig
  DefaultPool,  \* worker_pool_size when nobody sets it
  DefaultPoll,  \* an interval when the file leaves it out
  DefaultStale  \* BackupStaleHours before main sets it

\* An instance of the file: usable when host, token and name are there; an
\* interval of 0 is one left out; ssh is a node, or "" where there is none;
\* key tells whether the SSH key can be read.
IsInstance(i) ==
  /\ i.name \in STRING /\ i.ssh \in STRING
  /\ i.usable \in BOOLEAN /\ i.key \in BOOLEAN
  /\ i.interval \in Int

\* What a rule fires at and how loudly; "" is a severity left out.
Rule == [limit : Int, severity : STRING]

ASSUME StartupAssumption ==
  /\ \A f \in Files :
       /\ f.kind \in {"none", "missing", "broken", "read"}
       /\ Len(f.pve) \in Nat /\ \A k \in 1..Len(f.pve) : IsInstance(f.pve[k])
       /\ Len(f.pbs) \in Nat /\ \A k \in 1..Len(f.pbs) : IsInstance(f.pbs[k])
       /\ f.rules \in [Rules -> Seq(Rule)]
  /\ \A e \in Envs :
       /\ Len(e.pve) \in Nat /\ \A k \in 1..Len(e.pve) : IsInstance(e.pve[k]) /\ e.pve[k].interval > 0
       /\ Len(e.pbs) \in Nat /\ \A k \in 1..Len(e.pbs) : IsInstance(e.pbs[k]) /\ e.pbs[k].interval > 0
  /\ "backup_stale" \in Rules
  /\ DefaultRules \in [Rules -> Rule] /\ \A r \in Rules : DefaultRules[r].limit > 0
  /\ DefaultPool > 0 /\ DefaultPoll \in Nat \ {0} /\ DefaultStale \in Nat

VARIABLES
  file, env,  \* what the operator wrote
  stage,      \* how far main is, or how the process ended
  cfg,        \* what Load returns
  next,       \* the instance that is started next
  registered, \* instances in the store's tables
  running,    \* <<kind, number>> of every goroutine
  rules,      \* the alerter's rules
  chip        \* templates.BackupStaleHours

vars0 == <<file, env, stage, cfg, next, registered, running, rules, chip>>

NoConfig == [pve |-> <<>>, pbs |-> <<>>, pool |-> 0, level |-> "", rules |-> <<>>]

Init0 ==
  /\ file \in Files /\ env \in Envs
  /\ stage = "load" /\ cfg = NoConfig /\ next = 1
  /\ registered = {} /\ running = {}
  /\ rules = DefaultRules /\ chip = DefaultStale

----------------------------------------------------------------------------
(* config.Load *)

OrElse(option, default) == IF option = <<>> THEN default ELSE option[1]

\* yaml.Unmarshal over the defaults: what the file leaves out stays.
FromFile(f) ==
  [pve |-> f.pve, pbs |-> f.pbs, rules |-> f.rules,
   pool |-> OrElse(f.pool, DefaultPool), level |-> OrElse(f.level, "info")]

\* Mutant: the instance of the environment replaces those of the file.
EnvReplaces(c, e) ==
  [c EXCEPT !.pve = IF e.pve # <<>> THEN e.pve ELSE @, !.pbs = IF @ = <<>> THEN e.pbs ELSE @,
            !.pool = OrElse(e.pool, @), !.level = OrElse(e.level, @)]

\* Settings of the environment win; its instances only fill in for none.
WithEnv(c, e) ==
  [c EXCEPT !.pve = IF @ = <<>> THEN e.pve ELSE @, !.pbs = IF @ = <<>> THEN e.pbs ELSE @,
            !.pool = OrElse(e.pool, @), !.level = OrElse(e.level, @)]

\* Validate.  Notifications, log_format and history_hours are checked in the
\* same way and decide nothing here.
Valid(c) ==
  /\ c.pve # <<>>
  /\ \A k \in 1..Len(c.pve) : c.pve[k].usable
  /\ \A k \in 1..Len(c.pbs) : c.pbs[k].usable
  /\ c.level \in {"debug", "info", "warn", "error"}
  /\ c.pool >= 1
  /\ \A r \in Rules : c.rules[r] # <<>> => c.rules[r][1].limit > 0

\* Mutant: the file is validated before the environment has its say.
LoadValidatesFirst ==
  /\ stage = "load" /\ file.kind \in {"none", "read"}
  /\ Valid([FromFile(file) EXCEPT !.pve = IF @ = <<>> THEN env.pve ELSE @])
  /\ cfg' = WithEnv(FromFile(file), env) /\ stage' = "open"
  /\ UNCHANGED <<file, env, next, registered, running, rules, chip>>

LoadConfig ==
  /\ stage = "load" /\ file.kind \in {"none", "read"}
  /\ cfg' = WithEnv(FromFile(file), env) /\ Valid(cfg')
  /\ stage' = "open"
  /\ UNCHANGED <<file, env, next, registered, running, rules, chip>>

\* The file cannot be read or parsed, or makes no usable configuration.
LoadFails ==
  /\ stage = "load"
  /\ file.kind \in {"missing", "broken"} \/ ~Valid(WithEnv(FromFile(file), env))
  /\ stage' = "exited"
  /\ UNCHANGED <<file, env, cfg, next, registered, running, rules, chip>>

----------------------------------------------------------------------------
(* main *)

\* store.New: without a store there is no process.
OpenStore ==
  /\ stage = "open"
  /\ stage' \in {"pve", "exited"}
  /\ UNCHANGED <<file, env, cfg, next, registered, running, rules, chip>>

\* Registering in the store may fail: the error is logged.
Register(kind, k, names) == registered' \in {registered, registered \cup {<<kind, names[k].name>>}}

\* A PVE instance's collector, and its temperature collector if its SSH key
\* can be read.
StartPve ==
  /\ stage = "pve" /\ next <= Len(cfg.pve)
  /\ Register("pve", next, cfg.pve)
  /\ running' =
       running \cup {<<"pve", next>>}
               \cup (IF cfg.pve[next].ssh # "" /\ cfg.pve[next].key THEN {<<"temp", next>>} ELSE {})
  /\ next' = next + 1
  /\ UNCHANGED <<file, env, stage, cfg, rules, chip>>

AllPveStarted ==
  /\ stage = "pve" /\ next > Len(cfg.pve)
  /\ stage' = "pbs" /\ next' = 1
  /\ UNCHANGED <<file, env, cfg, registered, running, rules, chip>>

StartPbs ==
  /\ stage = "pbs" /\ next <= Len(cfg.pbs)
  /\ Register("pbs", next, cfg.pbs)
  /\ running' = running \cup {<<"pbs", next>>}
  /\ next' = next + 1
  /\ UNCHANGED <<file, env, stage, cfg, rules, chip>>

StartPruner ==
  /\ stage = "pbs" /\ next > Len(cfg.pbs)
  /\ running' = running \cup {<<"pruner", 1>>}
  /\ stage' = "alerter"
  /\ UNCHANGED <<file, env, cfg, next, registered, rules, chip>>

\* The rule the file gives, with the default's severity if it gives none.
RuleOf(r) ==
  IF cfg.rules[r] = <<>> THEN DefaultRules[r]
  ELSE [cfg.rules[r][1] EXCEPT !.severity = IF @ = "" THEN DefaultRules[r].severity ELSE @]

\* Mutant: the chip is told of the default, before the file's rules apply.
StaleHours == DefaultRules["backup_stale"].limit

\* What the dashboard is told: the alerter's own max_age.
ChipHours == rules'["backup_stale"].limit

StartAlerter ==
  /\ stage = "alerter"
  /\ rules' = [r \in Rules |-> RuleOf(r)]
  /\ chip' = ChipHours
  /\ running' = running \cup {<<"alerter", 1>>}
  /\ stage' = "serve"
  /\ UNCHANGED <<file, env, cfg, next, registered>>

StartServer ==
  /\ stage = "serve"
  /\ running' = running \cup {<<"server", 1>>}
  /\ stage' = "running"
  /\ UNCHANGED <<file, env, cfg, next, registered, rules, chip>>

\* Mutant: an interval that was left out stays 0.
IntervalAsWritten(i) == i.interval

IntervalOf(i) == IF i.interval = 0 THEN DefaultPoll ELSE i.interval

Ticks(kind) == IF kind = "pve" THEN cfg.pve ELSE cfg.pbs

\* After its first poll a collector makes its ticker: NewTicker panics when
\* the interval is not positive, and the process with it.
Panic(kind, k) ==
  /\ <<kind, k>> \in running /\ kind \in {"pve", "pbs"}
  /\ IntervalOf(Ticks(kind)[k]) <= 0
  /\ stage' = "panicked" /\ running' = {}
  /\ UNCHANGED <<file, env, cfg, next, registered, rules, chip>>

Main ==
  \/ LoadConfig \/ LoadFails \/ OpenStore
  \/ StartPve \/ AllPveStarted \/ StartPbs \/ StartPruner
  \/ StartAlerter \/ StartServer

StartupStep == Main \/ \E x \in running : Panic(x[1], x[2])

----------------------------------------------------------------------------
(* Properties. *)

Loaded == stage \notin {"load", "exited"}

\* No process runs without an instance, with a pool without slots, which takes
\* no work, or with a rule whose limit is not positive, which always or never
\* fires, wherever these settings come from; others, such as a negative interval,
\* are not refused (Load's order, applyEnvOverrides, Validate, collector.go 24).
PoolAndRulesFit ==
  Loaded => cfg.pool >= 1 /\ cfg.pve # <<>> /\ \A r \in Rules : rules[r].limit > 0

\* "the chip shows "Stale" exactly when an alert would fire" (main.go 314):
\* when the server answers, for a backup of any age.
ChipMatchesAlerter ==
  <<"server", 1>> \in running =>
    \A age \in 0..rules["backup_stale"].limit + DefaultStale + 1 :
      (BackupStatusLabel(age, chip) = "Stale") <=> BackupIsStale(age, rules["backup_stale"].limit)

\* When main says that all components are started, each instance that the
\* file configures has its collector, and each readable SSH key its own, no
\* matter what the store refused to register or the environment says
\* (main.go 198-265, config.go 293-330).
AllStarted ==
  stage = "running" =>
    /\ \A k \in 1..Len(file.pve) :
         /\ <<"pve", k>> \in running /\ cfg.pve[k] = file.pve[k]
         /\ (<<"temp", k>> \in running) <=> (file.pve[k].ssh # "" /\ file.pve[k].key)
    /\ \A k \in 1..Len(file.pbs) : <<"pbs", k>> \in running /\ cfg.pbs[k] = file.pbs[k]
    /\ {<<"pruner", 1>>, <<"alerter", 1>>} \subseteq running

\* A process dies of a ticker only over an interval that is negative in the
\* file, which Validate lets pass; one left out is replaced in time (main.go
\* 209-214 and 254, collector.go 55).
OnlyNegativeIntervalsPanic ==
  stage = "panicked" =>
    \/ \E k \in 1..Len(file.pve) : file.pve[k].interval < 0
    \/ \E k \in 1..Len(file.pbs) : file.pbs[k].interval < 0
=============================================================================
