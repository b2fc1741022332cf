------------------------------- MODULE Alerter -------------------------------
(***************************************************************************)
(* The alerter goroutine (internal/alerter/alerter.go): every 30 s it      *)
(* takes a snapshot of the cache, drops old entries of its two maps,       *)
(* evaluates every rule on every subject, and raises an alert for a        *)
(* condition that has been bad for long enough and is not in cooldown.     *)
(*                                                                         *)
(* A key stands for one rule applied to one subject ("guest_down:c/100").  *)
(* Keys of the CPU, memory and guest rules are Held: their condition must  *)
(* last; keys of the backup, disk and datastore rules raise at once.       *)
(*                                                                         *)
(* One unit of time is the 30 s of the alerter's ticker.  lastFired and    *)
(* sustained hold ages rather than instants (module Ages); an evaluation   *)
(* works with the instant it began at, which is `lag' units ago.           *)
(***************************************************************************)
EXTENDS Ages, FiniteSets

CONSTANTS
  Keys,        \* alert keys
  Held,        \* those whose condition must last (CPU, memory, guest)
  Hold,        \* [Held -> units]: duration / grace_period of the rule
  Cooldown,    \* [Keys -> units]: cooldown of the rule
  MaxAge,      \* cleanup's maxAge, 6 h
  NProviders,  \* number of notification providers
  MaxLag,      \* bound: an evaluation lasts at most this long
  AgeCap       \* bound: ages saturate here

Units == Nat \ {0}

ASSUME KeysAssumption == Held \subseteq Keys

\* config.Validate accepts any positive duration; no configuration sets a
\* cooldown, and the built-in ones are at most cleanup's maxAge.
ASSUME RuleAssumption ==
  /\ MaxAge \in Units
  /\ Hold \in [Held -> Units]
  /\ Cooldown \in [Keys -> Units]
  /\ \A k \in Keys : Cooldown[k] <= MaxAge

\* Saturated ages are still told apart from all that is compared with them.
ASSUME BoundAssumption ==
  /\ MaxLag \in Nat /\ AgeCap \in Nat /\ NProviders \in Nat
  /\ AgeCap > MaxAge + MaxLag
  /\ \A k \in Held : AgeCap > Hold[k] + MaxLag

Conditions == {"absent", "ok", "bad"}
Providers == 1..NProviders

VARIABLES
  obs,        \* [Keys -> Conditions]: what the cache says of each subject
  due,        \* a tick waits in the ticker's channel
  todo,       \* the evaluation's snapshot: key -> condition, still to visit
  sending,    \* <<>>, or <<k, p>>: alert k goes to provider p next
  lag,        \* age of the running evaluation's `now'
  lastFired,  \* key -> age: deduplication
  sustained,  \* key -> age: condition first seen bad
  raised,     \* history: key -> age of this process's newest alert
  clear       \* history: <<key, condition>> -> age of the newest evaluation
              \* of this process that saw the key in that (not bad) condition;
              \* its start, when the cache is empty, counts as one

vars == <<obs, due, todo, sending, lag, lastFired, sustained, raised, clear>>

Evaluating == DOMAIN todo # {} \/ sending # <<>>

TypeOK ==
  /\ obs \in [Keys -> Conditions]
  /\ due \in BOOLEAN
  /\ DOMAIN todo \subseteq Keys
  /\ todo \in [DOMAIN todo -> {"ok", "bad"}]
  /\ sending \in {<<>>} \cup (Keys \X Providers)
  /\ lag \in 0..MaxLag
  /\ IsAgeMap(lastFired, Keys, AgeCap)
  /\ IsAgeMap(sustained, Held, AgeCap)
  /\ IsAgeMap(raised, Keys, AgeCap)
  /\ IsAgeMap(clear, Held \X {"absent", "ok"}, AgeCap)

NothingSeen == [x \in Held \X {"absent"} |-> 0]

\* A new process: empty cache, empty maps, no evaluation.
Init ==
  /\ obs = [k \in Keys |-> "absent"]
  /\ due = FALSE
  /\ todo = EmptyMap
  /\ sending = <<>>
  /\ lag = 0
  /\ lastFired = EmptyMap
  /\ sustained = EmptyMap
  /\ raised = EmptyMap
  /\ clear = NothingSeen

-----------------------------------------------------------------------------
\* Collectors replace what the cache says of a subject, at any time.
Observe(k, c) ==
  /\ obs[k] # c
  /\ obs' = [obs EXCEPT ![k] = c]
  /\ UNCHANGED <<due, todo, sending, lag, lastFired, sustained, raised, clear>>

\* 30 s pass; the ticker's channel holds one tick and drops the others.  An
\* idle goroutine takes a waiting tick before the next one comes.
Tick ==
  /\ IF Evaluating THEN lag < MaxLag ELSE ~due
  /\ due' = TRUE
  /\ lag' = IF Evaluating THEN lag + 1 ELSE 0
  /\ lastFired' = Older(lastFired, AgeCap)
  /\ sustained' = Older(sustained, AgeCap)
  /\ raised' = Older(raised, AgeCap)
  /\ clear' = Older(clear, AgeCap)
  /\ UNCHANGED <<obs, todo, sending>>

\* Mutant: one short age for both maps.
CleanupTooSoon ==
  /\ lastFired' = Expire(lastFired, 1)
  /\ sustained' = Expire(sustained, 1)

Cleanup ==
  /\ lastFired' = Expire(lastFired, MaxAge)
  /\ sustained' = Expire(sustained, MaxAge)

\* Mutant: subjects the cache does not hold are visited too.
EvaluateMissing ==
  /\ due /\ ~Evaluating
  /\ due' = FALSE
  /\ todo' = obs
  /\ lag' = 0
  /\ Cleanup
  /\ UNCHANGED <<obs, sending, raised, clear>>

\* evaluate begins: snapshot, now, cleanup.  A subject the cache does not
\* hold is not visited.
Evaluate ==
  /\ due /\ ~Evaluating
  /\ due' = FALSE
  /\ todo' = Restrict(obs, {k \in Keys : obs[k] # "absent"})
  /\ lag' = 0
  /\ Cleanup
  /\ clear' = [x \in DOMAIN clear \cup {<<k, obs[k]>> : k \in {j \in Held : obs[j] # "bad"}}
                 |-> IF obs[x[1]] = x[2] THEN 0 ELSE clear[x]]
  /\ UNCHANGED <<obs, sending, raised>>

InCooldown(k) == k \in DOMAIN lastFired /\ lastFired[k] - lag < Cooldown[k]

\* fire, up to the first Send: deduplicate, stamp, log, address provider 1.
Fire(k) ==
  IF InCooldown(k)
  THEN UNCHANGED <<sending, lastFired, raised>>
  ELSE /\ lastFired' = Put(lastFired, k, lag)
       /\ raised' = Put(raised, k, lag)
       /\ sending' = IF NProviders = 0 THEN <<>> ELSE <<k, 1>>

\* Mutant: a rule that remembers nothing yet fires at once.
HeldBadAtOnce(k) ==
  /\ k \in DOMAIN sustained /\ sustained[k] - lag < Hold[k] =>
        UNCHANGED <<sending, lastFired, raised>>
  /\ k \notin DOMAIN sustained \/ sustained[k] - lag >= Hold[k] => Fire(k)
  /\ sustained' = IF k \in DOMAIN sustained THEN sustained ELSE Put(sustained, k, lag)

\* A held rule meets a bad condition: raise if it has lasted, else remember.
HeldBad(k) ==
  IF k \in DOMAIN sustained
  THEN /\ sustained[k] - lag >= Hold[k] => Fire(k)
       /\ sustained[k] - lag < Hold[k] => UNCHANGED <<sending, lastFired, raised>>
       /\ UNCHANGED sustained
  ELSE /\ sustained' = Put(sustained, k, lag)
       /\ UNCHANGED <<sending, lastFired, raised>>

\* Mutant: the entry survives the condition.
ClearedButKept(k) == k \in Keys /\ UNCHANGED <<sustained, sending, lastFired, raised>>

Cleared(k) ==
  /\ sustained' = Drop(sustained, k)
  /\ UNCHANGED <<sending, lastFired, raised>>

\* One rule on one subject, in the body of evaluate's loops.
Check(k) ==
  /\ sending = <<>>
  /\ k \in DOMAIN todo
  /\ todo' = Drop(todo, k)
  /\ \/ todo[k] = "bad" /\ k \in Held /\ HeldBad(k)
     \/ todo[k] = "bad" /\ k \notin Held /\ Fire(k) /\ UNCHANGED sustained
     \/ todo[k] = "ok" /\ Cleared(k)
  /\ UNCHANGED <<obs, due, lag, clear>>

\* Mutant: fire returns at the first provider that fails.
SendStopsAtError ==
  /\ sending # <<>>
  /\ sending' \in {<<>>, IF sending[2] < NProviders THEN <<sending[1], sending[2] + 1>> ELSE <<>>}
  /\ UNCHANGED <<obs, due, todo, lag, lastFired, sustained, raised, clear>>

\* One provider's Send returns, with or without an error: the next one's turn.
Send ==
  /\ sending # <<>>
  /\ sending' = IF sending[2] < NProviders THEN <<sending[1], sending[2] + 1>> ELSE <<>>
  /\ UNCHANGED <<obs, due, todo, lag, lastFired, sustained, raised, clear>>

\* The process dies and is started again: its memory, cache included, is lost.
Restart ==
  /\ obs' = [k \in Keys |-> "absent"]
  /\ due' = FALSE /\ todo' = EmptyMap /\ sending' = <<>> /\ lag' = 0
  /\ lastFired' = EmptyMap /\ sustained' = EmptyMap
  /\ raised' = EmptyMap /\ clear' = NothingSeen

CheckSome == \E k \in Keys : Check(k)

Next ==
  \/ \E k \in Keys, c \in Conditions : Observe(k, c)
  \/ Tick
  \/ Evaluate
  \/ CheckSome
  \/ Send
  \/ Restart

Spec == Init /\ [][Next]_vars

\* Time passes, and the goroutine takes its ticks and goes through its loops:
\* every Send is bounded by its HTTP client's timeout.
Fairness == WF_vars(Tick) /\ WF_vars(Evaluate) /\ WF_vars(CheckSome) /\ WF_vars(Send)

FairSpec == Spec /\ Fairness
-----------------------------------------------------------------------------
\* In this step alert k is raised: the newest one becomes younger.
Raised(k) ==
  /\ k \in DOMAIN raised'
  /\ k \in DOMAIN raised => raised'[k] < raised[k]

\* Two alerts one process raises for one key are stamped at least the rule's
\* cooldown apart, although cleanup forgets when the first one was (fire,
\* cleanup).
RepeatsAreSpaced ==
  [][\A k \in DOMAIN raised : Raised(k) => raised[k] - raised'[k] >= Cooldown[k]]_vars

\* A held rule raises nothing while an evaluation within its hold time has
\* seen the subject in good condition (checkSustainedThreshold, guest_down).
OkRestartsTheHold ==
  [][\A k \in Held : Raised(k) /\ <<k, "ok">> \in DOMAIN clear =>
        clear[<<k, "ok">>] - raised'[k] >= Hold[k]]_vars

\* The age of the newest evaluation that did not find k bad.
NotBad(k) ==
  IF <<k, "ok">> \in DOMAIN clear /\ clear[<<k, "ok">>] < clear[<<k, "absent">>]
  THEN clear[<<k, "ok">>] ELSE clear[<<k, "absent">>]

\* The longest time from one evaluation's `now' to the next one's.
Gap == IF MaxLag = 0 THEN 1 ELSE MaxLag

\* An alert is due after its cooldown, or its hold time when cleanup has just
\* dropped the entry that had lasted; each is noticed at most a gap late, and
\* the evaluation that notices may take MaxLag to come to the key.
Delay(k) == Hold[k] + Cooldown[k] + 2 * (Gap - 1) + MaxLag

\* How long a bad condition can go without an alert: when no evaluation of the
\* last Delay(k) found it other than bad, one has raised an alert, whatever
\* cleanup dropped meanwhile and however many ticks slow providers cost.  Only
\* a hold time that cleanup's maxAge cuts short is excepted (evaluate, cleanup).
ReportedInTime ==
  \A k \in Held : Hold[k] + Gap - 1 <= MaxAge /\ NotBad(k) > Delay(k) =>
    k \in DOMAIN raised /\ raised[k] <= Delay(k)

\* docs/configuration.md on the hold times: "Must sustain for this long",
\* "Ignore brief restarts".  A hold time during which an evaluation did not
\* find the subject at all has not been sustained.
AbsenceRestartsTheHold ==
  [][\A k \in Held : Raised(k) /\ <<k, "absent">> \in DOMAIN clear =>
        clear[<<k, "absent">>] - raised'[k] >= Hold[k]]_vars

\* A condition that stays bad is alerted, and alerted again, at every
\* provider, whatever the other providers answer (evaluate, cleanup, fire).
BadIsReported ==
  \A k \in Keys : <>[](obs[k] = "bad") =>
    \A p \in Providers : []<>(sending = <<k, p>>)

\* The alerter keeps the promise of AlertPromise: `sustained' is since when a
\* condition counts, the history `raised' (not lastFired, which cleanup
\* empties) is what the reader of the alerts remembers.
Promise == INSTANCE AlertPromise WITH badSince <- sustained, lastAlert <- raised
KeepsPromise == Promise!Spec
=============================================================================
