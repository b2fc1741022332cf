---------------------------- MODULE AlerterProofs ----------------------------
(* Proofs about the alerter, for every set of keys and every duration. *)
EXTENDS Alerter, TLAPS

USE KeysAssumption, RuleAssumption, BoundAssumption DEF Units

-----------------------------------------------------------------------------
(* The map operators of Ages keep age maps age maps.                       *)

LEMMA PutAge ==
  ASSUME NEW K, NEW cap \in Nat, NEW f, IsAgeMap(f, K, cap),
         NEW k \in K, NEW v \in 0..cap
  PROVE  IsAgeMap(Put(f, k, v), K, cap)
BY DEF IsAgeMap, Put

LEMMA RestrictAge ==
  ASSUME NEW K, NEW cap \in Nat, NEW f, IsAgeMap(f, K, cap), NEW S, S \subseteq DOMAIN f
  PROVE  IsAgeMap(Restrict(f, S), K, cap)
BY DEF IsAgeMap, Restrict

LEMMA OlderAge ==
  ASSUME NEW K, NEW cap \in Nat, NEW f, IsAgeMap(f, K, cap)
  PROVE  IsAgeMap(Older(f, cap), K, cap)
BY DEF IsAgeMap, Older

LEMMA ExpireAge ==
  ASSUME NEW K, NEW cap \in Nat, NEW f, IsAgeMap(f, K, cap), NEW m
  PROVE  IsAgeMap(Expire(f, m), K, cap)
BY RestrictAge DEF Expire

LEMMA EmptyAge ==
  ASSUME NEW K, NEW cap \in Nat
  PROVE  IsAgeMap(EmptyMap, K, cap)
BY DEF IsAgeMap, EmptyMap

LEMMA NothingSeenAge ==
  /\ IsAgeMap(NothingSeen, Held \X {"absent", "ok"}, AgeCap)
  /\ DOMAIN NothingSeen = Held \X {"absent"}
  /\ \A x \in DOMAIN NothingSeen : NothingSeen[x] = 0
BY DEF IsAgeMap, NothingSeen

-----------------------------------------------------------------------------
(* Type correctness.                                                       *)

\* What one rule's check may do to the maps: nothing it writes leaves the
\* types (fire, checkSustainedThreshold, the rule bodies of evaluate).
LEMMA FireType ==
  ASSUME TypeOK, NEW k \in Keys, Fire(k)
  PROVE  /\ sending' \in {<<>>} \cup (Keys \X Providers)
         /\ IsAgeMap(lastFired', Keys, AgeCap)
         /\ IsAgeMap(raised', Keys, AgeCap)
<1>1. lag \in 0..AgeCap
  BY DEF TypeOK
<1>2. CASE InCooldown(k)
  BY <1>2 DEF Fire, TypeOK
<1>3. CASE ~InCooldown(k)
  <2>1. lastFired' = Put(lastFired, k, lag) /\ raised' = Put(raised, k, lag)
    BY <1>3 DEF Fire
  <2>2. IsAgeMap(lastFired', Keys, AgeCap) /\ IsAgeMap(raised', Keys, AgeCap)
    BY <1>1, <2>1, PutAge DEF TypeOK
  <2>3. sending' \in {<<>>} \cup (Keys \X Providers)
    BY <1>3 DEF Fire, Providers
  <2> QED BY <2>2, <2>3
<1> QED BY <1>2, <1>3

\* The alerter's variables always have their types.
THEOREM TypeCorrect == Spec => []TypeOK
<1>1. Init => TypeOK
  <2> SUFFICES ASSUME Init PROVE TypeOK
    OBVIOUS
  <2>1. /\ IsAgeMap(lastFired, Keys, AgeCap) /\ IsAgeMap(sustained, Held, AgeCap)
        /\ IsAgeMap(raised, Keys, AgeCap) /\ IsAgeMap(clear, Held \X {"absent", "ok"}, AgeCap)
    BY EmptyAge, NothingSeenAge DEF Init
  <2>2. DOMAIN todo \subseteq Keys /\ todo \in [DOMAIN todo -> {"ok", "bad"}]
    BY DEF Init, EmptyMap
  <2>3. obs \in [Keys -> Conditions] /\ lag \in 0..MaxLag /\ sending = <<>>
    BY DEF Init, Conditions
  <2>4. due \in BOOLEAN
    BY DEF Init
  <2> QED BY <2>1, <2>2, <2>3, <2>4 DEF TypeOK
<1>2. TypeOK /\ [Next]_vars => TypeOK'
  <2> SUFFICES ASSUME TypeOK, [Next]_vars PROVE TypeOK'
    OBVIOUS
  <2>1. ASSUME NEW k \in Keys, NEW c \in Conditions, Observe(k, c) PROVE TypeOK'
    BY <2>1 DEF Observe, TypeOK
  <2>2. CASE Tick
    <3>1. lag' \in 0..MaxLag
      BY <2>2 DEF Tick, TypeOK
    <3>2. IsAgeMap(lastFired', Keys, AgeCap) /\ IsAgeMap(sustained', Held, AgeCap)
      BY <2>2, OlderAge DEF Tick, TypeOK
    <3>3. IsAgeMap(raised', Keys, AgeCap) /\ IsAgeMap(clear', Held \X {"absent", "ok"}, AgeCap)
      BY <2>2, OlderAge DEF Tick, TypeOK
    <3> QED BY <2>2, <3>1, <3>2, <3>3 DEF Tick, TypeOK
  <2>3. CASE Evaluate
    <3>1. IsAgeMap(lastFired', Keys, AgeCap) /\ IsAgeMap(sustained', Held, AgeCap)
      BY <2>3, ExpireAge DEF Evaluate, Cleanup, TypeOK
    <3>2. DOMAIN todo' \subseteq Keys /\ todo' \in [DOMAIN todo' -> {"ok", "bad"}]
      BY <2>3 DEF Evaluate, Restrict, TypeOK, Conditions
    <3>3. IsAgeMap(clear', Held \X {"absent", "ok"}, AgeCap)
      <4> DEFINE D == DOMAIN clear \cup {<<k, obs[k]>> : k \in {j \in Held : obs[j] # "bad"}}
      <4>1. clear' = [x \in D |-> IF obs[x[1]] = x[2] THEN 0 ELSE clear[x]]
        BY <2>3 DEF Evaluate
      <4>2. D \subseteq Held \X {"absent", "ok"}
        BY DEF TypeOK, Conditions, IsAgeMap
      <4>3. \A x \in D : x \in DOMAIN clear \/ obs[x[1]] = x[2]
        OBVIOUS
      <4> QED BY <4>1, <4>2, <4>3 DEF TypeOK, IsAgeMap
    <3>4. due' = FALSE /\ lag' = 0 /\ UNCHANGED <<obs, sending, raised>>
      BY <2>3 DEF Evaluate
    <3>5. /\ obs' \in [Keys -> Conditions] /\ lag' \in 0..MaxLag
          /\ sending' \in {<<>>} \cup (Keys \X Providers)
      BY <3>4 DEF TypeOK
    <3>6. due' \in BOOLEAN
      BY <3>4
    <3>7. IsAgeMap(raised', Keys, AgeCap)
      BY <3>4 DEF TypeOK
    <3> QED BY <3>1, <3>2, <3>3, <3>5, <3>6, <3>7 DEF TypeOK
  <2>4. ASSUME NEW k \in Keys, Check(k) PROVE TypeOK'
    <3>1. DOMAIN todo' \subseteq Keys /\ todo' \in [DOMAIN todo' -> {"ok", "bad"}]
      BY <2>4 DEF Check, Drop, Restrict, TypeOK
    <3>2. /\ sending' \in {<<>>} \cup (Keys \X Providers)
          /\ IsAgeMap(lastFired', Keys, AgeCap)
          /\ IsAgeMap(raised', Keys, AgeCap)
      <4>1. Fire(k) \/ UNCHANGED <<sending, lastFired, raised>>
        BY <2>4 DEF Check, HeldBad, Cleared, TypeOK, IsAgeMap
      <4> QED BY <4>1, FireType DEF TypeOK
    <3>3. IsAgeMap(sustained', Held, AgeCap)
      <4>1. CASE UNCHANGED sustained
        BY <4>1 DEF TypeOK
      <4>2. CASE k \in Held /\ sustained' = Put(sustained, k, lag)
        <5>1. lag \in 0..AgeCap
          BY DEF TypeOK
        <5> QED BY <4>2, <5>1, PutAge DEF TypeOK
      <4>3. CASE sustained' = Drop(sustained, k)
        BY <4>3, RestrictAge DEF TypeOK, Drop
      <4> QED BY <2>4, <4>1, <4>2, <4>3 DEF Check, HeldBad, Cleared
    <3>4. /\ obs' \in [Keys -> Conditions] /\ due' \in BOOLEAN /\ lag' \in 0..MaxLag
          /\ IsAgeMap(clear', Held \X {"absent", "ok"}, AgeCap)
      BY <2>4 DEF Check, TypeOK
    <3> QED BY <3>1, <3>2, <3>3, <3>4 DEF TypeOK
  <2>5. CASE Send
    BY <2>5 DEF Send, TypeOK, Providers
  <2>6. CASE Restart
    <3>1. /\ IsAgeMap(lastFired', Keys, AgeCap) /\ IsAgeMap(sustained', Held, AgeCap)
          /\ IsAgeMap(raised', Keys, AgeCap) /\ IsAgeMap(clear', Held \X {"absent", "ok"}, AgeCap)
      BY <2>6, EmptyAge, NothingSeenAge DEF Restart
    <3>2. DOMAIN todo' \subseteq Keys /\ todo' \in [DOMAIN todo' -> {"ok", "bad"}]
      BY <2>6 DEF Restart, EmptyMap
    <3>3. obs' \in [Keys -> Conditions] /\ lag' \in 0..MaxLag /\ sending' = <<>>
      BY <2>6 DEF Restart, Conditions
    <3>4. due' \in BOOLEAN
      BY <2>6 DEF Restart
    <3> QED BY <3>1, <3>2, <3>3, <3>4 DEF TypeOK
  <2>7. CASE UNCHANGED vars
    BY <2>7 DEF vars, TypeOK
  <2> QED BY <2>1, <2>2, <2>3, <2>4, <2>5, <2>6, <2>7 DEF Next, CheckSome
<1> QED BY <1>1, <1>2, PTL DEF Spec

-----------------------------------------------------------------------------
(* Repeats are spaced.                                                     *)

\* What fire still remembers of an alert agrees with what was sent, and what
\* cleanup made it forget is older than any cooldown (fire, cleanup).
StampsAgree ==
  /\ \A k \in DOMAIN lastFired : k \in DOMAIN raised /\ raised[k] = lastFired[k]
  /\ \A k \in DOMAIN raised \ DOMAIN lastFired : raised[k] - lag > MaxAge

LEMMA StampsCorrect == Spec => []StampsAgree
<1>1. Init => StampsAgree
  BY DEF Init, StampsAgree, EmptyMap
<1>2. TypeOK /\ StampsAgree /\ [Next]_vars => StampsAgree'
  <2> SUFFICES ASSUME TypeOK, StampsAgree, [Next]_vars PROVE StampsAgree'
    OBVIOUS
  <2>1. ASSUME NEW k \in Keys, NEW c \in Conditions, Observe(k, c) PROVE StampsAgree'
    BY <2>1 DEF Observe, StampsAgree
  <2>2. CASE Tick
    BY <2>2 DEF Tick, StampsAgree, TypeOK, IsAgeMap, Older
  <2>3. CASE Evaluate
    BY <2>3 DEF Evaluate, Cleanup, Expire, Restrict, StampsAgree, TypeOK, IsAgeMap
  <2>4. ASSUME NEW k \in Keys, Check(k) PROVE StampsAgree'
    <3>1. UNCHANGED lag
      BY <2>4 DEF Check
    <3>2. CASE UNCHANGED <<lastFired, raised>>
      BY <3>1, <3>2 DEF StampsAgree
    <3>3. CASE lastFired' = Put(lastFired, k, lag) /\ raised' = Put(raised, k, lag)
      BY <3>1, <3>3 DEF Put, StampsAgree
    <3> QED BY <2>4, <3>2, <3>3 DEF Check, HeldBad, Cleared, Fire, TypeOK, IsAgeMap
  <2>5. CASE Send
    BY <2>5 DEF Send, StampsAgree
  <2>6. CASE Restart
    BY <2>6 DEF Restart, StampsAgree, EmptyMap
  <2>7. CASE UNCHANGED vars
    BY <2>7 DEF vars, StampsAgree
  <2> QED BY <2>1, <2>2, <2>3, <2>4, <2>5, <2>6, <2>7 DEF Next, CheckSome
<1> QED BY <1>1, <1>2, TypeCorrect, PTL DEF Spec

\* An alert is raised in no step but the check of its key, by a fire that
\* found no cooldown running.
LEMMA RaisedByFire ==
  ASSUME TypeOK, [Next]_vars, NEW k \in Keys, Raised(k)
  PROVE  /\ Check(k)
         /\ ~InCooldown(k)
         /\ raised' = Put(raised, k, lag) /\ raised' # raised
<1>1. ASSUME NEW j \in Keys, Check(j), raised' # raised
      PROVE  Fire(j) /\ ~InCooldown(j) /\ raised' = Put(raised, j, lag)
  BY <1>1 DEF Check, HeldBad, Cleared, Fire, TypeOK, IsAgeMap
<1>2. raised' # raised
  BY DEF Raised, TypeOK, IsAgeMap
<1>3. ~Tick
  BY DEF Tick, Raised, Older, TypeOK, IsAgeMap
<1>4. ~Restart
  BY DEF Restart, Raised, EmptyMap
<1>5. PICK j \in Keys : Check(j)
  BY <1>2, <1>3, <1>4 DEF Next, CheckSome, Observe, Evaluate, Send, vars
<1>6. raised' = Put(raised, j, lag)
  BY <1>1, <1>2, <1>5
<1>7. j = k
  <2> SUFFICES ASSUME j # k PROVE FALSE
    OBVIOUS
  <2>1. k \in DOMAIN raised /\ raised'[k] = raised[k]
    BY <1>6 DEF Put, Raised
  <2>2. raised[k] \in Int
    BY <2>1 DEF TypeOK, IsAgeMap
  <2> QED BY <2>1, <2>2 DEF Raised
<1> QED BY <1>1, <1>2, <1>5, <1>7

\* Two alerts one process raises for one key are a cooldown apart.
THEOREM Spacing == Spec => RepeatsAreSpaced
<1>1. TypeOK /\ StampsAgree /\ [Next]_vars =>
        [\A k \in DOMAIN raised : Raised(k) => raised[k] - raised'[k] >= Cooldown[k]]_vars
  <2> SUFFICES ASSUME TypeOK, StampsAgree, [Next]_vars, NEW k \in DOMAIN raised, Raised(k)
               PROVE  raised[k] - raised'[k] >= Cooldown[k]
    OBVIOUS
  <2>1. k \in Keys
    BY DEF TypeOK, IsAgeMap
  <2>2. ~InCooldown(k) /\ raised'[k] = lag
    BY <2>1, RaisedByFire DEF Put
  <2>3. CASE k \in DOMAIN lastFired
    BY <2>1, <2>2, <2>3 DEF InCooldown, StampsAgree, TypeOK, IsAgeMap
  <2>4. CASE k \notin DOMAIN lastFired
    BY <2>1, <2>2, <2>4 DEF StampsAgree, TypeOK, IsAgeMap
  <2> QED BY <2>3, <2>4
<1> QED BY <1>1, TypeCorrect, StampsCorrect, PTL DEF Spec, RepeatsAreSpaced

-----------------------------------------------------------------------------
(* A good evaluation restarts the hold.                                    *)

\* A subject counts as bad only since after it was last seen in good
\* condition, unless the evaluation that saw so is yet to visit it (evaluate's
\* delete from sustained).
OkIsOlder ==
  /\ \A x \in DOMAIN clear : clear[x] >= lag
  /\ \A k \in DOMAIN sustained : <<k, "ok">> \in DOMAIN clear =>
        \/ k \in DOMAIN todo /\ todo[k] = "ok"
        \/ clear[<<k, "ok">>] >= sustained[k]

LEMMA OkCorrect == Spec => []OkIsOlder
<1>1. Init => OkIsOlder
  BY NothingSeenAge DEF Init, OkIsOlder, EmptyMap
<1>2. TypeOK /\ OkIsOlder /\ [Next]_vars => OkIsOlder'
  <2> SUFFICES ASSUME TypeOK, OkIsOlder, [Next]_vars PROVE OkIsOlder'
    OBVIOUS
  <2>1. ASSUME NEW k \in Keys, NEW c \in Conditions, Observe(k, c) PROVE OkIsOlder'
    BY <2>1 DEF Observe, OkIsOlder
  <2>2. CASE Tick
    <3>1. /\ DOMAIN clear' = DOMAIN clear /\ DOMAIN sustained' = DOMAIN sustained /\ todo' = todo
          /\ lag' \in 0..MaxLag /\ lag' <= lag + 1
      BY <2>2 DEF Tick, Older, TypeOK
    <3>2. ASSUME NEW x \in DOMAIN clear PROVE clear'[x] >= lag'
      <4>1. clear[x] \in 0..AgeCap /\ clear[x] >= lag
        BY DEF OkIsOlder, TypeOK, IsAgeMap
      <4>2. clear'[x] = IF clear[x] < AgeCap THEN clear[x] + 1 ELSE AgeCap
        BY <2>2 DEF Tick, Older
      <4> QED BY <3>1, <4>1, <4>2, BoundAssumption DEF TypeOK
    <3>3. ASSUME NEW k \in DOMAIN sustained, <<k, "ok">> \in DOMAIN clear,
                 clear[<<k, "ok">>] >= sustained[k]
          PROVE  clear'[<<k, "ok">>] >= sustained'[k]
      <4>1. clear[<<k, "ok">>] \in 0..AgeCap /\ sustained[k] \in 0..AgeCap
        BY <3>3 DEF TypeOK, IsAgeMap
      <4>2. /\ clear'[<<k, "ok">>] = IF clear[<<k, "ok">>] < AgeCap THEN clear[<<k, "ok">>] + 1 ELSE AgeCap
            /\ sustained'[k] = IF sustained[k] < AgeCap THEN sustained[k] + 1 ELSE AgeCap
        BY <2>2, <3>3 DEF Tick, Older
      <4> QED BY <3>3, <4>1, <4>2, BoundAssumption
    <3> QED BY <3>1, <3>2, <3>3 DEF OkIsOlder
  <2>3. CASE Evaluate
    <3>1. \A x \in DOMAIN clear' : clear'[x] >= lag'
      BY <2>3 DEF Evaluate, TypeOK, IsAgeMap
    <3>2. ASSUME NEW k \in DOMAIN sustained', <<k, "ok">> \in DOMAIN clear',
                 ~(k \in DOMAIN todo' /\ todo'[k] = "ok")
          PROVE  clear'[<<k, "ok">>] >= sustained'[k]
      <4>1. k \in DOMAIN sustained /\ sustained'[k] = sustained[k] /\ k \in Held
        BY <2>3 DEF Evaluate, Cleanup, Expire, Restrict, TypeOK, IsAgeMap
      <4>2. obs[k] # "ok"
        BY <2>3, <3>2, <4>1 DEF Evaluate, Restrict
      <4>3. <<k, "ok">> \in DOMAIN clear /\ clear'[<<k, "ok">>] = clear[<<k, "ok">>]
        BY <2>3, <3>2, <4>1, <4>2 DEF Evaluate
      <4>4. ~(k \in DOMAIN todo)
        BY <2>3 DEF Evaluate, Evaluating
      <4> QED BY <4>1, <4>3, <4>4 DEF OkIsOlder
    <3> QED BY <3>1, <3>2 DEF OkIsOlder
  <2>4. ASSUME NEW k \in Keys, Check(k) PROVE OkIsOlder'
    <3>1. UNCHANGED <<lag, clear>> /\ todo' = Drop(todo, k) /\ k \in DOMAIN todo
      BY <2>4 DEF Check
    <3>2. CASE todo[k] # "ok" /\ UNCHANGED sustained
      BY <3>1, <3>2 DEF Drop, Restrict, OkIsOlder
    <3>3. CASE todo[k] # "ok" /\ sustained' = Put(sustained, k, lag)
      BY <3>1, <3>3 DEF Drop, Restrict, Put, OkIsOlder
    <3>4. CASE sustained' = Drop(sustained, k)
      BY <3>1, <3>4 DEF Drop, Restrict, OkIsOlder
    <3> QED BY <2>4, <3>2, <3>3, <3>4 DEF Check, HeldBad, Cleared
  <2>5. CASE Send
    BY <2>5 DEF Send, OkIsOlder
  <2>6. CASE Restart
    BY <2>6, NothingSeenAge DEF Restart, OkIsOlder, EmptyMap
  <2>7. CASE UNCHANGED vars
    BY <2>7 DEF vars, OkIsOlder
  <2> QED BY <2>1, <2>2, <2>3, <2>4, <2>5, <2>6, <2>7 DEF Next, CheckSome
<1> QED BY <1>1, <1>2, TypeCorrect, PTL DEF Spec

\* A held key is raised only by a check that finds it bad and old enough.
LEMMA RaisedWhenHeld ==
  ASSUME TypeOK, NEW k \in Held, Check(k), raised' # raised
  PROVE  /\ todo[k] = "bad"
         /\ k \in DOMAIN sustained
         /\ sustained[k] - lag >= Hold[k]
BY DEF Check, HeldBad, Cleared, TypeOK, IsAgeMap

\* No alert of a held rule within its hold time of a good evaluation.
THEOREM HoldRestarts == Spec => OkRestartsTheHold
<1>1. TypeOK /\ OkIsOlder /\ [Next]_vars =>
        [\A k \in Held : Raised(k) /\ <<k, "ok">> \in DOMAIN clear =>
            clear[<<k, "ok">>] - raised'[k] >= Hold[k]]_vars
  <2> SUFFICES ASSUME TypeOK, OkIsOlder, [Next]_vars, NEW k \in Held, Raised(k),
                      <<k, "ok">> \in DOMAIN clear
               PROVE  clear[<<k, "ok">>] - raised'[k] >= Hold[k]
    OBVIOUS
  <2>1. Check(k) /\ raised'[k] = lag /\ raised' # raised
    BY RaisedByFire DEF Put
  <2>2. todo[k] = "bad" /\ k \in DOMAIN sustained /\ sustained[k] - lag >= Hold[k]
    BY <2>1, RaisedWhenHeld
  <2>3. clear[<<k, "ok">>] >= sustained[k]
    BY <2>2 DEF OkIsOlder
  <2> QED BY <2>1, <2>2, <2>3 DEF TypeOK, IsAgeMap
<1> QED BY <1>1, TypeCorrect, OkCorrect, PTL DEF Spec, OkRestartsTheHold

-----------------------------------------------------------------------------
(* A bad condition is reported in time.                                    *)

\* The age of the newest evaluation's `now'.
Behind == IF Evaluating THEN lag ELSE IF ~due THEN 0 ELSE IF lag = 0 THEN 1 ELSE lag

\* An evaluation that a tick has come in is late; a goroutine that is late has
\* a tick waiting; so evaluations are at most a gap apart.
Paced ==
  /\ lag > 0 => due
  /\ Evaluating /\ due => lag > 0
  /\ Behind <= Gap

LEMMA GapType == Gap \in Nat /\ Gap >= 1 /\ Gap >= MaxLag /\ Gap < AgeCap
BY DEF Gap

LEMMA PacedInit == Init => Paced
BY GapType DEF Init, Paced, Behind, Evaluating, EmptyMap

LEMMA TickPace ==
  ASSUME TypeOK, Paced, Tick
  PROVE  Paced' /\ Behind' = Behind + 1
<1>1. lag \in Nat /\ lag <= MaxLag /\ Evaluating' = Evaluating
  BY DEF TypeOK, Tick, Evaluating
<1>2. CASE Evaluating
  BY <1>1, <1>2, GapType DEF Tick, Paced, Behind
<1>3. CASE ~Evaluating
  BY <1>1, <1>3, GapType DEF Tick, Paced, Behind
<1> QED BY <1>2, <1>3

LEMMA EvaluatePace ==
  ASSUME TypeOK, Paced, Evaluate
  PROVE  Paced' /\ Behind' = 0 /\ Behind \in 1..Gap
<1>1. lag \in Nat /\ lag' = 0 /\ due /\ ~due' /\ ~Evaluating
  BY DEF TypeOK, Evaluate
<1> QED BY <1>1, GapType DEF Paced, Behind

\* The loops and the collectors take no time of their own.
LEMMA OtherPace ==
  ASSUME TypeOK, Paced,
         \/ \E k \in Keys, c \in Conditions : Observe(k, c)
         \/ CheckSome \/ Send \/ UNCHANGED vars
  PROVE  Paced' /\ Behind' = Behind
<1>1. lag \in Nat /\ lag' = lag /\ due' = due /\ (Evaluating' => Evaluating)
  <2>1. CASE CheckSome
    BY <2>1 DEF CheckSome, Check, Evaluating, TypeOK
  <2>2. CASE Send
    BY <2>2 DEF Send, Evaluating, TypeOK
  <2>3. CASE UNCHANGED vars \/ \E k \in Keys, c \in Conditions : Observe(k, c)
    BY <2>3 DEF vars, Observe, Evaluating, TypeOK
  <2> QED BY <2>1, <2>2, <2>3
<1> QED BY <1>1 DEF Paced, Behind

\* Every held subject has been found other than bad, at the start if not later.
Seen == \A k \in Held : <<k, "absent">> \in DOMAIN clear

LEMMA NotBadType ==
  ASSUME TypeOK, Seen, NEW k \in Held
  PROVE  NotBad(k) \in 0..AgeCap
BY DEF NotBad, Seen, TypeOK, IsAgeMap

LEMMA TickNotBad ==
  ASSUME TypeOK, Seen, Tick, NEW k \in Held
  PROVE  NotBad(k)' = IF NotBad(k) < AgeCap THEN NotBad(k) + 1 ELSE AgeCap
<1>1. /\ DOMAIN clear' = DOMAIN clear
      /\ \A x \in DOMAIN clear : clear[x] \in 0..AgeCap
      /\ \A x \in DOMAIN clear : clear'[x] = IF clear[x] < AgeCap THEN clear[x] + 1 ELSE AgeCap
  BY DEF Tick, Older, TypeOK, IsAgeMap
<1>2. <<k, "absent">> \in DOMAIN clear
  BY DEF Seen
<1> QED BY <1>1, <1>2 DEF NotBad

LEMMA EvaluateNotBad ==
  ASSUME TypeOK, Seen, Evaluate, NEW k \in Held
  PROVE  /\ <<k, "absent">> \in DOMAIN clear'
         /\ obs[k] = "bad" => NotBad(k)' = NotBad(k)
         /\ obs[k] # "bad" => NotBad(k)' = 0
<1> DEFINE D == DOMAIN clear \cup {<<j, obs[j]>> : j \in {i \in Held : obs[i] # "bad"}}
<1>1. clear' = [x \in D |-> IF obs[x[1]] = x[2] THEN 0 ELSE clear[x]]
  BY DEF Evaluate
<1>2. <<k, "absent">> \in DOMAIN clear /\ obs[k] \in Conditions
  BY DEF Seen, TypeOK
<1>3. \A x \in DOMAIN clear : clear[x] \in Nat
  BY DEF TypeOK, IsAgeMap
<1>4. clear'[<<k, "absent">>] = IF obs[k] = "absent" THEN 0 ELSE clear[<<k, "absent">>]
  BY <1>1, <1>2
<1>5. <<k, "ok">> \in DOMAIN clear' <=> <<k, "ok">> \in DOMAIN clear \/ obs[k] = "ok"
  BY <1>1
<1>6. <<k, "ok">> \in DOMAIN clear' =>
        clear'[<<k, "ok">>] = IF obs[k] = "ok" THEN 0 ELSE clear[<<k, "ok">>]
  BY <1>1
<1> HIDE DEF D
<1>7. NotBad(k)' = IF <<k, "ok">> \in DOMAIN clear' /\ clear'[<<k, "ok">>] < clear'[<<k, "absent">>]
                   THEN clear'[<<k, "ok">>] ELSE clear'[<<k, "absent">>]
  BY DEF NotBad
<1>8. obs[k] = "bad" => NotBad(k)' = NotBad(k)
  BY <1>4, <1>5, <1>6, <1>7 DEF NotBad
<1>9. obs[k] = "absent" => NotBad(k)' = 0
  BY <1>2, <1>3, <1>4, <1>5, <1>6, <1>7
<1>10. obs[k] = "ok" => NotBad(k)' = 0
  BY <1>2, <1>3, <1>4, <1>5, <1>6, <1>7
<1>11. <<k, "absent">> \in DOMAIN clear'
  BY <1>1, <1>2 DEF D
<1> QED BY <1>2, <1>8, <1>9, <1>10, <1>11 DEF Conditions

LEMMA SeenStep ==
  ASSUME TypeOK, Seen, [Next]_vars
  PROVE  Seen'
<1>1. CASE Tick
  BY <1>1 DEF Tick, Older, Seen
<1>2. CASE Evaluate
  BY <1>2, EvaluateNotBad DEF Seen
<1>3. CASE Restart
  BY <1>3, NothingSeenAge DEF Restart, Seen
<1> QED BY <1>1, <1>2, <1>3 DEF Next, CheckSome, Observe, Check, Send, vars, Seen

Alerted(k, a) == k \in DOMAIN raised /\ raised[k] <= a

\* How long k can have been found bad without an alert while the evaluation
\* has yet to visit it, ...
Waiting(k) ==
  k \in DOMAIN todo =>
    /\ todo[k] = "ok" => NotBad(k) <= Behind
    /\ \/ k \in DOMAIN sustained
       \/ NotBad(k) <= Behind + Gap
       \/ Alerted(k, Behind + Cooldown[k] + Gap - 1)
    /\ k \in DOMAIN sustained /\ sustained[k] >= Behind + Gap + Hold[k] =>
         NotBad(k) <= Behind + Gap \/ Alerted(k, Behind + Gap + Cooldown[k] - 1)

\* ... once the newest evaluation has visited it, ...
Visited(k) ==
  k \notin DOMAIN todo /\ NotBad(k) > Behind =>
    /\ k \in DOMAIN sustained
    /\ sustained[k] >= Behind + Hold[k] => Alerted(k, Behind + Cooldown[k] - 1)

\* ... and since its entry began to count.
Counting(k) ==
  k \in DOMAIN sustained =>
    \/ NotBad(k) <= sustained[k] + Gap
    \/ Alerted(k, sustained[k] + Cooldown[k] + Gap - 1)

OnTime(k) == NotBad(k) >= Behind /\ Waiting(k) /\ Visited(k) /\ Counting(k)

\* What the arithmetic below needs to know of the numbers it is about.
LEMMA Numbers ==
  ASSUME TypeOK, Paced, Seen, NEW k \in Held
  PROVE  /\ NotBad(k) \in Nat /\ NotBad(k) <= AgeCap
         /\ Behind \in Nat /\ Behind <= Gap /\ Gap \in Nat
         /\ Hold[k] \in Nat /\ Hold[k] >= 1 /\ Cooldown[k] \in Nat /\ Cooldown[k] >= 1
         /\ k \in DOMAIN sustained => sustained[k] \in Nat /\ sustained[k] <= AgeCap
         /\ k \in DOMAIN raised => raised[k] \in Nat /\ raised[k] <= AgeCap
         /\ Evaluating => Behind = lag
<1>1. NotBad(k) \in Nat /\ NotBad(k) <= AgeCap
  BY NotBadType
<1>2. Behind \in Nat /\ (Evaluating => Behind = lag)
  BY DEF Behind, TypeOK
<1>3. Hold[k] \in Nat /\ Hold[k] >= 1 /\ Cooldown[k] \in Nat /\ Cooldown[k] >= 1
  OBVIOUS
<1>4. /\ k \in DOMAIN sustained => sustained[k] \in Nat /\ sustained[k] <= AgeCap
      /\ k \in DOMAIN raised => raised[k] \in Nat /\ raised[k] <= AgeCap
  BY DEF TypeOK, IsAgeMap
<1> QED BY <1>1, <1>2, <1>3, <1>4, GapType DEF Paced

LEMMA TickOnTime ==
  ASSUME TypeOK, Paced, Seen, Tick, NEW k \in Held, OnTime(k)
  PROVE  OnTime(k)'
<1> DEFINE Next1(a) == IF a < AgeCap THEN a + 1 ELSE AgeCap
<1>1. Behind' = Behind + 1 /\ NotBad(k)' = Next1(NotBad(k)) /\ Behind' <= Gap /\ todo' = todo
  BY TickPace, TickNotBad DEF Paced, Tick
<1>2. /\ k \in DOMAIN sustained' <=> k \in DOMAIN sustained
      /\ k \in DOMAIN sustained => sustained'[k] = Next1(sustained[k])
  BY DEF Tick, Older
<1>3. /\ k \in DOMAIN raised' <=> k \in DOMAIN raised
      /\ k \in DOMAIN raised => raised'[k] = Next1(raised[k])
  BY DEF Tick, Older
<1>4. (NotBad(k) >= Behind)'
  BY <1>1, Numbers, GapType DEF OnTime
<1>5. ASSUME NEW a \in Int, Alerted(k, a) PROVE k \in DOMAIN raised' /\ raised'[k] <= a + 1
  BY <1>3, <1>5, Numbers DEF Alerted
<1>6. Waiting(k)'
  <2> SUFFICES ASSUME k \in DOMAIN todo PROVE Waiting(k)'
    BY <1>1 DEF Waiting
  <2>1. todo[k] = "ok" => NotBad(k)' <= Behind'
    BY <1>1, Numbers DEF OnTime, Waiting
  <2>2. \/ k \in DOMAIN sustained'
        \/ NotBad(k)' <= Behind' + Gap
        \/ Alerted(k, Behind + Cooldown[k] + Gap - 1)
    BY <1>1, <1>2, Numbers DEF OnTime, Waiting
  <2>3. k \in DOMAIN sustained' /\ sustained'[k] >= Behind' + Gap + Hold[k] =>
          NotBad(k)' <= Behind' + Gap \/ Alerted(k, Behind + Gap + Cooldown[k] - 1)
    BY <1>1, <1>2, Numbers DEF OnTime, Waiting
  <2> QED BY <1>1, <1>5, <2>1, <2>2, <2>3, Numbers DEF Waiting, Alerted
<1>7. Visited(k)'
  <2> SUFFICES ASSUME k \notin DOMAIN todo, NotBad(k)' > Behind' PROVE Visited(k)'
    BY <1>1 DEF Visited
  <2>1. k \in DOMAIN sustained /\ (sustained[k] >= Behind + Hold[k] => Alerted(k, Behind + Cooldown[k] - 1))
    BY <1>1, Numbers DEF OnTime, Visited
  <2>2. sustained'[k] >= Behind' + Hold[k] => sustained[k] >= Behind + Hold[k]
    BY <1>1, <1>2, <2>1, Numbers
  <2> QED BY <1>1, <1>2, <1>5, <2>1, <2>2, Numbers DEF Visited, Alerted
<1>8. Counting(k)'
  <2> SUFFICES ASSUME k \in DOMAIN sustained PROVE Counting(k)'
    BY <1>2 DEF Counting
  <2>1. CASE NotBad(k) <= sustained[k] + Gap
    BY <1>1, <1>2, <2>1, Numbers DEF Counting
  <2>2. CASE Alerted(k, sustained[k] + Cooldown[k] + Gap - 1)
    BY <1>2, <1>3, <2>2, Numbers DEF Counting, Alerted
  <2> QED BY <2>1, <2>2 DEF OnTime, Counting
<1> QED BY <1>4, <1>6, <1>7, <1>8 DEF OnTime

LEMMA EvaluateOnTime ==
  ASSUME TypeOK, Paced, Seen, Evaluate, NEW k \in Held, OnTime(k), Hold[k] + Gap - 1 <= MaxAge
  PROVE  OnTime(k)'
<1>1. Behind' = 0 /\ Behind \in Nat /\ UNCHANGED raised /\ k \notin DOMAIN todo
  <2>1. Behind' = 0 /\ Behind \in Nat
    BY EvaluatePace, Numbers
  <2>2. UNCHANGED raised /\ DOMAIN todo = {}
    BY DEF Evaluate, Evaluating
  <2> QED BY <2>1, <2>2
<1>2. /\ obs[k] = "bad" => NotBad(k)' = NotBad(k)
      /\ obs[k] # "bad" => NotBad(k)' = 0
  BY EvaluateNotBad
<1>3. /\ k \in DOMAIN todo' <=> obs[k] # "absent"
      /\ k \in DOMAIN todo' => todo'[k] = obs[k]
  BY DEF Evaluate, Restrict, TypeOK
<1>4. /\ k \in DOMAIN sustained' <=> k \in DOMAIN sustained /\ sustained[k] <= MaxAge
      /\ k \in DOMAIN sustained' => sustained'[k] = sustained[k]
  BY DEF Evaluate, Cleanup, Expire, Restrict
<1>5. CASE obs[k] # "bad"
  <2>1. NotBad(k)' = 0
    BY <1>2, <1>5
  <2>2. Waiting(k)'
    BY <1>1, <2>1, Numbers DEF Waiting
  <2>3. Visited(k)'
    BY <1>1, <2>1 DEF Visited
  <2>4. Counting(k)'
    BY <1>4, <2>1, Numbers DEF Counting
  <2> QED BY <1>1, <2>1, <2>2, <2>3, <2>4 DEF OnTime
<1>6. CASE obs[k] = "bad"
  <2>1. NotBad(k)' >= Behind'
    BY <1>1, <1>2, <1>6, Numbers
  <2>2. Waiting(k)'
    <3>1. todo'[k] # "ok"
      BY <1>3, <1>6
    <3>2. k \in DOMAIN sustained /\ sustained[k] > MaxAge => sustained[k] >= Behind + Hold[k]
      BY Numbers
    <3>3. CASE NotBad(k) <= Behind
      BY <1>1, <1>2, <1>6, <3>1, <3>3, Numbers DEF Waiting
    <3>4. CASE NotBad(k) > Behind
      <4>1. k \in DOMAIN sustained /\ (sustained[k] >= Behind + Hold[k] => Alerted(k, Behind + Cooldown[k] - 1))
        BY <1>1, <3>4 DEF OnTime, Visited
      <4>2. Alerted(k, Behind + Cooldown[k] - 1) => Alerted(k, Cooldown[k] + Gap - 1)'
        BY <1>1, Numbers DEF Alerted
      <4>3. k \in DOMAIN sustained' \/ Alerted(k, Cooldown[k] + Gap - 1)'
        BY <1>4, <3>2, <4>1, <4>2, Numbers
      <4>4. k \in DOMAIN sustained' /\ sustained'[k] >= Gap + Hold[k] => Alerted(k, Cooldown[k] + Gap - 1)'
        BY <1>4, <4>1, <4>2, Numbers
      <4> QED BY <1>1, <3>1, <4>3, <4>4, Numbers DEF Waiting, Alerted
    <3> QED BY <3>3, <3>4, Numbers
  <2>3. Visited(k)'
    BY <1>3, <1>6 DEF Visited
  <2>4. Counting(k)'
    BY <1>1, <1>2, <1>4, <1>6 DEF OnTime, Counting, Alerted
  <2> QED BY <2>1, <2>2, <2>3, <2>4 DEF OnTime
<1> QED BY <1>5, <1>6

\* The visit of a key: it is alerted, or has not lasted, or has been alerted.
LEMMA VisitOnTime ==
  ASSUME TypeOK, StampsAgree, Paced, Seen, NEW k \in Held, Check(k), OnTime(k)
  PROVE  OnTime(k)'
<1>1. /\ k \in DOMAIN todo /\ k \notin DOMAIN todo' /\ UNCHANGED <<lag, clear>>
      /\ Behind' = Behind /\ Behind = lag
  <2>1. Evaluating
    BY DEF Check, Evaluating
  <2> QED BY <2>1, OtherPace, Numbers DEF Check, CheckSome, Drop, Restrict
<1>2. NotBad(k)' = NotBad(k)
  BY <1>1 DEF NotBad
<1>3. NotBad(k)' >= Behind'
  BY <1>1, <1>2 DEF OnTime
<1>4. Waiting(k)'
  BY <1>1 DEF Waiting
<1>5. CASE todo[k] = "ok"
  <2>1. NotBad(k) <= Behind
    BY <1>1, <1>5 DEF OnTime, Waiting
  <2>2. k \notin DOMAIN sustained'
    BY <1>5 DEF Check, Cleared, Drop, Restrict
  <2> QED BY <1>1, <1>2, <1>3, <1>4, <2>1, <2>2, Numbers DEF OnTime, Visited, Counting
<1>6. CASE todo[k] = "bad" /\ k \notin DOMAIN sustained
  <2>1. sustained' = Put(sustained, k, lag) /\ UNCHANGED raised
    BY <1>6 DEF Check, HeldBad
  <2>2. k \in DOMAIN sustained' /\ sustained'[k] = Behind
    BY <1>1, <2>1 DEF Put
  <2>3. Visited(k)'
    BY <1>1, <2>2, Numbers DEF Visited
  <2>4. NotBad(k) <= Behind + Gap \/ Alerted(k, Behind + Cooldown[k] + Gap - 1)
    BY <1>1, <1>6 DEF OnTime, Waiting
  <2>5. Counting(k)'
    BY <1>2, <2>1, <2>2, <2>4 DEF Counting, Alerted
  <2> QED BY <1>3, <1>4, <2>3, <2>5 DEF OnTime
<1>7. CASE todo[k] = "bad" /\ k \in DOMAIN sustained /\ sustained[k] - lag < Hold[k]
  <2>1. UNCHANGED <<sustained, raised>>
    BY <1>7, Numbers DEF Check, HeldBad
  <2>2. Visited(k)'
    BY <1>1, <1>7, <2>1, Numbers DEF Visited
  <2>3. Counting(k)'
    BY <1>2, <2>1 DEF OnTime, Counting, Alerted
  <2> QED BY <1>3, <1>4, <2>2, <2>3 DEF OnTime
<1>8. CASE todo[k] = "bad" /\ k \in DOMAIN sustained /\ sustained[k] - lag >= Hold[k]
  <2>1. UNCHANGED sustained /\ Fire(k)
    BY <1>8 DEF Check, HeldBad
  <2>2. CASE InCooldown(k)
    <3>1. UNCHANGED raised /\ k \in DOMAIN raised /\ raised[k] - lag < Cooldown[k]
      BY <2>1, <2>2 DEF Fire, InCooldown, StampsAgree
    <3>2. Alerted(k, Behind + Cooldown[k] - 1)'
      BY <1>1, <3>1, Numbers DEF Alerted
    <3>3. Visited(k)'
      BY <1>1, <1>8, <2>1, <3>1, <3>2 DEF Visited
    <3>4. Counting(k)'
      BY <1>2, <2>1, <3>1 DEF OnTime, Counting, Alerted
    <3> QED BY <1>3, <1>4, <3>3, <3>4 DEF OnTime
  <2>3. CASE ~InCooldown(k)
    <3>1. k \in DOMAIN raised' /\ raised'[k] = Behind
      BY <1>1, <2>1, <2>3 DEF Fire, Put
    <3>2. Visited(k)'
      BY <1>1, <1>8, <2>1, <3>1, Numbers DEF Visited, Alerted
    <3>3. Counting(k)'
      BY <1>1, <1>8, <2>1, <3>1, Numbers DEF Counting, Alerted
    <3> QED BY <1>3, <1>4, <3>2, <3>3 DEF OnTime
  <2> QED BY <2>2, <2>3
<1>9. todo[k] \in {"ok", "bad"}
  BY <1>1 DEF TypeOK
<1> QED BY <1>1, <1>5, <1>6, <1>7, <1>8, <1>9, Numbers

\* No other step but these touches what OnTime says of a key.
LEMMA OtherOnTime ==
  ASSUME TypeOK, Paced, Seen, NEW k \in Held, OnTime(k),
         \/ \E j \in Keys, c \in Conditions : Observe(j, c)
         \/ \E j \in Keys \ {k} : Check(j)
         \/ Send \/ UNCHANGED vars
  PROVE  OnTime(k)'
<1>1. Behind' = Behind /\ clear' = clear
  <2>1. Behind' = Behind
    BY OtherPace DEF CheckSome
  <2> QED BY <2>1 DEF Observe, Check, Send, vars
<1>2. (k \in DOMAIN todo' <=> k \in DOMAIN todo) /\ (k \in DOMAIN todo => todo'[k] = todo[k])
  BY DEF Observe, Check, Drop, Restrict, Send, vars
<1>3. /\ k \in DOMAIN sustained' <=> k \in DOMAIN sustained
      /\ k \in DOMAIN sustained => sustained'[k] = sustained[k]
  <2>1. ASSUME NEW j \in Keys \ {k}, Check(j)
        PROVE  \/ UNCHANGED sustained
               \/ sustained' = Put(sustained, j, lag) \/ sustained' = Drop(sustained, j)
    BY <2>1 DEF Check, HeldBad, Cleared
  <2>2. CASE UNCHANGED sustained
    BY <2>2
  <2>3. ASSUME NEW j \in Keys \ {k}, sustained' = Put(sustained, j, lag)
        PROVE  /\ k \in DOMAIN sustained' <=> k \in DOMAIN sustained
               /\ k \in DOMAIN sustained => sustained'[k] = sustained[k]
    BY <2>3 DEF Put
  <2>4. ASSUME NEW j \in Keys \ {k}, sustained' = Drop(sustained, j)
        PROVE  /\ k \in DOMAIN sustained' <=> k \in DOMAIN sustained
               /\ k \in DOMAIN sustained => sustained'[k] = sustained[k]
    BY <2>4 DEF Drop, Restrict
  <2> QED BY <2>1, <2>2, <2>3, <2>4 DEF Observe, Send, vars
<1>4. /\ k \in DOMAIN raised' <=> k \in DOMAIN raised
      /\ k \in DOMAIN raised => raised'[k] = raised[k]
  <2>1. ASSUME NEW j \in Keys \ {k}, Check(j)
        PROVE  UNCHANGED raised \/ raised' = Put(raised, j, lag)
    BY <2>1 DEF Check, HeldBad, Cleared, Fire, TypeOK, IsAgeMap
  <2>2. CASE UNCHANGED raised
    BY <2>2
  <2>3. ASSUME NEW j \in Keys \ {k}, raised' = Put(raised, j, lag)
        PROVE  /\ k \in DOMAIN raised' <=> k \in DOMAIN raised
               /\ k \in DOMAIN raised => raised'[k] = raised[k]
    BY <2>3 DEF Put
  <2>4. ASSUME \/ \E j \in Keys, c \in Conditions : Observe(j, c)
               \/ Send \/ UNCHANGED vars
        PROVE  UNCHANGED raised
    BY <2>4 DEF Observe, Send, vars
  <2> QED BY <2>1, <2>2, <2>3, <2>4
<1>5. NotBad(k)' = NotBad(k)
  BY <1>1 DEF NotBad
<1>6. \A a : Alerted(k, a) => k \in DOMAIN raised' /\ raised'[k] <= a
  BY <1>4 DEF Alerted
<1>7. Waiting(k)'
  BY <1>1, <1>2, <1>3, <1>5, <1>6 DEF OnTime, Waiting, Alerted
<1>8. Visited(k)'
  BY <1>1, <1>2, <1>3, <1>5, <1>6 DEF OnTime, Visited, Alerted
<1>9. Counting(k)'
  BY <1>3, <1>5, <1>6 DEF OnTime, Counting, Alerted
<1> QED BY <1>1, <1>5, <1>7, <1>8, <1>9 DEF OnTime

\* A process that starts owes nothing.
LEMMA StartOnTime ==
  ASSUME NEW k \in Held
  PROVE  (Init => OnTime(k)) /\ (Restart => OnTime(k)')
<1>1. DOMAIN NothingSeen = Held \X {"absent"} /\ NothingSeen[<<k, "absent">>] = 0
  BY NothingSeenAge
<1>2. ASSUME Init PROVE OnTime(k)
  <2>1. NotBad(k) = 0 /\ Behind = 0 /\ DOMAIN todo = {} /\ DOMAIN sustained = {}
    BY <1>1, <1>2 DEF Init, NotBad, Behind, Evaluating, EmptyMap
  <2> QED BY <2>1 DEF OnTime, Waiting, Visited, Counting
<1>3. ASSUME Restart PROVE OnTime(k)'
  <2>1. NotBad(k)' = 0
    BY <1>1, <1>3 DEF Restart, NotBad
  <2>2. Behind' = 0 /\ DOMAIN todo' = {} /\ DOMAIN sustained' = {}
    BY <1>3 DEF Restart, Behind, Evaluating, EmptyMap
  <2> QED BY <2>1, <2>2 DEF OnTime, Waiting, Visited, Counting
<1> QED BY <1>2, <1>3

\* Each alert is the bound of its place late at most; together they make Delay.
LEMMA OnTimeSuffices ==
  ASSUME TypeOK, Paced, Seen, NEW k \in Held, OnTime(k), NotBad(k) > Delay(k)
  PROVE  k \in DOMAIN raised /\ raised[k] <= Delay(k)
<1>1. MaxLag \in Nat /\ lag <= MaxLag /\ Delay(k) = Hold[k] + Cooldown[k] + 2 * (Gap - 1) + MaxLag
  BY DEF TypeOK, Delay
<1>2. CASE k \in DOMAIN todo
  <2>1. Behind <= MaxLag
    BY <1>1, <1>2, Numbers DEF Evaluating
  <2>2. NotBad(k) > Behind + Gap
    BY <1>1, <2>1, Numbers, GapType
  <2>3. CASE k \notin DOMAIN sustained
    BY <1>1, <1>2, <2>1, <2>2, <2>3, Numbers, GapType DEF OnTime, Waiting, Alerted
  <2>4. CASE k \in DOMAIN sustained /\ sustained[k] >= Behind + Gap + Hold[k]
    BY <1>1, <1>2, <2>1, <2>2, <2>4, Numbers, GapType DEF OnTime, Waiting, Alerted
  <2>5. CASE k \in DOMAIN sustained /\ ~(sustained[k] >= Behind + Gap + Hold[k])
    BY <1>1, <2>1, <2>2, <2>5, Numbers, GapType DEF OnTime, Counting, Alerted
  <2> QED BY <2>3, <2>4, <2>5
<1>3. CASE k \notin DOMAIN todo
  <2>1. NotBad(k) > Behind
    BY <1>1, Numbers, GapType
  <2>2. k \in DOMAIN sustained /\ (sustained[k] >= Behind + Hold[k] => Alerted(k, Behind + Cooldown[k] - 1))
    BY <1>3, <2>1 DEF OnTime, Visited
  <2>3. CASE sustained[k] >= Behind + Hold[k]
    BY <1>1, <2>2, <2>3, Numbers, GapType DEF Alerted
  <2>4. CASE ~(sustained[k] >= Behind + Hold[k])
    BY <1>1, <2>2, <2>4, Numbers, GapType DEF OnTime, Counting, Alerted
  <2> QED BY <2>3, <2>4
<1> QED BY <1>2, <1>3

Fits(k) == Hold[k] + Gap - 1 <= MaxAge
AllOnTime == Paced /\ Seen /\ \A k \in Held : Fits(k) => OnTime(k)

LEMMA OnTimeStep ==
  ASSUME TypeOK, StampsAgree, AllOnTime, [Next]_vars
  PROVE  AllOnTime'
<1> USE DEF AllOnTime
<1>1. Paced'
  <2>1. CASE Restart
    <3>1. lag' = 0 /\ ~due' /\ ~Evaluating'
      BY <2>1 DEF Restart, Evaluating, EmptyMap
    <3> QED BY <3>1, GapType DEF Paced, Behind
  <2> QED BY <2>1, TickPace, EvaluatePace, OtherPace DEF Next
<1>2. Seen'
  BY SeenStep
<1>3. ASSUME NEW k \in Held, Fits(k) PROVE OnTime(k)'
  <2>1. CASE Tick
    BY <1>3, <2>1, TickOnTime
  <2>2. CASE Evaluate
    BY <1>3, <2>2, EvaluateOnTime DEF Fits
  <2>3. CASE Check(k)
    BY <1>3, <2>3, VisitOnTime
  <2>4. CASE Restart
    BY <2>4, StartOnTime
  <2>5. CASE \/ \E j \in Keys, c \in Conditions : Observe(j, c)
             \/ \E j \in Keys \ {k} : Check(j)
             \/ Send \/ UNCHANGED vars
    BY <1>3, <2>5, OtherOnTime
  <2> QED BY <2>1, <2>2, <2>3, <2>4, <2>5 DEF Next, CheckSome
<1> QED BY <1>1, <1>2, <1>3 DEF Fits

\* When every evaluation of the last Delay(k) found k bad, one of them has
\* raised an alert, for all durations, bounds and lengths of evaluations.
THEOREM InTime == Spec => []ReportedInTime
<1>1. Init => AllOnTime
  <2>1. Init => Seen
    BY NothingSeenAge DEF Init, Seen
  <2> QED BY <2>1, PacedInit, StartOnTime DEF AllOnTime
<1>2. TypeOK /\ StampsAgree /\ AllOnTime /\ [Next]_vars => AllOnTime'
  BY OnTimeStep
<1>3. TypeOK /\ AllOnTime => ReportedInTime
  BY OnTimeSuffices DEF AllOnTime, Fits, ReportedInTime
<1> QED BY <1>1, <1>2, <1>3, TypeCorrect, StampsCorrect, PTL DEF Spec

-----------------------------------------------------------------------------
(* The alerter keeps the promise of AlertPromise.                          *)

\* Every step of the alerter is a step of the promise, or stutters on it.
LEMMA StepKeepsPromise ==
  ASSUME TypeOK, StampsAgree, [Next]_vars
  PROVE  [Promise!Next]_(Promise!vars)
<1> USE DEF Promise!vars
<1>1. ASSUME NEW k \in Keys, NEW c \in Conditions, Observe(k, c)
      PROVE  UNCHANGED Promise!vars
  BY <1>1 DEF Observe
<1>2. CASE Tick
  BY <1>2 DEF Tick, Older, Promise!Next, Promise!Pass, Promise!Older
<1>3. CASE Evaluate
  <2> DEFINE S == {x \in DOMAIN sustained : ~(sustained[x] <= MaxAge)}
  <2>1. sustained' = Promise!Restrict(sustained, DOMAIN sustained \ S)
    BY <1>3 DEF Evaluate, Cleanup, Expire, Restrict, Promise!Restrict
  <2>2. S \in SUBSET Keys
    BY DEF TypeOK, IsAgeMap
  <2>3. UNCHANGED raised
    BY <1>3 DEF Evaluate
  <2> QED BY <2>1, <2>2, <2>3 DEF Promise!Next, Promise!Forget
<1>4. ASSUME NEW k \in Keys, Check(k)
      PROVE  [Promise!Next]_(Promise!vars)
  <2>1. lag \in 0..AgeCap
    BY DEF TypeOK
  <2>2. CASE UNCHANGED <<sustained, raised>>
    BY <2>2
  <2>3. CASE UNCHANGED raised /\ sustained' = Drop(sustained, k)
    <3>1. Promise!Forget({k})
      BY <2>3 DEF Drop, Restrict, Promise!Forget, Promise!Restrict
    <3>2. {k} \in SUBSET Keys
      OBVIOUS
    <3> QED BY <3>1, <3>2 DEF Promise!Next
  <2>4. CASE /\ UNCHANGED raised
             /\ k \notin DOMAIN sustained /\ sustained' = Put(sustained, k, lag)
    BY <2>1, <2>4 DEF Put, Promise!Next, Promise!Count, Promise!Put
  <2>5. CASE UNCHANGED sustained /\ raised' # raised
    <3>1. ~InCooldown(k) /\ raised' = Put(raised, k, lag)
      BY <1>4, <2>5 DEF Check, HeldBad, Cleared, Fire, TypeOK, IsAgeMap
    <3>2. k \in Held => k \in DOMAIN sustained /\ sustained[k] - lag >= Hold[k]
      BY <1>4, <2>5, RaisedWhenHeld
    <3>3. k \in DOMAIN raised => raised[k] - lag >= Cooldown[k]
      BY <3>1 DEF InCooldown, StampsAgree, TypeOK, IsAgeMap
    <3>4. Promise!Alert(k, lag)
      BY <2>5, <3>1, <3>2, <3>3 DEF Put, Promise!Alert, Promise!Put
    <3> QED BY <2>1, <3>4 DEF Promise!Next
  <2> QED BY <1>4, <2>2, <2>3, <2>4, <2>5 DEF Check, HeldBad, Cleared, Fire, TypeOK, IsAgeMap
<1>5. CASE Send
  BY <1>5 DEF Send
<1>6. CASE Restart
  BY <1>6 DEF Restart, EmptyMap, Promise!Next, Promise!Restart, Promise!EmptyMap
<1>7. CASE UNCHANGED vars
  BY <1>7 DEF vars
<1> QED BY <1>1, <1>2, <1>3, <1>4, <1>5, <1>6, <1>7 DEF Next, CheckSome

\* The alerter implements AlertPromise.
THEOREM PromiseKept == Spec => KeepsPromise
<1>1. Init => Promise!Init
  BY DEF Init, EmptyMap, Promise!Init, Promise!EmptyMap
<1>2. TypeOK /\ StampsAgree /\ [Next]_vars => [Promise!Next]_(Promise!vars)
  BY StepKeepsPromise
<1> QED BY <1>1, <1>2, TypeCorrect, StampsCorrect, PTL DEF Spec, KeepsPromise, Promise!Spec
=============================================================================
