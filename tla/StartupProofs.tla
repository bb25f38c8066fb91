----------------------------- MODULE StartupProofs -----------------------------
(***************************************************************************)
(* Proofs about Startup for all configurations: what the loader preserves, *)
(* what can fail after it, and when the checks run.                        *)
(***************************************************************************)
EXTENDS Startup, FiniteSetTheorems, WellFoundedInduction, TLAPS

-----------------------------------------------------------------------------
(* The defaults. *)

\* A default fills a gap.
LEMMA DefaultFills ==
    ASSUME NEW value, NEW zero, NEW default, NEW applies
    PROVE  LET new == IF applies THEN Default(value, zero, default) ELSE value
           IN  new = value \/ value = zero
BY Zenon DEF Default

LEMMA CompletedBlocks ==
    ASSUME NEW c \in HealthCheck
    PROVE  LET new == CompleteBlocks(c)
           IN  /\ DOMAIN new = DOMAIN c
               /\ \A x \in DOMAIN c \ {"method", "maxBody", "group",
                                       "onSuccess", "onFailure"} :
                     new[x] = c[x]
               /\ new.method = c.method \/ c.method = ""
               /\ new.maxBody = c.maxBody \/ c.maxBody = 0
               /\ new.group = c.group \/ c.group = ""
               /\ Len(new.onSuccess) = Len(c.onSuccess)
               /\ Len(new.onFailure) = Len(c.onFailure)
               /\ "http" \in c.types => new.method # ""
               /\ "starlark" \in c.types =>
                    new.maxBody = Default(c.maxBody, 0, DefaultMaxBody)
               /\ "kafka" \in c.types => new.group # "" \/ ConsumerGroup(c) = ""
               /\ new.onSuccess = CompleteHooks(c.onSuccess)
               /\ new.onFailure = CompleteHooks(c.onFailure)
<1> DEFINE m == IF "http" \in c.types THEN Default(c.method, "", "GET") ELSE c.method
           b == IF "starlark" \in c.types THEN Default(c.maxBody, 0, DefaultMaxBody)
                                          ELSE c.maxBody
           g == IF "kafka" \in c.types THEN Default(c.group, "", ConsumerGroup(c))
                                       ELSE c.group
           s == CompleteHooks(c.onSuccess)
           f == CompleteHooks(c.onFailure)
           c1 == [c  EXCEPT !.method = m]
           c2 == [c1 EXCEPT !.maxBody = b]
           c3 == [c2 EXCEPT !.group = g]
           c4 == [c3 EXCEPT !.onSuccess = s]
           c5 == [c4 EXCEPT !.onFailure = f]
<1>1. m = c.method \/ c.method = ""
    BY DefaultFills
<1>2. b = c.maxBody \/ c.maxBody = 0
    BY DefaultFills
<1>3. g = c.group \/ c.group = ""
    BY DefaultFills
<1>4. CompleteBlocks(c) = c5
    BY Zenon DEF CompleteBlocks
<1>0. DOMAIN c = {"name", "schedule", "types", "target", "brokers", "method",
                  "maxBody", "group", "retries", "timeout", "retention",
                  "onSuccess", "onFailure"}
    BY DEF HealthCheck
<1>s. Len(s) = Len(c.onSuccess) /\ Len(f) = Len(c.onFailure)
  <2>1. c.onSuccess \in Seq(HookConfig) /\ c.onFailure \in Seq(HookConfig)
      BY DEF HealthCheck
  <2> QED BY <2>1 DEF CompleteHooks
<1>d. /\ "http" \in c.types => m # ""
      /\ "starlark" \in c.types => b = Default(c.maxBody, 0, DefaultMaxBody)
      /\ "kafka" \in c.types => g # "" \/ ConsumerGroup(c) = ""
  <2>1. "http" \in c.types => m # ""
      BY DEF Default
  <2>2. "starlark" \in c.types => b = Default(c.maxBody, 0, DefaultMaxBody)
      OBVIOUS
  <2>3. "kafka" \in c.types => g # "" \/ ConsumerGroup(c) = ""
      BY DEF Default
  <2> QED BY <2>1, <2>2, <2>3
<1>e. s = CompleteHooks(c.onSuccess) /\ f = CompleteHooks(c.onFailure)
    OBVIOUS
<1> HIDE DEF m, b, g, s, f
<1>c1. /\ DOMAIN c1 = DOMAIN c
       /\ c1.method = m
       /\ \A x \in DOMAIN c \ {"method"} : c1[x] = c[x]
    BY <1>0
<1> HIDE DEF c1
<1>c2. /\ DOMAIN c2 = DOMAIN c
       /\ c2.maxBody = b
       /\ \A x \in DOMAIN c \ {"maxBody"} : c2[x] = c1[x]
    BY <1>0, <1>c1
<1> HIDE DEF c2
<1>c3. /\ DOMAIN c3 = DOMAIN c
       /\ c3.group = g
       /\ \A x \in DOMAIN c \ {"group"} : c3[x] = c2[x]
    BY <1>0, <1>c2
<1> HIDE DEF c3
<1>c4. /\ DOMAIN c4 = DOMAIN c
       /\ c4.onSuccess = s
       /\ \A x \in DOMAIN c \ {"onSuccess"} : c4[x] = c3[x]
    BY <1>0, <1>c3
<1> HIDE DEF c4
<1>c5. /\ DOMAIN c5 = DOMAIN c
       /\ c5.onFailure = f
       /\ \A x \in DOMAIN c \ {"onFailure"} : c5[x] = c4[x]
    BY <1>0, <1>c4
<1> HIDE DEF c5
<1>6. /\ c5.method = m
      /\ c5.maxBody = b
      /\ c5.group = g
      /\ c5.onSuccess = s
    BY <1>0, <1>c1, <1>c2, <1>c3, <1>c4, <1>c5
<1>7. \A x \in DOMAIN c \ {"method", "maxBody", "group",
                            "onSuccess", "onFailure"} : c5[x] = c[x]
    BY <1>0, <1>c1, <1>c2, <1>c3, <1>c4, <1>c5
<1>8. DOMAIN c5 = DOMAIN c
    BY <1>c1, <1>c2, <1>c3, <1>c4, <1>c5
<1>9. /\ c5.method = c.method \/ c.method = ""
      /\ c5.maxBody = c.maxBody \/ c.maxBody = 0
      /\ c5.group = c.group \/ c.group = ""
      /\ c5.onSuccess = s
      /\ c5.onFailure = f
    BY <1>1, <1>2, <1>3, <1>6, <1>c5
<1>10. /\ "http" \in c.types => c5.method # ""
       /\ "starlark" \in c.types =>
            c5.maxBody = Default(c.maxBody, 0, DefaultMaxBody)
       /\ "kafka" \in c.types => c5.group # "" \/ ConsumerGroup(c) = ""
       /\ c5.onSuccess = CompleteHooks(c.onSuccess)
       /\ c5.onFailure = CompleteHooks(c.onFailure)
    BY <1>6, <1>9, <1>d, <1>e
<1> QED BY <1>4, <1>7, <1>8, <1>9, <1>10, <1>s, Zenon

\* Nothing else is changed, and negative retries are the only own value lost.
LEMMA CompletedCheck ==
    ASSUME NEW c \in HealthCheck
    PROVE  LET new == CompleteCheck(c)
           IN  /\ DOMAIN new = DOMAIN c
               /\ \A x \in DOMAIN c \ {"method", "maxBody", "group", "retries",
                                       "timeout", "onSuccess", "onFailure"} :
                     new[x] = c[x]
               /\ new.method = c.method \/ c.method = ""
               /\ new.maxBody = c.maxBody \/ c.maxBody = 0
               /\ new.group = c.group \/ c.group = ""
               /\ new.timeout = c.timeout \/ c.timeout = 0
               /\ new.retries = (IF c.retries < 0 THEN 0 ELSE c.retries)
               /\ Len(new.onSuccess) = Len(c.onSuccess)
               /\ Len(new.onFailure) = Len(c.onFailure)
               /\ new.timeout # 0
               /\ "http" \in c.types => new.method # ""
               /\ "starlark" \in c.types =>
                    new.maxBody = Default(c.maxBody, 0, DefaultMaxBody)
               /\ "kafka" \in c.types => new.group # "" \/ ConsumerGroup(c) = ""
               /\ new.onSuccess = CompleteHooks(c.onSuccess)
               /\ new.onFailure = CompleteHooks(c.onFailure)
<1> DEFINE b  == CompleteBlocks(c)
           r  == IF b.retries < 0 THEN 0 ELSE b.retries
           t  == Default(b.timeout, 0, 30)
           c1 == [b  EXCEPT !.retries = r]
           c2 == [c1 EXCEPT !.timeout = t]
<1>1. CompleteCheck(c) = c2
    BY Zenon DEF CompleteCheck
<1>0. DOMAIN c = {"name", "schedule", "types", "target", "brokers", "method",
                  "maxBody", "group", "retries", "timeout", "retention",
                  "onSuccess", "onFailure"}
    BY DEF HealthCheck
<1>b. /\ DOMAIN b = DOMAIN c
      /\ \A x \in DOMAIN c \ {"method", "maxBody", "group",
                              "onSuccess", "onFailure"} : b[x] = c[x]
      /\ b.method = c.method \/ c.method = ""
      /\ b.maxBody = c.maxBody \/ c.maxBody = 0
      /\ b.group = c.group \/ c.group = ""
      /\ Len(b.onSuccess) = Len(c.onSuccess)
      /\ Len(b.onFailure) = Len(c.onFailure)
      /\ "http" \in c.types => b.method # ""
      /\ "starlark" \in c.types =>
           b.maxBody = Default(c.maxBody, 0, DefaultMaxBody)
      /\ "kafka" \in c.types => b.group # "" \/ ConsumerGroup(c) = ""
      /\ b.onSuccess = CompleteHooks(c.onSuccess)
      /\ b.onFailure = CompleteHooks(c.onFailure)
    BY CompletedBlocks
<1> HIDE DEF b
<1>r. r = IF c.retries < 0 THEN 0 ELSE c.retries
    BY <1>0, <1>b
<1>t. (t = c.timeout \/ c.timeout = 0) /\ t # 0
  <2>1. b.timeout = c.timeout
      BY <1>0, <1>b
  <2>2. CASE c.timeout = 0
      BY <2>1, <2>2 DEF Default
  <2>3. CASE c.timeout # 0
      BY <2>1, <2>3 DEF Default
  <2> QED BY <2>2, <2>3
<1> HIDE DEF r, t
<1>c1. /\ DOMAIN c1 = DOMAIN c
       /\ c1.retries = r
       /\ \A x \in DOMAIN c \ {"retries"} : c1[x] = b[x]
    BY <1>0, <1>b
<1> HIDE DEF c1
<1>c2. /\ DOMAIN c2 = DOMAIN c
       /\ c2.timeout = t
       /\ \A x \in DOMAIN c \ {"timeout"} : c2[x] = c1[x]
    BY <1>0, <1>c1
<1> HIDE DEF c2
<1>2. \A x \in DOMAIN c \ {"retries", "timeout"} : c2[x] = b[x]
    BY <1>c1, <1>c2
<1>3. c2.retries = r
    BY <1>0, <1>c1, <1>c2
<1>4. /\ c2.method = b.method
      /\ c2.maxBody = b.maxBody
      /\ c2.group = b.group
      /\ c2.onSuccess = b.onSuccess
      /\ c2.onFailure = b.onFailure
    BY <1>0, <1>2
<1>5. \A x \in DOMAIN c \ {"method", "maxBody", "group", "retries",
                            "timeout", "onSuccess", "onFailure"} : c2[x] = c[x]
    BY <1>2, <1>b
<1>6. /\ c2.method = c.method \/ c.method = ""
      /\ c2.maxBody = c.maxBody \/ c.maxBody = 0
      /\ c2.group = c.group \/ c.group = ""
      /\ c2.timeout = c.timeout \/ c.timeout = 0
      /\ c2.timeout # 0
      /\ c2.retries = (IF c.retries < 0 THEN 0 ELSE c.retries)
      /\ Len(c2.onSuccess) = Len(c.onSuccess)
      /\ Len(c2.onFailure) = Len(c.onFailure)
    BY <1>b, <1>r, <1>t, <1>3, <1>4, <1>c2, Zenon
<1>7. /\ "http" \in c.types => c2.method # ""
      /\ "starlark" \in c.types =>
           c2.maxBody = Default(c.maxBody, 0, DefaultMaxBody)
      /\ "kafka" \in c.types => c2.group # "" \/ ConsumerGroup(c) = ""
      /\ c2.onSuccess = CompleteHooks(c.onSuccess)
      /\ c2.onFailure = CompleteHooks(c.onFailure)
    BY <1>b, <1>4
<1> QED BY <1>1, <1>5, <1>6, <1>7, <1>c2, Zenon

\* The list of checks keeps its length, and each is completed on its own.
LEMMA CompletedChecks ==
    ASSUME NEW f \in Config
    PROVE  LET new == Complete(f)
           IN  /\ Len(new.checks) = Len(f.checks)
               /\ DOMAIN new.checks = DOMAIN f.checks
               /\ \A i \in DOMAIN f.checks :
                    new.checks[i] = CompleteCheck(f.checks[i])
               /\ new.metrics = [i \in DOMAIN f.metrics |->
                                   CompleteMetrics(f.metrics[i])]
               /\ new.history = [i \in DOMAIN f.history |->
                                   CompleteHistory(f.history[i])]
<1> DEFINE cs == [i \in DOMAIN f.checks |-> CompleteCheck(f.checks[i])]
           ms == [i \in DOMAIN f.metrics |-> CompleteMetrics(f.metrics[i])]
           hs == [i \in DOMAIN f.history |-> CompleteHistory(f.history[i])]
           f1 == [f  EXCEPT !.checks = cs]
           f2 == [f1 EXCEPT !.metrics = ms]
           f3 == [f2 EXCEPT !.history = hs]
<1>1. Complete(f) = f3
    BY Zenon DEF Complete
<1>2. DOMAIN f = {"checks", "metrics", "history"} /\ f.checks \in Seq(HealthCheck)
    BY DEF Config
<1>3. /\ Len(cs) = Len(f.checks)
      /\ DOMAIN cs = DOMAIN f.checks
      /\ \A i \in DOMAIN f.checks : cs[i] = CompleteCheck(f.checks[i])
    BY <1>2
<1> HIDE DEF cs, ms, hs
<1>4. DOMAIN f1 = DOMAIN f /\ f1.checks = cs
    BY <1>2
<1> HIDE DEF f1
<1>5. DOMAIN f2 = DOMAIN f /\ f2.checks = cs /\ f2.metrics = ms
    BY <1>2, <1>4
<1> HIDE DEF f2
<1>6. f3.checks = cs /\ f3.metrics = ms /\ f3.history = hs
    BY <1>2, <1>4, <1>5
<1>7. /\ ms = [i \in DOMAIN f.metrics |-> CompleteMetrics(f.metrics[i])]
      /\ hs = [i \in DOMAIN f.history |-> CompleteHistory(f.history[i])]
    BY DEF ms, hs
<1> QED BY <1>1, <1>3, <1>6, <1>7, Zenon

-----------------------------------------------------------------------------
(* Durations and ticks. *)

\* A nonempty set of natural numbers has a least member.
LEMMA Least ==
    ASSUME NEW A \in SUBSET Nat, A # {}
    PROVE  \E m \in A : \A k \in A : m <= k
<1> DEFINE R == {ss \in Nat \X Nat : ss[1] < ss[2]}
<1>1. IsWellFoundedOn(R, Nat)
    BY NatLessThanWellFounded, Zenon DEF OpToRel
<1> HIDE DEF R
<1>2. PICK x \in A : \A y \in A : ~(<<y, x>> \in R)
    BY <1>1, WFMin, Zenon
<1>3. \A y \in A : ~(y < x)
    BY <1>2 DEF R
<1> QED BY <1>3

\* The next multiple of n after p is n - (p % n) away.
LEMMA NextMultiple ==
    ASSUME NEW p \in Nat, NEW n \in Nat \ {0}
    PROVE  /\ n - (p % n) \in 1 .. n
           /\ (p + (n - (p % n))) % n = 0
<1>1. PICK q \in Int, r \in 0 .. n - 1 : p = n * q + r /\ r = p % n
    OBVIOUS
<1>2. p + (n - r) = n * (q + 1)
    BY <1>1
<1>3. (n * (q + 1)) % n = 0
    OBVIOUS
<1> QED BY <1>1, <1>2, <1>3

\* The integer divisions only ever shorten a duration.
LEMMA EntryOfDuration ==
    ASSUME NEW ms \in Int
    PROVE  LET e == ParseDuration(ms)
           IN  /\ e \in [unit : Nat \ {0}, range : Nat \ {0}, step : Int]
               /\ 1000 * (e.unit * e.step) <= ms
               /\ ms >= 1000 => e.step >= 1
<1> DEFINE s == ms \div 1000
           m == s \div 60
           h == m \div 60
<1>1. /\ s \in Int /\ m \in Int /\ h \in Int
      /\ 1000 * s <= ms /\ 60 * m <= s /\ 60 * h <= m
      /\ ms >= 1000 => s >= 1
      /\ s >= 60 => m >= 1
      /\ m >= 60 => h >= 1
    OBVIOUS
<1>2. ParseDuration(ms) =
        CASE s < 60            -> Step(Seconds, s)
          [] s >= 60 /\ m < 60 -> Step(Minutes, m)
          [] OTHER             -> Step(Hours, h)
    BY DEF ParseDuration
<1> HIDE DEF s, m, h
<1>3. CASE s < 60
  <2>1. ParseDuration(ms) = [unit |-> 1, range |-> 60, step |-> s]
      BY <1>1, <1>2, <1>3 DEF Step, Seconds
  <2> QED BY <2>1, <1>1
<1>4. CASE s >= 60 /\ m < 60
  <2>1. ParseDuration(ms) = [unit |-> 60, range |-> 60, step |-> m]
      BY <1>1, <1>2, <1>4 DEF Step, Minutes
  <2> QED BY <2>1, <1>1, <1>4
<1>5. CASE s >= 60 /\ m >= 60
  <2>1. ParseDuration(ms) = [unit |-> 3600, range |-> 24, step |-> h]
      BY <1>1, <1>2, <1>5 DEF Step, Hours
  <2> QED BY <2>1, <1>1, <1>5
<1> QED BY <1>1, <1>3, <1>4, <1>5

\* Cron's next tick is at the first unit that matches, at most one step away,
\* also where the field wraps around.
LEMMA NextTickIsFirst ==
    ASSUME NEW spec \in [unit : Nat \ {0}, range : Nat \ {0}, step : Nat \ {0}],
           NEW t \in 0 .. Cycle(spec) - 1
    PROVE  LET k0 == t \div spec.unit
           IN  /\ k0 \in 0 .. spec.range - 1
               /\ spec.unit * k0 <= t
               /\ t < spec.unit * (k0 + 1)
               /\ \E m \in (k0 + 1) .. (k0 + spec.range) :
                    /\ NextTick(spec, t) = spec.unit * m
                    /\ m <= k0 + spec.step
                    /\ Matches(spec, m)
                    /\ \A j \in (k0 + 1) .. (k0 + spec.range) :
                         Matches(spec, j) => m <= j
<1> DEFINE u  == spec.unit
           r  == spec.range
           n  == spec.step
           k0 == t \div u
           ks == {k \in (k0 + 1) .. (k0 + r) : Matches(spec, k)}
           d  == IF k0 + (n - (k0 % n)) < r THEN n - (k0 % n) ELSE r - k0
<1>1. u \in Nat \ {0} /\ r \in Nat \ {0} /\ n \in Nat \ {0}
    OBVIOUS
<1>2. t \in Nat /\ t < u * r
    BY <1>1 DEF Cycle
<1>3. k0 \in Nat /\ u * k0 <= t /\ t < u * (k0 + 1)
  <2> HIDE DEF u
  <2>1. t = u * (t \div u) + (t % u) /\ t % u \in 0 .. u - 1 /\ t \div u \in Nat
      BY <1>1, <1>2
  <2> DEFINE q == t \div u
             z == t % u
  <2>2. t = u * q + z /\ z \in 0 .. u - 1 /\ q \in Nat
      BY <2>1
  <2> HIDE DEF q, z
  <2>3. u * q <= t /\ t < u * (q + 1)
      BY <2>2, <1>1, <1>2
  <2> QED BY <2>2, <2>3 DEF q
<1> HIDE DEF k0
<1>4. k0 < r
  <2>1. SUFFICES ASSUME k0 >= r PROVE FALSE
      BY <1>1, <1>3
  <2>2. u * k0 >= u * r
      BY <2>1, <1>1, <1>3
  <2> QED BY <2>2, <1>1, <1>2, <1>3
<1>5. n - (k0 % n) \in 1 .. n /\ (k0 + (n - (k0 % n))) % n = 0
    BY <1>1, <1>3, NextMultiple
<1>6. d \in 1 .. n /\ k0 + d \in (k0 + 1) .. (k0 + r) /\ Matches(spec, k0 + d)
  <2>1. CASE k0 + (n - (k0 % n)) < r
    <3>1. d = n - (k0 % n)
        BY <2>1
    <3>2. (k0 + d) % r = k0 + d
        BY <1>1, <1>3, <1>5, <2>1, <3>1
    <3> QED BY <1>1, <1>3, <1>4, <1>5, <2>1, <3>1, <3>2 DEF Matches
  <2>2. CASE ~(k0 + (n - (k0 % n)) < r)
    <3>1. d = r - k0
        BY <2>2
    <3>2. k0 + d = r
        BY <1>1, <1>3, <3>1
    <3>3. r % r = 0 /\ 0 % n = 0
        BY <1>1
    <3>4. d <= n - (k0 % n) /\ d >= 1
        BY <1>1, <1>3, <1>4, <1>5, <2>2, <3>1
    <3>5. Matches(spec, k0 + d)
        BY <3>2, <3>3 DEF Matches
    <3> QED BY <1>1, <1>3, <1>4, <1>5, <3>2, <3>4, <3>5
  <2> QED BY <2>1, <2>2
<1> HIDE DEF d, u, r, n
<1>7. ks \in SUBSET Nat /\ k0 + d \in ks
    BY <1>1, <1>3, <1>6
<1> DEFINE least == CHOOSE k \in ks : \A j \in ks : k <= j
<1>8. least \in ks /\ \A j \in ks : least <= j
  <2>1. \E m \in ks : \A k \in ks : m <= k
      BY <1>7, Least
  <2> QED BY <2>1, Zenon
<1>9. least \in Nat /\ least >= k0 + 1 /\ least <= k0 + d
    BY <1>1, <1>3, <1>7, <1>8
<1>10. NextTick(spec, t) = u * least
    BY Zenon DEF NextTick, u, r, k0
<1>11. \A j \in (k0 + 1) .. (k0 + r) : Matches(spec, j) => least <= j
    BY <1>8
<1>12. least \in (k0 + 1) .. (k0 + r) /\ Matches(spec, least)
    BY <1>8
<1> HIDE DEF least, ks
<1>13. least <= k0 + n
    BY <1>1, <1>3, <1>6, <1>9
<1> HIDE DEF k0
<1>14. /\ k0 \in 0 .. r - 1
       /\ u * k0 <= t
       /\ t < u * (k0 + 1)
       /\ \E m \in (k0 + 1) .. (k0 + r) :
            /\ NextTick(spec, t) = u * m
            /\ m <= k0 + n
            /\ Matches(spec, m)
            /\ \A j \in (k0 + 1) .. (k0 + r) : Matches(spec, j) => m <= j
  <2>1. k0 \in 0 .. r - 1
      BY <1>1, <1>3, <1>4
  <2> QED BY <2>1, <1>3, <1>10, <1>11, <1>12, <1>13, Zenon
<1> QED BY <1>14, Zenon DEF u, r, n, k0

\* The next tick is later, and by no more than one step.
LEMMA NextTickIsSoon ==
    ASSUME NEW spec \in [unit : Nat \ {0}, range : Nat \ {0}, step : Nat \ {0}],
           NEW t \in 0 .. Cycle(spec) - 1
    PROVE  /\ NextTick(spec, t) \in Nat
           /\ NextTick(spec, t) > t
           /\ NextTick(spec, t) - t <= spec.unit * spec.step
<1> DEFINE u  == spec.unit
           n  == spec.step
           r  == spec.range
           k0 == t \div u
<1>1. u \in Nat \ {0} /\ n \in Nat \ {0} /\ r \in Nat \ {0} /\ t \in Int
    BY DEF Cycle
<1>2. k0 \in 0 .. r - 1 /\ u * k0 <= t /\ t < u * (k0 + 1)
    BY NextTickIsFirst, Zenon
<1>3. PICK m \in (k0 + 1) .. (k0 + r) :
        NextTick(spec, t) = u * m /\ m <= k0 + n
    BY NextTickIsFirst, Zenon
<1> HIDE DEF u, n, r, k0
<1>4. u * m \in Nat /\ u * m >= u * (k0 + 1) /\ u * m <= u * (k0 + n)
    BY <1>1, <1>2, <1>3
<1>5. u * (k0 + n) = u * k0 + u * n
    BY <1>1, <1>2
<1>6. u * n \in Int /\ u * k0 \in Int /\ u * (k0 + 1) \in Int
    BY <1>1, <1>2
<1>7. NextTick(spec, t) - t <= u * n
    BY <1>1, <1>2, <1>3, <1>4, <1>5, <1>6
<1>8. NextTick(spec, t) \in Nat /\ NextTick(spec, t) > t
    BY <1>1, <1>2, <1>3, <1>4, <1>6
<1> QED BY <1>7, <1>8 DEF u, n

-----------------------------------------------------------------------------
(* The configuration of main. *)

\* main works with the completed form of a valid configuration.
Taken ==
    /\ given \in Configs
    /\ given \in Config
    /\ stage \in {"read", "invalid", "adding", "failed", "running"}
    /\ Loaded => config = Complete(given) /\ Valid(given)

LEMMA TakenHolds == Spec => []Taken
<1>1. Init => Taken
    BY StartupAssumption DEF Init, Taken, Loaded
<1>2. Taken /\ [Next]_vars => Taken'
  <2> SUFFICES ASSUME Taken, [Next]_vars PROVE Taken'
      OBVIOUS
  <2>1. CASE Load
    <3>1. given' = given
        BY <2>1 DEF Load
    <3>2. CASE Valid(given)
        BY <2>1, <3>1, <3>2 DEF Load, Taken, Loaded
    <3>3. CASE ~Valid(given)
        BY <2>1, <3>1, <3>3 DEF Load, Taken, Loaded
    <3> QED BY <3>2, <3>3
  <2>2. CASE AddHealthCheck
    <3>1. /\ UNCHANGED <<given, config>>
          /\ Loaded
          /\ stage' \in {"adding", "failed"}
        BY <2>2 DEF AddHealthCheck, Loaded
    <3> QED BY <3>1 DEF Taken, Loaded
  <2>3. CASE StartCron
    <3>1. /\ UNCHANGED <<given, config>>
          /\ Loaded
          /\ stage' = "running"
        BY <2>3 DEF StartCron, Loaded
    <3> QED BY <3>1 DEF Taken, Loaded
  <2>4. CASE Fire
      BY <2>4 DEF Fire, Taken, Loaded
  <2>5. CASE UNCHANGED vars
      BY <2>5 DEF vars, Taken, Loaded
  <2> QED BY <2>1, <2>2, <2>3, <2>4, <2>5 DEF Next, Settled
<1> QED BY <1>1, <1>2, PTL DEF Spec

\* No default is written over these.
LEMMA CompletedKeeps ==
    ASSUME NEW c \in HealthCheck
    PROVE  /\ CompleteCheck(c).types = c.types
           /\ CompleteCheck(c).schedule = c.schedule
           /\ CompleteCheck(c).retention = c.retention
<1> DEFINE new    == CompleteCheck(c)
           others == DOMAIN c \ {"method", "maxBody", "group", "retries",
                                 "timeout", "onSuccess", "onFailure"}
<1>1. \A x \in others : new[x] = c[x]
    BY CompletedCheck
<1>2. "types" \in others /\ "schedule" \in others /\ "retention" \in others
    BY DEF HealthCheck
<1> HIDE DEF new, others
<1>3. new.types = c.types /\ new.schedule = c.schedule /\ new.retention = c.retention
    BY <1>1, <1>2
<1> QED BY <1>3 DEF new

\* What main knows of a check that it registers.
LEMMA ChecksKept ==
    ASSUME Taken, Loaded
    PROVE  /\ Len(config.checks) = Len(given.checks)
           /\ Len(given.checks) \in Nat
           /\ \A i \in 1 .. Len(given.checks) :
                LET old == given.checks[i]
                    new == config.checks[i]
                IN  /\ old \in HealthCheck
                    /\ CheckValid(old)
                    /\ new = CompleteCheck(old)
                    /\ new.types = old.types
                    /\ new.schedule = old.schedule
                    /\ new.retention = old.retention
<1>1. config = Complete(given) /\ Valid(given) /\ given \in Config
    BY DEF Taken
<1>2. given.checks \in Seq(HealthCheck)
    BY <1>1 DEF Config
<1>3. /\ Len(given.checks) \in Nat
      /\ DOMAIN given.checks = 1 .. Len(given.checks)
      /\ \A i \in 1 .. Len(given.checks) : given.checks[i] \in HealthCheck
    BY <1>2
<1>4. /\ Len(config.checks) = Len(given.checks)
      /\ \A i \in 1 .. Len(given.checks) :
           config.checks[i] = CompleteCheck(given.checks[i])
    BY <1>1, <1>3, CompletedChecks, Zenon
<1>5. \A i \in 1 .. Len(given.checks) : CheckValid(given.checks[i])
    BY <1>1, <1>3, Zenon DEF Valid
<1> QED BY <1>3, <1>4, <1>5, CompletedKeeps, Zenon

\* A hook keeps what it was given.
LEMMA HookIsKept ==
    ASSUME NEW h \in HookConfig
    PROVE  Kept(h, CompleteHook(h), {}, {"method"})
<1> DEFINE m == IF "http" \in h.kinds THEN Default(h.method, "", "POST") ELSE h.method
           new == [h EXCEPT !.method = m]
<1>1. CompleteHook(h) = new
    BY Zenon DEF CompleteHook
<1>2. m = h.method \/ h.method = ""
    BY DefaultFills
<1>3. DOMAIN h = {"kinds", "url", "method", "topic", "brokers"}
    BY DEF HookConfig
<1> HIDE DEF m
<1>4. new.method = m /\ \A x \in DOMAIN h \ {"method"} : new[x] = h[x]
    BY <1>3
<1> HIDE DEF new
<1>5. \A x \in DOMAIN h : new[x] = h[x] \/ (x \in {"method"} /\ h[x] = Zero(x))
    BY <1>2, <1>3, <1>4 DEF Zero
<1> QED BY <1>1, <1>5, Zenon DEF Kept

LEMMA MetricsAreKept ==
    ASSUME NEW m \in [address : BOOLEAN, type : STRING]
    PROVE  Kept(m, CompleteMetrics(m), {}, {"type"})
<1> DEFINE t == Default(m.type, "", "prometheus")
           new == [m EXCEPT !.type = t]
<1>1. CompleteMetrics(m) = new
    BY Zenon DEF CompleteMetrics
<1>2. t = m.type \/ m.type = ""
    BY Zenon DEF Default
<1>3. DOMAIN m = {"address", "type"}
    OBVIOUS
<1> HIDE DEF t
<1>4. new.type = t /\ \A x \in DOMAIN m \ {"type"} : new[x] = m[x]
    BY <1>3
<1> HIDE DEF new
<1>5. \A x \in DOMAIN m : new[x] = m[x] \/ (x \in {"type"} /\ m[x] = Zero(x))
    BY <1>2, <1>3, <1>4 DEF Zero
<1> QED BY <1>1, <1>5, Zenon DEF Kept

LEMMA HistoryIsKept ==
    ASSUME NEW h \in [path : Paths, retention : Int]
    PROVE  Kept(h, CompleteHistory(h), {}, {"retention"})
<1> DEFINE r == Default(h.retention, 0, 1000)
           new == [h EXCEPT !.retention = r]
<1>1. CompleteHistory(h) = new
    BY Zenon DEF CompleteHistory
<1>2. r = h.retention \/ h.retention = 0
    BY Zenon DEF Default
<1>3. DOMAIN h = {"path", "retention"}
    OBVIOUS
<1> HIDE DEF r
<1>4. new.retention = r /\ \A x \in DOMAIN h \ {"retention"} : new[x] = h[x]
    BY <1>3
<1> HIDE DEF new
<1>5. \A x \in DOMAIN h : new[x] = h[x] \/ (x \in {"retention"} /\ h[x] = Zero(x))
    BY <1>2, <1>3, <1>4 DEF Zero
<1> QED BY <1>1, <1>5, Zenon DEF Kept

\* A list of hooks keeps its length and every field of its entries.
LEMMA HooksAreKept ==
    ASSUME NEW hooks \in Seq(HookConfig)
    PROVE  AllKept(hooks, CompleteHooks(hooks), {"method"})
<1>1. Len(CompleteHooks(hooks)) = Len(hooks)
    BY DEF CompleteHooks
<1>2. \A i \in DOMAIN hooks : hooks[i] \in HookConfig
    OBVIOUS
<1>3. \A i \in DOMAIN hooks : CompleteHooks(hooks)[i] = CompleteHook(hooks[i])
    BY DEF CompleteHooks
<1> QED BY <1>1, <1>2, <1>3, HookIsKept, Zenon DEF AllKept

LEMMA ElementOfSeq ==
    ASSUME NEW S, NEW s \in Seq(S)
    PROVE  \A i \in DOMAIN s : s[i] \in S
OBVIOUS

\* So do the two blocks beside the checks.
LEMMA BlocksAreKept ==
    ASSUME NEW f \in Config
    PROVE  /\ AllKept(f.metrics, Complete(f).metrics, {"type"})
           /\ AllKept(f.history, Complete(f).history, {"retention"})
<1> DEFINE ms == [i \in DOMAIN f.metrics |-> CompleteMetrics(f.metrics[i])]
           hs == [i \in DOMAIN f.history |-> CompleteHistory(f.history[i])]
<1>1. Complete(f).metrics = ms /\ Complete(f).history = hs
    BY CompletedChecks, Zenon
<1>2. /\ f.metrics \in Seq([address : BOOLEAN, type : STRING])
      /\ f.history \in Seq([path : Paths, retention : Int])
    BY DEF Config
<1>3. AllKept(f.metrics, ms, {"type"})
  <2>1. Len(ms) = Len(f.metrics)
      BY <1>2
  <2>2. \A i \in DOMAIN f.metrics : f.metrics[i] \in [address : BOOLEAN, type : STRING]
      BY <1>2, ElementOfSeq, Zenon
  <2>3. \A i \in DOMAIN f.metrics : ms[i] = CompleteMetrics(f.metrics[i])
      OBVIOUS
  <2> HIDE DEF ms
  <2> QED BY <2>1, <2>2, <2>3, MetricsAreKept, Zenon DEF AllKept
<1>4. AllKept(f.history, hs, {"retention"})
  <2>1. Len(hs) = Len(f.history)
      BY <1>2
  <2>2. \A i \in DOMAIN f.history : f.history[i] \in [path : Paths, retention : Int]
      BY <1>2, ElementOfSeq, Zenon
  <2>3. \A i \in DOMAIN f.history : hs[i] = CompleteHistory(f.history[i])
      OBVIOUS
  <2> HIDE DEF hs
  <2> QED BY <2>1, <2>2, <2>3, HistoryIsKept, Zenon DEF AllKept
<1> HIDE DEF ms, hs
<1> QED BY <1>1, <1>3, <1>4

\* A check keeps what it was given, negative retries aside.
LEMMA CheckIsKept ==
    ASSUME NEW c \in HealthCheck
    PROVE  LET new == CompleteCheck(c)
           IN  /\ Kept(c, new, {"retries", "onSuccess", "onFailure"},
                       {"method", "maxBody", "group", "timeout"})
               /\ new.retries = IF c.retries < 0 THEN 0 ELSE c.retries
               /\ AllKept(c.onSuccess, new.onSuccess, {"method"})
               /\ AllKept(c.onFailure, new.onFailure, {"method"})
<1> DEFINE new == CompleteCheck(c)
<1>1. /\ \A x \in DOMAIN c \ {"method", "maxBody", "group", "retries",
                              "timeout", "onSuccess", "onFailure"} :
           new[x] = c[x]
      /\ new.method = c.method \/ c.method = ""
      /\ new.maxBody = c.maxBody \/ c.maxBody = 0
      /\ new.group = c.group \/ c.group = ""
      /\ new.timeout = c.timeout \/ c.timeout = 0
      /\ new.retries = (IF c.retries < 0 THEN 0 ELSE c.retries)
      /\ new.onSuccess = CompleteHooks(c.onSuccess)
      /\ new.onFailure = CompleteHooks(c.onFailure)
    BY CompletedCheck
<1>2. c.onSuccess \in Seq(HookConfig) /\ c.onFailure \in Seq(HookConfig)
    BY DEF HealthCheck
<1> HIDE DEF new
<1>3. \A x \in DOMAIN c \ {"retries", "onSuccess", "onFailure"} :
        new[x] = c[x] \/ (/\ x \in {"method", "maxBody", "group", "timeout"}
                          /\ c[x] = Zero(x))
    BY <1>1 DEF Zero
<1>4. Kept(c, new, {"retries", "onSuccess", "onFailure"},
           {"method", "maxBody", "group", "timeout"})
    BY <1>3, Zenon DEF Kept
<1>5. /\ AllKept(c.onSuccess, new.onSuccess, {"method"})
      /\ AllKept(c.onFailure, new.onFailure, {"method"})
    BY <1>1, <1>2, HooksAreKept, Zenon
<1> QED BY <1>1, <1>4, <1>5 DEF new

\* Whatever the file gave to a check, to one of its hooks, to the metrics or to
\* the history block is what the daemon works with, gaps and negative retries
\* aside (OwnValuesKept).
THEOREM GivenIsKept == Spec => []OwnValuesKept
<1>1. Taken => OwnValuesKept
  <2> SUFFICES ASSUME Taken, Loaded PROVE OwnValuesKept
      BY Zenon DEF OwnValuesKept
  <2>1. /\ AllKept(given.metrics, config.metrics, {"type"})
        /\ AllKept(given.history, config.history, {"retention"})
      BY BlocksAreKept, Zenon DEF Taken
  <2>2. /\ Len(config.checks) = Len(given.checks)
        /\ DOMAIN given.checks = 1 .. Len(given.checks)
        /\ \A i \in 1 .. Len(given.checks) :
             /\ given.checks[i] \in HealthCheck
             /\ config.checks[i] = CompleteCheck(given.checks[i])
    <3>1. given.checks \in Seq(HealthCheck)
        BY DEF Taken, Config
    <3>2. DOMAIN given.checks = 1 .. Len(given.checks)
        BY <3>1
    <3> QED BY <3>2, ChecksKept, Zenon
  <2> QED BY <2>1, <2>2, CheckIsKept, Zenon DEF OwnValuesKept
<1> QED BY <1>1, TakenHolds, PTL

-----------------------------------------------------------------------------
(* What the rest of the program takes for granted. *)

\* A list of valid hooks is sent as it is completed.
LEMMA HooksAreSendable ==
    ASSUME NEW hooks \in Seq(HookConfig),
           \A i \in DOMAIN hooks : HookValid(hooks[i])
    PROVE  \A i \in DOMAIN CompleteHooks(hooks) : IsSendable(CompleteHooks(hooks)[i])
<1>1. SUFFICES ASSUME NEW i \in DOMAIN hooks
               PROVE  IsSendable(CompleteHook(hooks[i]))
    BY DEF CompleteHooks
<1> DEFINE h == hooks[i]
           m == IF "http" \in h.kinds THEN Default(h.method, "", "POST") ELSE h.method
           new == [h EXCEPT !.method = m]
<1>2. h \in HookConfig /\ HookValid(h)
    OBVIOUS
<1> HIDE DEF h
<1>3. h.kinds \subseteq {"http", "kafka"} /\ Cardinality(h.kinds) = 1
    BY <1>2 DEF HookConfig, HookValid
<1>4. h.kinds = {"http"} \/ h.kinds = {"kafka"}
  <2>1. IsFiniteSet({"http", "kafka"})
    <3>1. IsFiniteSet({"http"} \cup {"kafka"})
        BY FS_Singleton, FS_AddElement
    <3>2. {"http", "kafka"} = {"http"} \cup {"kafka"}
        OBVIOUS
    <3> QED BY <3>1, <3>2
  <2>2. IsFiniteSet(h.kinds)
      BY <1>3, <2>1, FS_Subset
  <2>3. \E x : h.kinds = {x}
      BY <1>3, <2>2, FS_Singleton
  <2> QED BY <1>3, <2>3
<1>5. "http" \in h.kinds => m # ""
    BY DEF Default
<1>6. CompleteHook(h) = new
    BY Zenon DEF CompleteHook
<1> HIDE DEF m
<1>7. new.kinds = h.kinds /\ new.method = m
    BY <1>2 DEF HookConfig
<1> HIDE DEF new
<1>8. IsSendable(new)
    BY <1>4, <1>5, <1>7 DEF IsSendable
<1> QED BY <1>6, <1>8 DEF h

\* The numbers of a valid check once it is completed.
LEMMA NumbersAreRunnable ==
    ASSUME NEW c \in HealthCheck, CheckValid(c)
    PROVE  /\ CompleteCheck(c).retries \in Nat
           /\ "starlark" \in c.types => CompleteCheck(c).maxBody \in Nat \ {0}
<1> DEFINE new == CompleteCheck(c)
<1>1. c.maxBody \in Int /\ c.retries \in Int
    BY DEF HealthCheck
<1>2. /\ new.retries = (IF c.retries < 0 THEN 0 ELSE c.retries)
      /\ "starlark" \in c.types =>
           new.maxBody = Default(c.maxBody, 0, DefaultMaxBody)
    BY CompletedCheck
<1>3. "starlark" \in c.types => c.maxBody >= 0
    BY DEF CheckValid
<1>4. DefaultMaxBody \in Nat \ {0}
    BY SMT DEF DefaultMaxBody
<1> HIDE DEF new
<1>5. "starlark" \in c.types =>
        new.maxBody = IF c.maxBody = 0 THEN DefaultMaxBody ELSE c.maxBody
    BY <1>2 DEF Default
<1> QED BY <1>1, <1>2, <1>3, <1>4, <1>5 DEF new

\* A valid check can be run once it is completed.
LEMMA CheckIsRunnable ==
    ASSUME NEW c \in HealthCheck, CheckValid(c), ConsumerGroup(c) # ""
    PROVE  IsRunnable(CompleteCheck(c))
<1> DEFINE new == CompleteCheck(c)
<1>1. /\ new.types = c.types
      /\ new.schedule = c.schedule
    BY CompletedKeeps
<1>2. /\ new.timeout # 0
      /\ "http" \in c.types => new.method # ""
      /\ "kafka" \in c.types => new.group # ""
      /\ new.onSuccess = CompleteHooks(c.onSuccess)
      /\ new.onFailure = CompleteHooks(c.onFailure)
    BY CompletedCheck
<1>3. new.retries \in Nat /\ ("starlark" \in c.types => new.maxBody \in Nat \ {0})
    BY NumbersAreRunnable
<1>4. "kafka" \in c.types => c.schedule.form = "duration"
    BY DEF CheckValid
<1>5. /\ \A i \in DOMAIN CompleteHooks(c.onSuccess) :
           IsSendable(CompleteHooks(c.onSuccess)[i])
      /\ \A i \in DOMAIN CompleteHooks(c.onFailure) :
           IsSendable(CompleteHooks(c.onFailure)[i])
  <2>1. /\ \A i \in DOMAIN c.onSuccess : HookValid(c.onSuccess[i])
        /\ \A i \in DOMAIN c.onFailure : HookValid(c.onFailure[i])
      BY DEF CheckValid
  <2>2. c.onSuccess \in Seq(HookConfig) /\ c.onFailure \in Seq(HookConfig)
      BY DEF HealthCheck
  <2> QED BY <2>1, <2>2, HooksAreSendable
<1> HIDE DEF new
<1> QED BY <1>1, <1>2, <1>3, <1>4, <1>5, Zenon DEF IsRunnable, new

\* The retention of a valid history block, and of the checks beside it.
LEMMA HistoryIsBounded ==
    ASSUME Taken, Loaded, NEW i \in DOMAIN config.history
    PROVE  /\ config.history[i].retention \in Nat \ {0}
           /\ \A k \in DOMAIN given.checks : given.checks[k].retention \in Nat
<1>1. config = Complete(given) /\ Valid(given) /\ given \in Config
    BY DEF Taken
<1>2. config.history = [k \in DOMAIN given.history |->
                          CompleteHistory(given.history[k])]
    BY <1>1, CompletedChecks, Zenon
<1>3. i \in DOMAIN given.history /\ config.history[i] = CompleteHistory(given.history[i])
    BY <1>2
<1> DEFINE h == given.history[i]
           n == Default(h.retention, 0, 1000)
<1>4. h \in [path : Paths, retention : Int]
  <2>1. given.history \in Seq([path : Paths, retention : Int])
      BY <1>1 DEF Config
  <2>2. \A S : \A s \in Seq(S) : \A k \in DOMAIN s : s[k] \in S
      OBVIOUS
  <2> QED BY <1>3, <2>1, <2>2, Zenon
<1>5. HistoryValid(h, given.checks)
    BY <1>1, <1>3 DEF Valid
<1> HIDE DEF h
<1>6. h.retention \in Int /\ h.retention >= 0
    BY <1>4, <1>5 DEF HistoryValid
<1>7. n \in Nat \ {0}
    BY <1>6 DEF Default
<1>8. CompleteHistory(h) = [h EXCEPT !.retention = n]
    BY Zenon DEF CompleteHistory
<1> HIDE DEF n
<1>9. CompleteHistory(h).retention = n
    BY <1>4, <1>8
<1>10. \A k \in DOMAIN given.checks : given.checks[k].retention \in Nat
  <2>1. \A k \in DOMAIN given.checks : given.checks[k] \in HealthCheck
      BY <1>1 DEF Config
  <2>2. \A k \in DOMAIN given.checks : given.checks[k].retention \in Int
      BY <2>1 DEF HealthCheck
  <2>3. \A k \in DOMAIN given.checks : given.checks[k].retention >= 0
      BY <1>5 DEF HistoryValid
  <2> QED BY <2>2, <2>3
<1> QED BY <1>3, <1>7, <1>9, <1>10 DEF h

\* Whatever the loader lets through, the rest of the program can run.
THEOREM LoadedCanRun == Spec => []LoadedIsRunnable
<1>1. Taken => LoadedIsRunnable
  <2> SUFFICES ASSUME Taken, Loaded
               PROVE  /\ \A i \in DOMAIN config.checks : IsRunnable(config.checks[i])
                      /\ \A i \in DOMAIN config.history :
                           /\ config.history[i].retention \in Nat \ {0}
                           /\ \A k \in DOMAIN config.checks :
                                config.checks[k].retention \in Nat
      BY DEF LoadedIsRunnable
  <2>1. /\ DOMAIN config.checks = DOMAIN given.checks
        /\ DOMAIN given.checks = 1 .. Len(given.checks)
    <3>1. config = Complete(given) /\ given \in Config
        BY DEF Taken
    <3>2. given.checks \in Seq(HealthCheck)
        BY <3>1 DEF Config
    <3>3. DOMAIN config.checks = DOMAIN given.checks
        BY <3>1, CompletedChecks, Zenon
    <3> QED BY <3>2, <3>3
  <2>2. \A i \in DOMAIN given.checks :
          /\ given.checks[i] \in HealthCheck
          /\ CheckValid(given.checks[i])
          /\ config.checks[i] = CompleteCheck(given.checks[i])
          /\ config.checks[i].retention = given.checks[i].retention
      BY <2>1, ChecksKept, Zenon
  <2>3. ASSUME NEW i \in DOMAIN config.checks PROVE IsRunnable(config.checks[i])
    <3>1. i \in DOMAIN given.checks
        BY <2>1
    <3>2. ConsumerGroup(given.checks[i]) # ""
        BY <3>1, StartupAssumption DEF Taken, ConsumerGroup
    <3> QED BY <2>2, <3>1, <3>2, CheckIsRunnable
  <2>4. ASSUME NEW i \in DOMAIN config.history
        PROVE  /\ config.history[i].retention \in Nat \ {0}
               /\ \A k \in DOMAIN config.checks : config.checks[k].retention \in Nat
      BY <2>1, <2>2, HistoryIsBounded
  <2> QED BY <2>3, <2>4
<1> QED BY <1>1, TakenHolds, PTL

-----------------------------------------------------------------------------
(* Registration. *)

EntryType == [unit : Nat, range : Nat, step : Int]

\* The entries and intervals are those of the checks registered so far, and
\* registration stops at a check that cannot be registered.
Registered ==
    /\ entries \in Seq(EntryType)
    /\ intervals \in Seq(Int)
    /\ ~Loaded => entries = <<>> /\ intervals = <<>>
    /\ Len(entries) <= Len(intervals)
    /\ stage = "adding" => Len(entries) = Len(intervals)
    /\ Loaded =>
         /\ Len(entries) <= Len(config.checks)
         /\ \A i \in 1 .. Len(entries) :
              LET c == config.checks[i]
              IN  /\ entries[i] = Entry(c)
                  /\ ~Refused(c)
                  /\ Checker(c) = "kafka" => intervals[i] = c.schedule.ms
    /\ stage = "failed" =>
         /\ Len(entries) < Len(config.checks)
         /\ LET c == config.checks[Len(entries) + 1]
            IN  Checker(c) = "none" \/ InitFails(c) \/ Refused(c)

LEMMA EntryTyped ==
    ASSUME NEW c, c.schedule.ms \in Int
    PROVE  Entry(c) \in EntryType
<1>1. ParseDuration(c.schedule.ms) \in EntryType
  <2> DEFINE e == ParseDuration(c.schedule.ms)
  <2>1. e \in [unit : Nat \ {0}, range : Nat \ {0}, step : Int]
      BY EntryOfDuration, ZenonT(60)
  <2> HIDE DEF e
  <2>2. e \in EntryType
      BY <2>1 DEF EntryType
  <2> QED BY <2>2 DEF e
<1>2. OwnCron \in EntryType
    BY DEF OwnCron, EntryType
<1> QED BY <1>1, <1>2, Zenon DEF Entry

LEMMA RegisteredHolds == Spec => []Registered
<1>1. Init => Registered
    BY DEF Init, Registered, Loaded
<1>2. Taken /\ Registered /\ [Next]_vars => Registered'
  <2> SUFFICES ASSUME Taken, Registered, [Next]_vars PROVE Registered'
      OBVIOUS
  <2>1. CASE Load
    <3>1. /\ entries = <<>> /\ intervals = <<>>
          /\ UNCHANGED <<entries, intervals>>
          /\ stage' \in {"adding", "invalid"}
        BY <2>1 DEF Load, Registered, Loaded
    <3>2. Loaded' => Len(config.checks)' \in Nat
      <4> SUFFICES ASSUME Loaded' PROVE Len(config'.checks) \in Nat
          OBVIOUS
      <4>1. config' = Complete(given) /\ given \in Config
          BY <2>1 DEF Load, Loaded, Taken
      <4>2. Len(given.checks) \in Nat
          BY <4>1 DEF Config
      <4> QED BY <4>1, <4>2, CompletedChecks
    <3> QED BY <3>1, <3>2 DEF Registered, Loaded, EntryType
  <2>2. CASE AddHealthCheck
    <3> DEFINE c == config.checks[Len(entries) + 1]
               n == Len(entries) + 1
               matched == Checker(c) # "none" /\ ~InitFails(c)
    <3>1. /\ stage = "adding"
          /\ Loaded
          /\ Len(entries) \in Nat
          /\ Len(entries) < Len(config.checks)
          /\ Len(intervals) = Len(entries)
          /\ UNCHANGED config
        BY <2>2 DEF AddHealthCheck, Registered, Loaded
    <3>2. c.schedule.ms \in Int /\ Len(config.checks) \in Nat
      <4>1. n \in 1 .. Len(given.checks)
          BY <3>1, ChecksKept
      <4>2. given.checks[n] \in HealthCheck /\ c.schedule = given.checks[n].schedule
          BY <3>1, <4>1, ChecksKept
      <4> QED BY <3>1, <4>2, ChecksKept DEF HealthCheck
    <3>3. \/ intervals' = Append(intervals, IF Checker(c) = "kafka"
                                            THEN c.schedule.ms ELSE 0)
             /\ matched
          \/ intervals' = intervals /\ ~matched
        BY <2>2 DEF AddHealthCheck
    <3>4. \/ matched /\ ~Refused(c) /\ entries' = Append(entries, Entry(c))
             /\ stage' = "adding"
          \/ (~matched \/ Refused(c)) /\ entries' = entries /\ stage' = "failed"
        BY <2>2, <3>1 DEF AddHealthCheck
    <3>5. Entry(c) \in EntryType
        BY <3>2, EntryTyped
    <3> HIDE DEF c, matched
    <3>6. CASE stage' = "adding"
      <4>1. /\ matched /\ ~Refused(c)
            /\ entries' = Append(entries, Entry(c))
            /\ intervals' = Append(intervals, IF Checker(c) = "kafka"
                                              THEN c.schedule.ms ELSE 0)
          BY <3>3, <3>4, <3>6
      <4>2. entries' \in Seq(EntryType) /\ intervals' \in Seq(Int)
          BY <3>2, <3>5, <4>1 DEF Registered
      <4>3. Len(entries') = n /\ Len(intervals') = n
          BY <3>1, <4>1 DEF Registered
      <4>4. ASSUME NEW i \in 1 .. n
            PROVE  LET k == config.checks[i]
                   IN  /\ entries'[i] = Entry(k)
                       /\ ~Refused(k)
                       /\ Checker(k) = "kafka" => intervals'[i] = k.schedule.ms
        <5>1. CASE i = n
          <6>1. entries'[n] = Entry(c)
              BY <4>1, <3>1 DEF Registered
          <6>2. intervals'[n] = IF Checker(c) = "kafka" THEN c.schedule.ms ELSE 0
              BY <4>1, <3>1, <3>2 DEF Registered
          <6> QED BY <4>1, <5>1, <6>1, <6>2 DEF c
        <5>2. CASE i # n
          <6>1. i \in 1 .. Len(entries)
              BY <5>2, <3>1
          <6>2. entries'[i] = entries[i] /\ intervals'[i] = intervals[i]
              BY <4>1, <3>1, <6>1 DEF Registered
          <6> QED BY <3>1, <6>1, <6>2 DEF Registered
        <5> QED BY <5>1, <5>2
      <4>5. n <= Len(config.checks)
          BY <3>1, <3>2
      <4>6. /\ Loaded' /\ stage' # "failed"
            /\ Len(entries') <= Len(config'.checks)
            /\ Len(entries') = Len(intervals')
            /\ Len(entries') <= Len(intervals')
          BY <3>1, <3>6, <4>3, <4>5 DEF Loaded
      <4>7. \A i \in 1 .. Len(entries') :
              LET k == config'.checks[i]
              IN  /\ entries'[i] = Entry(k)
                  /\ ~Refused(k)
                  /\ Checker(k) = "kafka" => intervals'[i] = k.schedule.ms
          BY <3>1, <4>3, <4>4
      <4> QED BY <4>2, <4>6, <4>7 DEF Registered
    <3>7. CASE stage' = "failed"
      <4>1. (~matched \/ Refused(c)) /\ entries' = entries
          BY <3>4, <3>7
      <4>2. Checker(c) = "none" \/ InitFails(c) \/ Refused(c)
          BY <4>1 DEF matched
      <4>3. /\ intervals' \in Seq(Int)
            /\ Len(intervals') >= Len(intervals)
            /\ \A i \in 1 .. Len(intervals) : intervals'[i] = intervals[i]
        <5> DEFINE interval == IF Checker(c) = "kafka" THEN c.schedule.ms ELSE 0
        <5>1. interval \in Int /\ intervals \in Seq(Int)
            BY <3>2 DEF Registered
        <5> HIDE DEF interval
        <5>2. CASE intervals' = Append(intervals, interval)
            BY <5>1, <5>2
        <5>3. CASE intervals' = intervals
            BY <5>1, <5>3
        <5> QED BY <3>3, <5>2, <5>3 DEF interval
      <4>4. \A i \in 1 .. Len(entries) :
              LET k == config.checks[i]
              IN  /\ entries[i] = Entry(k)
                  /\ ~Refused(k)
                  /\ Checker(k) = "kafka" => intervals'[i] = k.schedule.ms
          BY <3>1, <4>3 DEF Registered
      <4>5. Len(entries) <= Len(intervals')
          BY <3>1, <4>3 DEF Registered
      <4>6. entries \in Seq(EntryType) /\ Len(entries) <= Len(config.checks)
          BY <3>1 DEF Registered
      <4> QED BY <3>1, <3>7, <4>1, <4>2, <4>3, <4>4, <4>5, <4>6
              DEF Registered, Loaded, c
    <3> QED BY <3>4, <3>6, <3>7
  <2>3. CASE StartCron
    <3>1. /\ UNCHANGED <<config, entries, intervals>>
          /\ Loaded
          /\ stage' = "running"
        BY <2>3 DEF StartCron, Loaded
    <3> QED BY <3>1 DEF Registered, Loaded
  <2>4. CASE Fire
      BY <2>4 DEF Fire, Registered, Loaded
  <2>5. CASE UNCHANGED vars
      BY <2>5 DEF vars, Registered, Loaded
  <2> QED BY <2>1, <2>2, <2>3, <2>4, <2>5 DEF Next, Settled
<1> QED BY <1>1, <1>2, TakenHolds, PTL DEF Spec

\* Whatever else is wrong with a configuration is found before anything is
\* started (OnlySchedulesFailLate).
THEOREM SchedulesFailLate == Spec => []OnlySchedulesFailLate
<1>1. Taken /\ Registered => OnlySchedulesFailLate
  <2> SUFFICES ASSUME Taken, Registered, stage = "failed"
               PROVE  LET c == config.checks[Len(entries) + 1]
                      IN  \/ c.schedule.form = "junk"
                          \/ c.schedule.form = "duration" /\ c.schedule.ms < 1000
                          \/ c.types = {"kafka"} /\ c.schedule.padded
      BY Zenon DEF OnlySchedulesFailLate
  <2> DEFINE n   == Len(entries) + 1
             old == given.checks[n]
             c   == config.checks[n]
  <2>1. /\ Loaded
        /\ n \in Nat /\ n >= 1 /\ n <= Len(config.checks)
        /\ Checker(c) = "none" \/ InitFails(c) \/ Refused(c)
      BY DEF Registered, Loaded
  <2>2. /\ old \in HealthCheck
        /\ CheckValid(old)
        /\ c.types = old.types
        /\ c.schedule = old.schedule
    <3>1. n \in 1 .. Len(given.checks)
        BY <2>1, ChecksKept
    <3> QED BY <2>1, <3>1, ChecksKept
  <2> HIDE DEF c, old, n
  <2>3. \E t \in Types : c.types = {t}
    <3>1. old.types \subseteq Types /\ Cardinality(old.types) = 1
        BY <2>2 DEF CheckValid, HealthCheck
    <3>2. IsFiniteSet(Types)
      <4>1. Types = (({"http"} \cup {"grpc"}) \cup {"kafka"}) \cup {"starlark"}
          BY DEF Types
      <4>2. IsFiniteSet({"http"} \cup {"grpc"})
          BY FS_Singleton, FS_AddElement, Zenon
      <4>3. IsFiniteSet(({"http"} \cup {"grpc"}) \cup {"kafka"})
          BY <4>2, FS_AddElement, Zenon
      <4> QED BY <4>1, <4>3, FS_AddElement, Zenon
    <3>3. IsFiniteSet(old.types)
        BY <3>1, <3>2, FS_Subset
    <3>4. \E t : old.types = {t}
        BY <3>1, <3>3, FS_Singleton
    <3> QED BY <2>2, <3>1, <3>4
  <2>4. CASE Checker(c) = "none"
      BY <2>3, <2>4 DEF Checker, Types
  <2>5. CASE InitFails(c)
    <3>1. c.types = {"kafka"}
        BY <2>3, <2>5 DEF InitFails, Checker, Types
    <3>2. c.schedule.form = "duration"
        BY <2>2, <3>1 DEF CheckValid
    <3> QED BY <2>5, <3>1, <3>2 DEF InitFails, c, n
  <2>6. CASE Refused(c)
    <3>1. CASE c.schedule.form = "junk"
        BY <3>1 DEF c, n
    <3>2. CASE c.schedule.form = "duration" /\ Entry(c).step < 1
      <4>1. c.schedule.ms \in Int
          BY <2>2 DEF HealthCheck
      <4>2. Entry(c) = ParseDuration(c.schedule.ms)
          BY <3>2 DEF Entry
      <4>3. c.schedule.ms < 1000
        <5> SUFFICES ASSUME c.schedule.ms >= 1000 PROVE FALSE
            BY <4>1
        <5>1. ParseDuration(c.schedule.ms).step >= 1
            BY <4>1, EntryOfDuration, ZenonT(60)
        <5>2. ParseDuration(c.schedule.ms).step \in Int
            BY <4>1, <4>2, EntryTyped DEF EntryType
        <5> QED BY <3>2, <4>2, <5>1, <5>2
      <4> QED BY <3>2, <4>3 DEF c, n
    <3> QED BY <2>6, <3>1, <3>2 DEF Refused
  <2> QED BY <2>1, <2>4, <2>5, <2>6
<1> QED BY <1>1, TakenHolds, RegisteredHolds, PTL

-----------------------------------------------------------------------------
(* Ticks. *)

\* A duration that cron has taken, and what Kafka's Init has parsed of it.
LEMMA DurationTaken ==
    ASSUME Taken, Registered, Loaded,
           NEW i \in 1 .. Len(entries), entries[i] # OwnCron
    PROVE  LET e == entries[i]
               c == config.checks[i]
           IN  /\ e \in [unit : Nat \ {0}, range : Nat \ {0}, step : Nat \ {0}]
               /\ c.schedule.ms \in Int
               /\ 1000 * (e.unit * e.step) <= c.schedule.ms
               /\ c.types = {"kafka"} => intervals[i] = c.schedule.ms
<1> DEFINE e == entries[i]
           c == config.checks[i]
<1>1. /\ e = Entry(c)
      /\ ~Refused(c)
      /\ Checker(c) = "kafka" => intervals[i] = c.schedule.ms
    BY DEF Registered
<1>2. c.schedule.ms \in Int
  <2>1. i \in 1 .. Len(given.checks)
      BY ChecksKept DEF Registered
  <2> QED BY <2>1, ChecksKept DEF HealthCheck
<1> HIDE DEF c
<1>3. c.schedule.form = "duration" /\ Entry(c) = ParseDuration(c.schedule.ms)
    BY <1>1, Zenon DEF Entry
<1> DEFINE d == ParseDuration(c.schedule.ms)
<1>4. /\ d \in [unit : Nat \ {0}, range : Nat \ {0}, step : Int]
      /\ 1000 * (d.unit * d.step) <= c.schedule.ms
    BY <1>2, EntryOfDuration, ZenonT(60)
<1>5. ~(d.step < 1)
    BY <1>1, <1>3 DEF Refused
<1>6. c.types = {"kafka"} => Checker(c) = "kafka"
    BY DEF Checker
<1> HIDE DEF d
<1>7. d \in [unit : Nat \ {0}, range : Nat \ {0}, step : Nat \ {0}]
    BY <1>4, <1>5
<1>8. e = d
    BY <1>1, <1>3, Zenon DEF d
<1> QED BY <1>1, <1>2, <1>4, <1>6, <1>7, <1>8 DEF c

\* The followed check is one that cron has taken, its last tick is a position
\* in its cycle, and its ticks are at most a step apart.
Ticking ==
    /\ fired \in Nat
    /\ stage # "running" => followed = 0 /\ fired = 0
    /\ followed # 0 =>
         /\ followed \in 1 .. Len(entries)
         /\ entries[followed] # OwnCron
         /\ last \in 0 .. Cycle(entries[followed]) - 1
    /\ fired > 0 =>
         /\ followed # 0
         /\ gap \in Int
         /\ gap <= entries[followed].unit * entries[followed].step

LEMMA TickingHolds == Spec => []Ticking
<1>1. Init => Ticking
    BY DEF Init, Ticking
<1>2. Taken /\ Registered /\ Ticking /\ [Next]_vars => Ticking'
  <2> SUFFICES ASSUME Taken, Registered, Ticking, [Next]_vars PROVE Ticking'
      OBVIOUS
  <2>1. CASE Load
      BY <2>1 DEF Load, Ticking, ticks
  <2>2. CASE AddHealthCheck
      BY <2>2 DEF AddHealthCheck, Ticking, ticks
  <2>3. CASE StartCron
    <3>1. /\ stage = "adding" /\ stage' = "running"
          /\ UNCHANGED <<entries, gap, fired>>
          /\ fired = 0 /\ followed = 0
          /\ Loaded
        BY <2>3 DEF StartCron, Ticking, Loaded
    <3>2. CASE UNCHANGED <<followed, last>>
        BY <3>1, <3>2 DEF Ticking
    <3>3. ASSUME NEW i \in DOMAIN entries, NEW t \in Offsets,
                 entries[i] # OwnCron,
                 followed' = i, last' = t % Cycle(entries[i])
          PROVE  Ticking'
      <4>1. i \in 1 .. Len(entries)
          BY DEF Registered
      <4>2. entries[i] \in [unit : Nat \ {0}, range : Nat \ {0}, step : Nat \ {0}]
          BY <3>1, <3>3, <4>1, DurationTaken
      <4>3. Cycle(entries[i]) \in Nat \ {0}
          BY <4>2 DEF Cycle
      <4>4. t \in Nat
          BY StartupAssumption
      <4>5. last' \in 0 .. Cycle(entries[i]) - 1
          BY <3>3, <4>3, <4>4
      <4> QED BY <3>1, <3>3, <4>1, <4>5 DEF Ticking
    <3> QED BY <2>3, <3>2, <3>3 DEF StartCron
  <2>4. CASE Fire
    <3> DEFINE e    == entries[followed]
               next == NextTick(e, last)
    <3>1. /\ stage = "running" /\ followed # 0 /\ Loaded
          /\ UNCHANGED <<stage, entries, followed>>
          /\ gap' = next - last
          /\ last' = next % Cycle(e)
          /\ fired' = IF fired = 2 THEN 2 ELSE fired + 1
        BY <2>4 DEF Fire, Loaded
    <3>2. followed \in 1 .. Len(entries) /\ e # OwnCron /\ last \in 0 .. Cycle(e) - 1
        BY <3>1 DEF Ticking
    <3>3. e \in [unit : Nat \ {0}, range : Nat \ {0}, step : Nat \ {0}]
        BY <3>1, <3>2, DurationTaken
    <3>4. /\ next \in Nat
          /\ next - last <= e.unit * e.step
        BY <3>2, <3>3, NextTickIsSoon, Zenon
    <3>5. Cycle(e) \in Nat \ {0}
        BY <3>3 DEF Cycle
    <3>6. fired' \in Nat
        BY <3>1 DEF Ticking
    <3> HIDE DEF next
    <3>7. last' \in 0 .. Cycle(e) - 1 /\ gap' \in Int
        BY <3>1, <3>2, <3>4, <3>5
    <3> QED BY <3>1, <3>2, <3>4, <3>6, <3>7 DEF Ticking
  <2>5. CASE UNCHANGED vars
      BY <2>5 DEF vars, ticks, Ticking
  <2> QED BY <2>1, <2>2, <2>3, <2>4, <2>5 DEF Next, Settled
<1> QED BY <1>1, <1>2, TakenHolds, RegisteredHolds, PTL DEF Spec

\* No duration is stretched on its way through the integer divisions and cron,
\* whatever it is and whenever the daemon starts (NeverLate).
THEOREM NoCheckIsLate == Spec => []NeverLate
<1>1. Taken /\ Registered /\ Ticking => NeverLate
  <2> SUFFICES ASSUME Taken, Registered, Ticking, fired > 0
               PROVE  LET c == config.checks[followed]
                      IN  /\ gap * 1000 <= c.schedule.ms
                          /\ c.types = {"kafka"} => gap * 1000 <= intervals[followed]
      BY Zenon DEF NeverLate
  <2> DEFINE e == entries[followed]
             c == config.checks[followed]
  <2>1. /\ followed \in 1 .. Len(entries)
        /\ e # OwnCron
        /\ gap \in Int /\ gap <= e.unit * e.step
        /\ Loaded
      BY DEF Ticking, Loaded
  <2>2. /\ e \in [unit : Nat \ {0}, range : Nat \ {0}, step : Nat \ {0}]
        /\ c.schedule.ms \in Int
        /\ 1000 * (e.unit * e.step) <= c.schedule.ms
        /\ c.types = {"kafka"} => intervals[followed] = c.schedule.ms
      BY <2>1, DurationTaken, SMTT(30)
  <2> HIDE DEF e, c
  <2> DEFINE d == e.unit * e.step
  <2>3. d \in Int
      BY <2>2
  <2> HIDE DEF d
  <2>4. gap * 1000 <= c.schedule.ms
      BY <2>1, <2>2, <2>3 DEF d
  <2> QED BY <2>2, <2>4 DEF c
<1> QED BY <1>1, TakenHolds, RegisteredHolds, TickingHolds, PTL

-----------------------------------------------------------------------------
(* Durations that divide the minute, the hour or the day. *)

LEMMA EvenEntry ==
    ASSUME NEW ms \in Int, Even(ms)
    PROVE  LET e == ParseDuration(ms)
           IN  /\ 1000 * (e.unit * e.step) = ms
               /\ e.range % e.step = 0
<1> DEFINE s == ms \div 1000
           m == s \div 60
           h == m \div 60
           e == ParseDuration(ms)
<1>1. e = CASE s < 60            -> Step(Seconds, s)
            [] s >= 60 /\ m < 60 -> Step(Minutes, m)
            [] OTHER             -> Step(Hours, h)
    BY DEF ParseDuration
<1>2. PICK field \in {Seconds, Minutes, Hours} :
        /\ ms >= 1000 * field.unit
        /\ ms % (1000 * field.unit) = 0
        /\ ms < (1000 * field.unit) * field.range
        /\ field.range % (ms \div (1000 * field.unit)) = 0
    BY Zenon DEF Even
<1>3. CASE field = Seconds
  <2>0. s \in Int
      OBVIOUS
  <2>1. ms >= 1000 /\ ms % 1000 = 0 /\ ms < 60000 /\ 60 % (ms \div 1000) = 0
      BY <1>2, <1>3 DEF Seconds
  <2>2. s < 60 /\ 1000 * s = ms /\ 60 % s = 0
      BY <2>1
  <2> HIDE DEF s, m, h, e
  <2>3. e = [unit |-> 1, range |-> 60, step |-> s]
      BY <1>1, <2>0, <2>2 DEF Step, Seconds
  <2> QED BY <2>0, <2>2, <2>3 DEF e
<1>4. CASE field = Minutes
  <2>1. ms >= 60000 /\ ms % 60000 = 0 /\ ms < 3600000 /\ 60 % (ms \div 60000) = 0
      BY <1>2, <1>4 DEF Minutes
  <2>2. s >= 60 /\ m < 60 /\ 60000 * m = ms /\ m = ms \div 60000
      BY <2>1
  <2>3. 60 % m = 0
      BY <2>1, <2>2
  <2>4. m \in Int /\ s \in Int
      OBVIOUS
  <2> HIDE DEF s, m, h, e
  <2>5. e = [unit |-> 60, range |-> 60, step |-> m]
      BY <1>1, <2>2, <2>4 DEF Step, Minutes
  <2> QED BY <2>2, <2>3, <2>4, <2>5 DEF e
<1>5. CASE field = Hours
  <2>1. ms >= 3600000 /\ ms % 3600000 = 0 /\ 24 % (ms \div 3600000) = 0
      BY <1>2, <1>5 DEF Hours
  <2>2. s >= 60 /\ m >= 60 /\ 3600000 * h = ms /\ h = ms \div 3600000
      BY <2>1
  <2>3. 24 % h = 0
      BY <2>1, <2>2
  <2>4. h \in Int /\ m \in Int /\ s \in Int
      OBVIOUS
  <2> HIDE DEF s, m, h, e
  <2>5. e = [unit |-> 3600, range |-> 24, step |-> h]
      BY <1>1, <2>2, <2>4 DEF Step, Hours
  <2> QED BY <2>2, <2>3, <2>4, <2>5 DEF e
<1> QED BY <1>2, <1>3, <1>4, <1>5

\* Every tick is a match within the cycle.
LEMMA TickPosition ==
    ASSUME NEW u \in Nat \ {0}, NEW r \in Nat \ {0}, NEW m \in Nat
    PROVE  (u * m) % (u * r) = u * (m % r)
<1>1. PICK q \in Int, p \in 0 .. r - 1 : m = r * q + p /\ p = m % r
    OBVIOUS
<1> DEFINE N == u * r
           z == u * p
<1>2. u * m = N * q + z
    BY <1>1
<1>3. N \in Nat \ {0} /\ z \in 0 .. N - 1
  <2>1. N \in Nat \ {0} /\ z \in Nat
      BY <1>1
  <2>2. u * p <= u * (r - 1) /\ u * (r - 1) = u * r - u
      BY <1>1
  <2> QED BY <2>1, <2>2
<1> HIDE DEF N, z
<1>4. (N * q + z) % N = z
    BY <1>1, <1>3
<1> QED BY <1>1, <1>2, <1>4 DEF N, z

LEMMA Multiple ==
    ASSUME NEW k \in Nat, NEW n \in Nat \ {0}, k % n = 0
    PROVE  \E a \in Nat : k = n * a
<1>1. k = n * (k \div n) + (k % n) /\ k \div n \in Nat
    OBVIOUS
<1> DEFINE a == k \div n
<1>2. k = n * a + 0 /\ a \in Nat
    BY <1>1
<1> HIDE DEF a
<1>3. k = n * a
    BY <1>2
<1> QED BY <1>2, <1>3

\* From one match to the next is one step, when the steps divide the range.
LEMMA NextTickIsEven ==
    ASSUME NEW spec \in [unit : Nat \ {0}, range : Nat \ {0}, step : Nat \ {0}],
           NEW k \in 0 .. spec.range - 1,
           k % spec.step = 0, spec.range % spec.step = 0
    PROVE  NextTick(spec, spec.unit * k) = spec.unit * (k + spec.step)
<1> DEFINE u == spec.unit
           r == spec.range
           n == spec.step
           t == u * k
<1>1. u \in Nat \ {0} /\ r \in Nat \ {0} /\ n \in Nat \ {0} /\ k \in 0 .. r - 1
    OBVIOUS
<1>2. k % n = 0 /\ r % n = 0
    OBVIOUS
<1>3. t \in 0 .. Cycle(spec) - 1
  <2>1. u * k <= u * (r - 1) /\ u * (r - 1) = u * r - u /\ u * k \in Nat
      BY <1>1
  <2>2. Cycle(spec) = u * r /\ u * r \in Int
      BY <1>1 DEF Cycle
  <2> HIDE DEF u, r
  <2> QED BY <1>1, <2>1, <2>2
<1>4. t \div spec.unit = k
  <2> HIDE DEF u
  <2>1. (u * k) \div u = k
      BY <1>1
  <2> QED BY <2>1 DEF u
<1>5. PICK m \in (k + 1) .. (k + r) :
        /\ NextTick(spec, t) = u * m
        /\ m <= k + n
        /\ Matches(spec, m)
    BY <1>3, <1>4, NextTickIsFirst, Zenon
<1> HIDE DEF u, t
<1>6. (m % r) % n = 0
    BY <1>5 DEF Matches
<1> HIDE DEF r, n
<1>7. k + n <= r
  <2>1. PICK a \in Nat : k = n * a
    <3>1. k \in Nat
        BY <1>1
    <3> QED BY <3>1, <1>1, <1>2, Multiple
  <2>2. PICK b \in Nat : r = n * b
      BY <1>1, <1>2, Multiple
  <2>3. a + 1 <= b
    <3> SUFFICES ASSUME a >= b PROVE FALSE
        BY <2>1, <2>2
    <3>1. n * a >= n * b
        BY <1>1
    <3> QED BY <1>1, <2>1, <2>2, <3>1
  <2>4. n * (a + 1) <= n * b /\ n * (a + 1) = n * a + n
      BY <1>1, <2>3
  <2> QED BY <1>1, <2>1, <2>2, <2>4
<1>8. m = k + n
  <2> SUFFICES ASSUME m < k + n PROVE FALSE
      BY <1>1, <1>5
  <2>1. m % r = m
      BY <1>1, <1>5, <1>7
  <2>2. PICK a \in Nat : k = n * a
    <3>1. k \in Nat
        BY <1>1
    <3> QED BY <3>1, <1>1, <1>2, Multiple
  <2>3. m - k \in 1 .. n - 1 /\ m = n * a + (m - k)
      BY <1>1, <1>5, <2>2
  <2>4. \A z \in 0 .. n - 1 : (n * a + z) % n = z
      BY <1>1, <2>2
  <2>5. m % n = m - k
      BY <1>1, <2>3, <2>4
  <2> QED BY <1>5, <1>6, <2>1, <2>3, <2>5
<1> QED BY <1>5, <1>8 DEF u, n, t

\* The last tick was at a match, and if the steps divide the range, it was one
\* step after the one before.
Aligned ==
    fired > 0 =>
        LET e == entries[followed]
        IN  /\ \E k \in 0 .. e.range - 1 : last = e.unit * k /\ k % e.step = 0
            /\ (fired > 1 /\ e.range % e.step = 0) => gap = e.unit * e.step

LEMMA AlignedHolds == Spec => []Aligned
<1>1. Init => Aligned
    BY DEF Init, Aligned
<1>2. Taken /\ Registered /\ Ticking /\ Aligned /\ [Next]_vars => Aligned'
  <2> SUFFICES ASSUME Taken, Registered, Ticking, Aligned, [Next]_vars
               PROVE  Aligned'
      OBVIOUS
  <2>1. CASE Load
      BY <2>1 DEF Load, Aligned, ticks
  <2>2. CASE AddHealthCheck
      BY <2>2 DEF AddHealthCheck, Aligned, Ticking, ticks
  <2>3. CASE StartCron
      BY <2>3 DEF StartCron, Ticking, Aligned
  <2>4. CASE Fire
    <3> DEFINE e    == entries[followed]
               next == NextTick(e, last)
    <3>1. /\ stage = "running" /\ followed # 0 /\ Loaded
          /\ UNCHANGED <<entries, followed>>
          /\ gap' = next - last
          /\ last' = next % Cycle(e)
          /\ fired' = IF fired = 2 THEN 2 ELSE fired + 1
        BY <2>4 DEF Fire, Loaded
    <3>2. followed \in 1 .. Len(entries) /\ e # OwnCron /\ last \in 0 .. Cycle(e) - 1
        BY <3>1 DEF Ticking
    <3>3. e \in [unit : Nat \ {0}, range : Nat \ {0}, step : Nat \ {0}]
        BY <3>1, <3>2, DurationTaken
    <3>4. \E k \in 0 .. e.range - 1 : last' = e.unit * k /\ k % e.step = 0
      <4> DEFINE k0 == last \div e.unit
      <4>0. e.unit \in Nat \ {0} /\ e.range \in Nat \ {0} /\ e.step \in Nat \ {0}
          BY <3>3
      <4>1. k0 \in 0 .. e.range - 1
          BY <3>2, <3>3, NextTickIsFirst, Zenon
      <4>2. PICK m \in (k0 + 1) .. (k0 + e.range) :
              next = e.unit * m /\ Matches(e, m)
          BY <3>2, <3>3, NextTickIsFirst, Zenon
      <4> HIDE DEF k0, next, e
      <4>3. m \in Nat
          BY <4>0, <4>1, <4>2
      <4>4. last' = e.unit * (m % e.range)
          BY <3>1, <4>0, <4>2, <4>3, TickPosition, Zenon DEF Cycle
      <4>5. m % e.range \in 0 .. e.range - 1 /\ (m % e.range) % e.step = 0
          BY <4>0, <4>2, <4>3 DEF Matches
      <4> QED BY <4>4, <4>5 DEF e
    <3>5. ASSUME fired' > 1, e.range % e.step = 0
          PROVE  gap' = e.unit * e.step
      <4>1. fired > 0
          BY <3>1, <3>5 DEF Ticking
      <4>2. PICK k \in 0 .. e.range - 1 : last = e.unit * k /\ k % e.step = 0
          BY <4>1 DEF Aligned
      <4>3. next = e.unit * (k + e.step)
          BY <3>3, <3>5, <4>2, NextTickIsEven, Zenon
      <4>4. e.unit \in Nat \ {0} /\ e.step \in Nat \ {0} /\ k \in Int
          BY <3>3
      <4> HIDE DEF next, e
      <4>5. e.unit * (k + e.step) - e.unit * k = e.unit * e.step
          BY <4>4
      <4> QED BY <3>1, <4>2, <4>3, <4>5
    <3> HIDE DEF next
    <3> QED BY <3>1, <3>4, <3>5 DEF Aligned
  <2>5. CASE UNCHANGED vars
      BY <2>5 DEF vars, ticks, Aligned
  <2> QED BY <2>1, <2>2, <2>3, <2>4, <2>5 DEF Next, Settled
<1> QED BY <1>1, <1>2, TakenHolds, RegisteredHolds, TickingHolds, PTL DEF Spec

\* Durations that divide the minute, the hour or the day are kept exactly,
\* also from the last tick of a cycle to the first of the next (ExactWhenEven).
THEOREM EvenDurationsAreExact == Spec => []ExactWhenEven
<1>1. Taken /\ Registered /\ Ticking /\ Aligned => ExactWhenEven
  <2> SUFFICES ASSUME Taken, Registered, Ticking, Aligned, fired = 2,
                      Even(config.checks[followed].schedule.ms)
               PROVE  gap * 1000 = config.checks[followed].schedule.ms
      BY Zenon DEF ExactWhenEven
  <2> DEFINE e == entries[followed]
             c == config.checks[followed]
  <2>1. followed \in 1 .. Len(entries) /\ e # OwnCron /\ Loaded
      BY DEF Ticking, Loaded
  <2>2. c.schedule.ms \in Int
      BY <2>1, DurationTaken
  <2>3. e = ParseDuration(c.schedule.ms)
    <3>1. e = Entry(c)
        BY <2>1 DEF Registered
    <3> QED BY <2>1, <3>1, Zenon DEF Entry
  <2>4. 1000 * (e.unit * e.step) = c.schedule.ms /\ e.range % e.step = 0
    <3> DEFINE ms == c.schedule.ms
    <3>1. ms \in Int /\ Even(ms) /\ e = ParseDuration(ms)
        BY <2>2, <2>3
    <3> HIDE DEF ms
    <3>2. /\ 1000 * (ParseDuration(ms).unit * ParseDuration(ms).step) = ms
          /\ ParseDuration(ms).range % ParseDuration(ms).step = 0
        BY <3>1, EvenEntry, ZenonT(60)
    <3> HIDE DEF e
    <3> QED BY <3>1, <3>2 DEF ms
  <2>5. gap = e.unit * e.step
      BY <2>4 DEF Aligned
  <2>6. gap \in Int
      BY DEF Ticking
  <2> HIDE DEF c, e
  <2> QED BY <2>2, <2>4, <2>5, <2>6 DEF c
<1> QED BY <1>1, TakenHolds, RegisteredHolds, TickingHolds, AlignedHolds, PTL
=============================================================================
