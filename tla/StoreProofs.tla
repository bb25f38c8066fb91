------------------------------ MODULE StoreProofs ------------------------------
(***************************************************************************)
(* Theorems about Store, for any set of checks, configurations, timestamps *)
(* and number of writes.                                                   *)
(***************************************************************************)
EXTENDS Store, FiniteSetTheorems, FunctionTheorems, SequenceTheorems, TLAPS

-----------------------------------------------------------------------------
(* ORDER BY timestamp DESC LIMIT n. *)

\* The result is a part of the rows, at most n of them.
LEMMA NewestIsPart ==
    ASSUME NEW R, IsFiniteSet(R), NEW n \in Nat, NEW T \in Newest(R, n)
    PROVE  /\ T \subseteq R
           /\ IsFiniteSet(T)
           /\ Cardinality(T) \in Nat
           /\ Cardinality(T) <= n
           /\ Cardinality(T) = Lesser(n, Cardinality(R))
<1>1. T \subseteq R /\ Cardinality(T) = Lesser(n, Cardinality(R))
  BY DEF Newest
<1>2. IsFiniteSet(T)
  BY <1>1, FS_Subset
<1>3. Cardinality(R) \in Nat /\ Cardinality(T) \in Nat
  BY <1>2, FS_CardinalityType
<1> QED BY <1>1, <1>2, <1>3 DEF Lesser

\* Evicting after each insertion keeps the same rows as evicting once in the
\* end, as long as the limit is not raised: the newest n of the newest k of C
\* and of a further row x are the newest n of them all.
LEMMA NewestAgain ==
    ASSUME NEW C, IsFiniteSet(C), NEW x, x \notin C,
           \A r \in C \cup {x} : r.ts \in Nat,
           NEW k \in Nat, NEW n \in Nat \ {0},
           k = 0 => C = {}, k # 0 => n <= k,
           NEW R \in Newest(C, k), NEW T \in Newest(R \cup {x}, n)
    PROVE  T \in Newest(C \cup {x}, n)
<1>1. /\ R \subseteq C
      /\ IsFiniteSet(R)
      /\ Cardinality(R) = Lesser(k, Cardinality(C))
      /\ \A t \in R, r \in C \ R : r.ts <= t.ts
  <2>1. \A t \in R, r \in C \ R : r.ts <= t.ts
    BY DEF Newest
  <2> QED BY <2>1, NewestIsPart
<1>2. /\ Cardinality(C) \in Nat
      /\ Cardinality(R) \in Nat
  BY <1>1, FS_CardinalityType
<1>3. /\ IsFiniteSet(R \cup {x})
      /\ Cardinality(R \cup {x}) = Cardinality(R) + 1
      /\ Cardinality(C \cup {x}) = Cardinality(C) + 1
  BY <1>1, FS_AddElement
<1>4. /\ T \subseteq R \cup {x}
      /\ IsFiniteSet(T)
      /\ Cardinality(T) \in Nat
      /\ Cardinality(T) = Lesser(n, Cardinality(R) + 1)
      /\ \A t \in T, r \in (R \cup {x}) \ T : r.ts <= t.ts
  <2>1. \A t \in T, r \in (R \cup {x}) \ T : r.ts <= t.ts
    BY DEF Newest
  <2>2. n \in Nat
    OBVIOUS
  <2>3. /\ T \subseteq R \cup {x}
        /\ IsFiniteSet(T)
        /\ Cardinality(T) \in Nat
        /\ Cardinality(T) = Lesser(n, Cardinality(R \cup {x}))
    BY <2>2, <1>3, NewestIsPart
  <2> QED BY <2>1, <2>3, <1>3
<1>5. k = 0 => Cardinality(C) = 0
  BY FS_EmptySet
<1>6. Cardinality(T) = Lesser(n, Cardinality(C) + 1)
  BY <1>1, <1>2, <1>4, <1>5 DEF Lesser
<1>7. ASSUME NEW t \in T, NEW r \in (C \cup {x}) \ T PROVE r.ts <= t.ts
  <2>1. CASE r \in R \cup {x}
    BY <2>1, <1>4
  <2>2. CASE r \notin R \cup {x}
    <3>1. r \in C \ R
      BY <2>2
    <3>2. k # 0 /\ n <= k /\ Cardinality(R) = k
      <4>1. R # C
        BY <3>1
      <4>2. Cardinality(R) # Cardinality(C)
        BY <4>1, <1>1, FS_Subset
      <4> QED BY <4>2, <3>1, <1>1, <1>2 DEF Lesser
    <3>3. CASE t \in R
      BY <3>1, <3>3, <1>1
    <3>4. CASE t = x
      <4>1. PICK q \in R : q \notin T
        <5>1. SUFFICES ASSUME R \subseteq T PROVE FALSE
          OBVIOUS
        <5>2. R \cup {x} \subseteq T
          BY <5>1, <3>4
        <5>3. Cardinality(R \cup {x}) <= Cardinality(T)
          BY <5>2, <1>4, FS_Subset
        <5> QED BY <5>3, <3>2, <1>2, <1>3, <1>4 DEF Lesser
      <4>2. q.ts <= x.ts
        BY <4>1, <3>4, <1>4
      <4>3. r.ts <= q.ts
        BY <4>1, <3>1, <1>1
      <4>4. r.ts \in Nat /\ q.ts \in Nat /\ x.ts \in Nat
        BY <4>1, <3>1, <1>1
      <4> QED BY <4>2, <4>3, <4>4, <3>4
    <3> QED BY <3>3, <3>4, <1>4
  <2> QED BY <2>1, <2>2
<1>8. T \subseteq C \cup {x}
  BY <1>1, <1>4
<1> QED BY <1>3, <1>6, <1>7, <1>8 DEF Newest

-----------------------------------------------------------------------------
(* Types. *)

\* Without an override the global retention applies; either way it is not 0.
LEMMA RetentionIsPositive ==
    ASSUME TypeOK, NEW c \in Checks
    PROVE  EffectiveRetention(c) \in Nat \ {0}
<1>1. config \in [checks : SUBSET Checks, retention : Nat \ {0},
                  override : [Checks -> Nat]]
  BY ConfigsAssumption DEF TypeOK
<1> QED BY <1>1 DEF EffectiveRetention

\* Every variable of the store stays in its range.
THEOREM TypeCorrect == Spec => []TypeOK
<1> USE NamesAssumption, NoRowAssumption
<1>1. Init => TypeOK
  BY DEF Init, TypeOK, Stages
<1>2. TypeOK /\ [Next]_vars => TypeOK'
  <2> SUFFICES ASSUME TypeOK, [Next]_vars PROVE TypeOK'
    OBVIOUS
  <2> USE DEF Stages
  <2>1. CASE UNCHANGED vars
    BY <2>1 DEF TypeOK, vars
  <2>2. ASSUME NEW cfg \in Configs, Open(cfg) PROVE TypeOK'
    BY <2>2 DEF TypeOK, Open, tx, observed
  <2>3. CASE Close
    BY <2>3 DEF TypeOK, Close, tx, observed
  <2>4. CASE Exit
    BY <2>4 DEF TypeOK, Exit, observed
  <2>5. ASSUME NEW c \in Checks, NEW ts \in Timestamps, Begin(c, ts)
        PROVE  TypeOK'
    <3>1. writes + 1 \in 1 .. MaxWrites
      BY <2>5 DEF TypeOK, Begin
    <3>2. [id |-> writes + 1, check |-> c, ts |-> ts] \in Rows
      BY <3>1 DEF Rows
    <3>3. EffectiveRetention(c) \in Nat
      BY RetentionIsPositive
    <3> QED BY <2>5, <3>1, <3>2, <3>3 DEF TypeOK, Begin, observed
  <2>6. CASE Insert
    BY <2>6 DEF TypeOK, Insert, observed
  <2>7. CASE Evict
    BY <2>7 DEF TypeOK, Evict, observed, Newest, RowsOf
  <2>8. CASE Commit
    <3>1. row \in Rows /\ row.check \in Checks
      BY <2>8 DEF TypeOK, Commit, Rows
    <3>2. kept' \in [Checks -> Nat]
      BY <2>8, <3>1 DEF TypeOK, Commit
    <3>3. raised' \subseteq Checks
      BY <2>8, <3>1 DEF TypeOK, Commit
    <3> QED BY <2>8, <3>1, <3>2, <3>3 DEF TypeOK, Commit
  <2>9. CASE Rollback
    BY <2>9 DEF TypeOK, Rollback, observed
  <2> QED BY <2>1, <2>2, <2>3, <2>4, <2>5, <2>6, <2>7, <2>8, <2>9 DEF Next
<1> QED BY <1>1, <1>2, PTL DEF Spec

-----------------------------------------------------------------------------
(* The transaction. *)

\* The table holds committed rows only, and they are finitely many. Ids are
\* given in the order of the writes.
Grounded ==
    /\ table \subseteq committed
    /\ IsFiniteSet(committed)
    /\ \A r \in committed : r.id <= writes
    /\ stage # "none" => row.id = writes /\ row \notin committed

\* What the open transaction sees at each of its stages.
Isolated ==
    /\ stage # "none" => keep > 0
    /\ stage = "begun" => view = table
    /\ stage = "inserted" => view = table \cup {row}
    /\ stage = "evicted" =>
          /\ view \subseteq table \cup {row}
          /\ RowsOf(view, row.check)
                \in Newest(RowsOf(table, row.check) \cup {row}, keep)
          /\ \A c \in Checks \ {row.check} : RowsOf(view, c) = RowsOf(table, c)

Consistent == Grounded /\ Isolated

\* Each statement of the transaction brings its view to the next stage.
LEMMA ConsistentKept == TypeOK /\ Consistent /\ [Next]_vars => Consistent'
<1> SUFFICES ASSUME TypeOK, Consistent, [Next]_vars PROVE Consistent'
  OBVIOUS
<1> USE NamesAssumption, NoRowAssumption DEF Consistent
<1>1. CASE UNCHANGED <<table, tx, writes, observed>>
  BY <1>1 DEF Grounded, Isolated, tx, observed, RowsOf, Newest
<1>2. ASSUME NEW cfg \in Configs, Open(cfg) PROVE Consistent'
  BY <1>1, <1>2 DEF Open
<1>3. CASE Close
  BY <1>1, <1>3 DEF Close
<1>4. CASE Exit \/ Rollback
  BY <1>4 DEF Exit, Rollback, Grounded, Isolated, observed
<1>5. ASSUME NEW c \in Checks, NEW ts \in Timestamps, Begin(c, ts)
      PROVE  Consistent'
  <2>1. writes \in Nat /\ \A r \in committed : r.id \in Nat
    BY DEF TypeOK, Rows
  <2>2. EffectiveRetention(c) > 0
    BY RetentionIsPositive
  <2>3. Grounded'
    BY <1>5, <2>1 DEF Begin, Grounded, observed
  <2>4. Isolated'
    BY <1>5, <2>2 DEF Begin, Isolated
  <2> QED BY <2>3, <2>4
<1>6. CASE Insert
  BY <1>6 DEF Insert, Grounded, Isolated, observed
<1>7. CASE Evict
  <2>1. PICK newest \in Newest(RowsOf(view, row.check), keep) :
           view' = {r \in view : r.check # row.check} \cup newest
    BY <1>7 DEF Evict
  <2>2. newest \subseteq RowsOf(view, row.check)
    BY DEF Newest
  <2>3. view = table \cup {row}
    BY <1>7 DEF Evict, Isolated
  <2>4. RowsOf(view, row.check) = RowsOf(table, row.check) \cup {row}
    BY <2>3 DEF RowsOf
  <2>5. RowsOf(view', row.check) = newest
    BY <2>1, <2>2 DEF RowsOf
  <2>6. \A c \in Checks \ {row.check} : RowsOf(view', c) = RowsOf(table, c)
    BY <2>1, <2>2, <2>3 DEF RowsOf
  <2>7. view' \subseteq table \cup {row}
    BY <2>1, <2>2, <2>3 DEF RowsOf
  <2>8. Isolated'
    <3>1. /\ stage' = "evicted"
          /\ row' = row /\ keep' = keep /\ table' = table
          /\ keep > 0
      BY <1>7 DEF Evict, Isolated
    <3>2. RowsOf(view', row.check)
             \in Newest(RowsOf(table, row.check) \cup {row}, keep)
      BY <2>4, <2>5
    <3> QED BY <2>6, <2>7, <3>1, <3>2 DEF Isolated, RowsOf, Newest
  <2> QED BY <1>7, <2>8 DEF Evict, Grounded, observed
<1>8. CASE Commit
  <2>1. IsFiniteSet(committed \cup {row})
    BY FS_AddElement DEF Grounded
  <2>2. table' \subseteq committed'
    BY <1>8 DEF Commit, Grounded, Isolated
  <2>3. writes \in Nat
    BY DEF TypeOK
  <2> QED BY <1>8, <2>1, <2>2, <2>3 DEF Commit, Grounded, Isolated
<1> QED BY <1>1, <1>2, <1>3, <1>4, <1>5, <1>6, <1>7, <1>8 DEF Next, vars, tx, observed

\* A transaction sees the table and its own row, and changes one check only.
THEOREM ConsistentHolds == Spec => []Consistent
<1>1. Init => Consistent
  BY FS_EmptySet DEF Init, Consistent, Grounded, Isolated
<1>2. TypeOK /\ Consistent /\ [Next]_vars => Consistent'
  BY ConsistentKept
<1> QED BY <1>1, <1>2, TypeCorrect, PTL DEF Spec

\* Only a committed write for a check changes its rows.
THEOREM NeighboursAreUntouched == Spec => NeighboursUntouched
<1> DEFINE Own == \A c \in Checks :
                     RowsOf(table', c) # RowsOf(table, c) =>
                        stage = "evicted" /\ row.check = c
<1>1. Consistent /\ [Next]_vars => [Own]_vars
  <2> SUFFICES ASSUME Consistent, Next PROVE Own
    OBVIOUS
  <2>1. CASE UNCHANGED table
    BY <2>1
  <2>2. CASE Commit
    BY <2>2 DEF Commit, Consistent, Isolated
  <2> QED BY <2>1, <2>2 DEF Next, Open, Close, Exit, Begin, Insert, Evict, Rollback
<1> HIDE DEF Own
<1>2. Spec => [][Own]_vars
  BY <1>1, ConsistentHolds, PTL DEF Spec
<1> QED BY <1>2 DEF NeighboursUntouched, Own

-----------------------------------------------------------------------------
(* Retention. *)

\* A commit leaves the newest of the check's rows and of the new one.
LEMMA CommitKeepsNewest ==
    ASSUME TypeOK, Consistent, Commit
    PROVE  /\ row.check \in Checks
           /\ keep \in Nat \ {0}
           /\ RowsOf(table', row.check)
                 \in Newest(RowsOf(table, row.check) \cup {row}, keep)
           /\ \A c \in Checks \ {row.check} :
                 RowsOf(table', c) = RowsOf(table, c) /\ kept'[c] = kept[c]
           /\ kept'[row.check] = keep
<1>1. row \in Rows /\ row.check \in Checks
  BY NoRowAssumption DEF TypeOK, Commit, Rows
<1>2. keep \in Nat \ {0}
  BY DEF TypeOK, Commit, Consistent, Isolated
<1> QED BY <1>1, <1>2 DEF TypeOK, Commit, Consistent, Isolated

\* Nobody sees more rows of a check than the retention of its last write.
THEOREM RetentionIsHeld == Spec => []RetentionHeld
<1>1. Init => RetentionHeld
  <2>1. Init => \A c \in Checks : RowsOf(table, c) = {}
    BY DEF Init, RowsOf
  <2> QED BY <2>1, FS_EmptySet DEF Init, RetentionHeld
<1>2. TypeOK /\ Consistent /\ RetentionHeld /\ [Next]_vars => RetentionHeld'
  <2> SUFFICES ASSUME TypeOK, Consistent, RetentionHeld, [Next]_vars
               PROVE  RetentionHeld'
    OBVIOUS
  <2>1. CASE UNCHANGED <<table, kept>>
    BY <2>1 DEF RetentionHeld, RowsOf
  <2>2. CASE Commit
    <3>1. IsFiniteSet(RowsOf(table, row.check) \cup {row})
      <4>1. IsFiniteSet(RowsOf(table, row.check))
        BY FS_Subset DEF Consistent, Grounded, RowsOf
      <4> QED BY <4>1, FS_AddElement
    <3>2. Cardinality(RowsOf(table', row.check)) <= keep
      BY <2>2, <3>1, CommitKeepsNewest, NewestIsPart
    <3>3. \A c \in Checks : Cardinality(RowsOf(table', c)) <= kept'[c]
      BY <2>2, <3>2, CommitKeepsNewest DEF RetentionHeld
    <3> QED BY <3>3 DEF RetentionHeld, RowsOf
  <2> QED BY <2>1, <2>2 DEF Next, vars, observed, Open, Close, Exit, Begin, Insert, Evict, Rollback
<1> QED BY <1>1, <1>2, TypeCorrect, ConsistentHolds, PTL DEF Spec

\* Before its first commit a check has no rows.
Ranked == /\ \A c \in Checks : kept[c] = 0 => RowsOf(committed, c) = {}
          /\ NewestKept

\* A commit under a retention that has not been raised keeps the newest rows
\* of all that were ever committed.
LEMMA CommitKeepsRanked ==
    ASSUME TypeOK, Consistent, Ranked, Commit
    PROVE  Ranked'
<1> DEFINE c0   == row.check
           olds == RowsOf(committed, c0)
<1>1. /\ c0 \in Checks
      /\ keep \in Nat \ {0}
      /\ RowsOf(table', c0) \in Newest(RowsOf(table, c0) \cup {row}, keep)
      /\ kept'[c0] = keep
      /\ kept[c0] \in Nat
  BY CommitKeepsNewest DEF TypeOK
<1>2. /\ RowsOf(committed', c0) = olds \cup {row}
      /\ \A c \in Checks \ {c0} : RowsOf(committed', c) = RowsOf(committed, c)
  BY DEF Commit, RowsOf
<1>3. /\ IsFiniteSet(olds)
      /\ row \notin olds
  BY FS_Subset DEF Consistent, Grounded, Commit, RowsOf
<1>4. \A r \in olds \cup {row} : r.ts \in Nat
  BY NamesAssumption, NoRowAssumption DEF TypeOK, Commit, Rows, RowsOf
<1>5. ASSUME c0 \notin raised'
      PROVE  RowsOf(table', c0) \in Newest(olds \cup {row}, keep)
  <2>1. c0 \notin raised /\ (kept[c0] # 0 => keep <= kept[c0])
    BY <1>1, <1>5 DEF Commit
  <2>2. RowsOf(table, c0) \in Newest(olds, kept[c0])
    BY <1>1, <2>1 DEF Ranked, NewestKept
  <2>3. kept[c0] = 0 => olds = {}
    BY <1>1 DEF Ranked
  <2> HIDE DEF olds, c0
  <2> QED BY <1>1, <1>3, <1>4, <2>1, <2>2, <2>3, NewestAgain
<1>6. ASSUME NEW c \in Checks \ {c0}, c \notin raised'
      PROVE  RowsOf(table', c) \in Newest(RowsOf(committed', c), kept'[c])
  <2>1. c \notin raised
    BY <1>6 DEF Commit
  <2>2. /\ RowsOf(table', c) = RowsOf(table, c)
        /\ kept'[c] = kept[c]
        /\ RowsOf(committed', c) = RowsOf(committed, c)
    BY <1>2, <1>6, CommitKeepsNewest
  <2> QED BY <1>6, <2>1, <2>2 DEF Ranked, NewestKept
<1>7. NewestKept'
  <2>1. \A c \in Checks \ raised' :
           RowsOf(table', c) \in Newest(RowsOf(committed', c), kept'[c])
    BY <1>1, <1>2, <1>5, <1>6
  <2> QED BY <2>1 DEF NewestKept, RowsOf, Newest
<1>8. (\A c \in Checks : kept[c] = 0 => RowsOf(committed, c) = {})'
  <2>1. \A c \in Checks : kept'[c] = 0 => RowsOf(committed', c) = {}
    BY <1>1, <1>2, CommitKeepsNewest DEF Ranked
  <2> QED BY <2>1 DEF RowsOf
<1> QED BY <1>7, <1>8 DEF Ranked

\* In whatever order results arrive and writes fail, the rows of a check are
\* the newest that were ever committed for it, unless its retention was raised.
THEOREM NewestAreKept == Spec => []NewestKept
<1>1. Init => Ranked
  <2> SUFFICES ASSUME Init PROVE Ranked
    OBVIOUS
  <2>1. {} \in Newest({}, 0)
    BY FS_EmptySet DEF Newest, Lesser
  <2>2. \A c \in Checks : /\ RowsOf(committed, c) = {}
                          /\ RowsOf(table, c) = {}
                          /\ kept[c] = 0
    BY DEF Init, RowsOf
  <2> QED BY <2>1, <2>2 DEF Ranked, NewestKept
<1>2. TypeOK /\ Consistent /\ Ranked /\ [Next]_vars => Ranked'
  <2> SUFFICES ASSUME TypeOK, Consistent, Ranked, [Next]_vars PROVE Ranked'
    OBVIOUS
  <2>1. CASE UNCHANGED <<table, observed>>
    BY <2>1 DEF Ranked, NewestKept, RowsOf, Newest, observed
  <2>2. CASE Commit
    BY <2>2, CommitKeepsRanked
  <2> QED BY <2>1, <2>2 DEF Next, vars, observed, Open, Close, Exit, Begin,
                            Insert, Evict, Rollback
<1>3. Ranked => NewestKept
  BY DEF Ranked
<1> QED BY <1>1, <1>2, <1>3, TypeCorrect, ConsistentHolds, PTL DEF Spec

-----------------------------------------------------------------------------
(* Queries. *)

\* A sorted answer lists each of the rows once.
LEMMA SortedListsOnce ==
    ASSUME NEW R, IsFiniteSet(R), NEW s \in Sorted(R)
    PROVE  /\ Cardinality(R) \in Nat
           /\ s \in Seq(R)
           /\ Len(s) = Cardinality(R)
           /\ \A r \in R : \E i \in 1 .. Len(s) : s[i] = r
           /\ \A i, j \in 1 .. Len(s) : s[i] = s[j] => i = j
           /\ \A i, j \in 1 .. Len(s) : i < j => s[i].ts >= s[j].ts
<1> DEFINE k == Cardinality(R)
<1>1. k \in Nat
  BY FS_CardinalityType
<1>2. /\ s \in [1 .. k -> R]
      /\ \A r \in R : \E i \in 1 .. k : s[i] = r
      /\ \A i, j \in 1 .. k : i < j => s[i].ts >= s[j].ts
  BY DEF Sorted
<1>3. s \in Seq(R) /\ Len(s) = k
  BY <1>1, <1>2
<1>4. s \in Surjection(1 .. k, R)
  BY <1>2, Fun_IsSurj
<1>5. IsFiniteSet(1 .. k) /\ Cardinality(1 .. k) = k
  BY <1>1, FS_Interval
<1>6. s \in Injection(1 .. k, R)
  BY <1>4, <1>5, FS_Surjection
<1>7. \A i, j \in 1 .. k : s[i] = s[j] => i = j
  BY <1>6, Fun_InjectionProperties
<1> QED BY <1>1, <1>2, <1>3, <1>7

\* The entries of a list without repetition are as many as it is long.
LEMMA ListedOnce ==
    ASSUME NEW m \in Nat, NEW t, DOMAIN t = 1 .. m,
           \A i, j \in 1 .. m : t[i] = t[j] => i = j
    PROVE  Cardinality({t[i] : i \in DOMAIN t}) = m
<1> DEFINE L == {t[i] : i \in DOMAIN t}
           f == [i \in 1 .. m |-> t[i]]
<1>1. f \in Bijection(1 .. m, L)
  <2>1. f \in [1 .. m -> L]
    OBVIOUS
  <2>2. \A i, j \in 1 .. m : f[i] = f[j] => i = j
    OBVIOUS
  <2>3. \A x \in L : \E i \in 1 .. m : f[i] = x
    OBVIOUS
  <2> HIDE DEF f, L
  <2> QED BY <2>1, <2>2, <2>3, Fun_IsBij
<1>2. ExistsBijection(1 .. m, L)
  BY <1>1, Fun_ExistsBij
<1>3. IsFiniteSet(1 .. m) /\ Cardinality(1 .. m) = m
  BY FS_Interval
<1> QED BY <1>2, <1>3, FS_Bijection

\* What an answer promises of the rows R that it is about.
AnswersFrom(R, n, s) ==
    LET listed == {s[i] : i \in DOMAIN s}
    IN  /\ listed \in Newest(R, n)
        /\ Len(s) = Cardinality(listed)
        /\ \A i, j \in DOMAIN s : i < j => s[i].ts >= s[j].ts

\* LIMIT takes the first rows of the order, which are the newest ones.
LEMMA FirstAreNewest ==
    ASSUME NEW R, IsFiniteSet(R), NEW n \in Nat, NEW s \in Sorted(R),
           \A r \in R : r.ts \in Nat
    PROVE  AnswersFrom(R, n, SubSeq(s, 1, Lesser(n, Len(s))))
<1> DEFINE m == Lesser(n, Len(s))
           t == SubSeq(s, 1, m)
           listed == {t[i] : i \in DOMAIN t}
<1>1. /\ Cardinality(R) \in Nat
      /\ s \in Seq(R)
      /\ Len(s) = Cardinality(R)
      /\ \A r \in R : \E i \in 1 .. Len(s) : s[i] = r
      /\ \A i, j \in 1 .. Len(s) : s[i] = s[j] => i = j
      /\ \A i, j \in 1 .. Len(s) : i < j => s[i].ts >= s[j].ts
  BY SortedListsOnce
<1>2. m \in Nat /\ m <= Len(s) /\ m = Lesser(n, Cardinality(R))
  BY <1>1 DEF Lesser
<1>3. \A i \in 1 .. Len(s) : s[i] \in R
  BY <1>1
<1>4. /\ DOMAIN t = 1 .. m
      /\ Len(t) = m
      /\ \A i \in 1 .. m : i \in 1 .. Len(s) /\ t[i] = s[i]
  <2> HIDE DEF m
  <2> QED BY <1>1, <1>2
<1> HIDE DEF t, m
<1>5. Cardinality(listed) = m
  <2>1. \A i, j \in 1 .. m : t[i] = t[j] => i = j
    BY <1>1, <1>4
  <2>2. DOMAIN t = 1 .. m /\ m \in Nat
    BY <1>2, <1>4
  <2> QED BY <2>1, <2>2, ListedOnce
<1>6. listed \subseteq R
  BY <1>3, <1>4
<1>7. ASSUME NEW i \in 1 .. m, NEW r \in R \ listed
      PROVE  r.ts <= t[i].ts
  <2>1. PICK j \in 1 .. Len(s) : s[j] = r
    BY <1>1
  <2>2. j \notin 1 .. m
    BY <2>1, <1>4, <1>7
  <2>3. i < j
    BY <2>1, <2>2, <1>1, <1>2
  <2>4. s[i].ts >= s[j].ts
    BY <2>1, <2>3, <1>1, <1>4
  <2>5. s[i].ts \in Nat /\ s[j].ts \in Nat
    BY <2>1, <1>3, <1>4
  <2> QED BY <2>1, <2>4, <2>5, <1>4
<1>8. listed \in Newest(R, n)
  BY <1>2, <1>4, <1>5, <1>6, <1>7 DEF Newest
<1>9. \A i, j \in DOMAIN t : i < j => t[i].ts >= t[j].ts
  BY <1>1, <1>4
<1> QED BY <1>4, <1>5, <1>8, <1>9 DEF AnswersFrom, t, m

\* The rows numbered up to n are the newest n.
LEMMA NumberedAreNewest ==
    ASSUME NEW R, IsFiniteSet(R), NEW n \in Nat, NEW rn \in RowNumbers(R),
           \A r \in R : r.ts \in Nat
    PROVE  {r \in R : rn[r] <= n} \in Newest(R, n)
<1> DEFINE k == Cardinality(R)
           m == Lesser(n, k)
           T == {r \in R : rn[r] <= n}
           f == [r \in T |-> rn[r]]
<1>1. k \in Nat /\ m \in Nat /\ m <= k
  BY FS_CardinalityType DEF Lesser
<1>2. /\ rn \in [R -> 1 .. k]
      /\ \A r, q \in R : rn[r] = rn[q] => r = q
      /\ \A r, q \in R : r.ts > q.ts => rn[r] < rn[q]
  <2>1. /\ rn \in [R -> 1 .. k]
        /\ \A r, q \in R : r # q => rn[r] # rn[q]
    BY DEF RowNumbers
  <2>2. ASSUME NEW r \in R, NEW q \in R, r.ts > q.ts
        PROVE  rn[r] < rn[q]
    <3>1. r # q
      BY <2>2
    <3> QED BY <3>1, <2>2 DEF RowNumbers
  <2> QED BY <2>1, <2>2
<1>3. \A i \in 1 .. k : \E r \in R : rn[r] = i
  <2>1. rn \in Injection(R, 1 .. k)
    BY <1>2, Fun_IsInj
  <2>2. IsFiniteSet(1 .. k) /\ Cardinality(1 .. k) = k
    BY <1>1, FS_Interval
  <2>3. rn \in Surjection(R, 1 .. k)
    BY <2>1, <2>2, FS_Injection
  <2> QED BY <2>3, Fun_SurjectionProperties
<1>4. f \in Bijection(T, 1 .. m)
  <2>1. f \in [T -> 1 .. m]
    BY <1>1, <1>2 DEF Lesser
  <2>2. \A r, q \in T : f[r] = f[q] => r = q
    BY <1>2
  <2>3. \A i \in 1 .. m : \E r \in T : f[r] = i
    <3>1. SUFFICES ASSUME NEW i \in 1 .. m PROVE \E r \in T : f[r] = i
      OBVIOUS
    <3>2. i \in 1 .. k /\ i <= n
      BY <1>1 DEF Lesser
    <3> QED BY <3>2, <1>3
  <2> HIDE DEF f, T, m
  <2> QED BY <2>1, <2>2, <2>3, Fun_IsBij
<1>5. IsFiniteSet(T)
  BY FS_Subset
<1>6. Cardinality(T) = m
  <2> HIDE DEF f, T, m
  <2>1. ExistsBijection(T, 1 .. m)
    BY <1>4, Fun_ExistsBij
  <2>2. Cardinality(1 .. m) = Cardinality(T)
    BY <2>1, <1>5, FS_Bijection
  <2>3. Cardinality(1 .. m) = m
    BY <1>1, FS_Interval
  <2> QED BY <2>2, <2>3
<1>7. ASSUME NEW t \in T, NEW r \in R \ T PROVE r.ts <= t.ts
  <2>1. rn[r] \in Nat /\ rn[t] \in Nat /\ rn[t] <= n /\ n < rn[r]
    BY <1>1, <1>2
  <2>2. ~(r.ts > t.ts)
    BY <2>1, <1>2
  <2>3. r.ts \in Nat /\ t.ts \in Nat
    OBVIOUS
  <2> QED BY <2>2, <2>3
<1> QED BY <1>6, <1>7 DEF Newest

\* QueryAll lists the rows of a check that are numbered up to the limit.
LEMMA NumberedAreSorted ==
    ASSUME NEW R, IsFiniteSet(R), NEW n \in Nat, NEW rn \in RowNumbers(R),
           \A r \in R : r.ts \in Nat,
           NEW s \in Sorted({r \in R : rn[r] <= n})
    PROVE  AnswersFrom(R, n, s)
<1> DEFINE T == {r \in R : rn[r] <= n}
           listed == {s[i] : i \in DOMAIN s}
<1>1. T \in Newest(R, n)
  BY NumberedAreNewest
<1>2. IsFiniteSet(T)
  BY FS_Subset
<1> HIDE DEF T
<1>3. /\ s \in Seq(T)
      /\ Len(s) = Cardinality(T)
      /\ \A r \in T : \E i \in 1 .. Len(s) : s[i] = r
      /\ \A i, j \in 1 .. Len(s) : i < j => s[i].ts >= s[j].ts
  BY <1>2, SortedListsOnce DEF T
<1>4. DOMAIN s = 1 .. Len(s)
  BY <1>3
<1>5. listed = T
  BY <1>3, <1>4
<1> QED BY <1>1, <1>3, <1>4, <1>5 DEF AnswersFrom

\* Timestamps are numbers, and a row has one.
LEMMA RowsAreDated == \A r \in Rows : r.ts \in Nat
<1> SUFFICES ASSUME NEW r \in Rows PROVE r.ts \in Timestamps
  BY NamesAssumption
<1> QED BY DEF Rows

\* Both endpoints answer for a check with its newest rows, newest first, as
\* many as the limit allows.
THEOREM NewestAreAnswered == Spec => []AnswersNewest
<1>1. TypeOK /\ Consistent => AnswersNewest
  <2> SUFFICES ASSUME TypeOK, Consistent,
                      NEW name \in Checks \cup {Star}, NEW raw \in RawLimits,
                      Status(name, raw) = 200,
                      NEW c \in Reported(name),
                      NEW s \in Records(name, raw, c)
               PROVE  AnswersFrom(RowsOf(table, c), LimitOf(raw), s)
    BY DEF AnswersNewest, AnswersFrom
  <2> DEFINE R == RowsOf(table, c)
             n == LimitOf(raw)
  <2>1. n \in Nat
    BY LimitsAssumption DEF Status, ValidLimit, LimitOf
  <2>2. IsFiniteSet(R)
    BY FS_Subset DEF Consistent, Grounded, RowsOf
  <2>3. \A r \in R : r.ts \in Nat
    BY RowsAreDated DEF TypeOK, RowsOf
  <2>4. CASE s \in QueryCheck(c, n)
    <3>1. PICK q \in Sorted(R) : s = SubSeq(q, 1, Lesser(n, Len(q)))
      BY <2>4 DEF QueryCheck
    <3> HIDE DEF R, n
    <3> QED BY <3>1, <2>1, <2>2, <2>3, FirstAreNewest DEF R, n
  <2>5. CASE s \in QueryAll(c, n)
    <3>1. PICK rn \in RowNumbers(R) : s \in Sorted({r \in R : rn[r] <= n})
      BY <2>5 DEF QueryAll
    <3> HIDE DEF R, n
    <3> QED BY <3>1, <2>1, <2>2, <2>3, NumberedAreSorted DEF R, n
  <2> QED BY <2>4, <2>5 DEF Records
<1> QED BY <1>1, TypeCorrect, ConsistentHolds, PTL
=============================================================================
