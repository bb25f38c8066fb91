-------------------------------- MODULE Store --------------------------------
(***************************************************************************)
(* The history store (internal/history/store.go) and the REST handler that *)
(* reads it (internal/history/api.go), across restarts of the daemon.      *)
(*                                                                         *)
(* Writes come one at a time, from the recorder's goroutine. Each is one   *)
(* SQL transaction, modelled statement by statement; it may fail or the    *)
(* process may die between any two. A query is one SELECT and sees what is *)
(* committed. ORDER BY does not break ties, so neither does the model.     *)
(***************************************************************************)
EXTENDS Integers, Sequences, FiniteSets

CONSTANTS
    Checks,        \* every check name that is ever configured
    Configs,       \* the configurations the daemon is (re)started with
    Timestamps,    \* values of CheckResult.Timestamp
    MaxWrites,     \* bound: number of Write calls
    Star,          \* the name "*"
    Slashed,       \* names with a character that the handler rejects
    RawLimits,     \* values of the query parameter `limit`
    Absent,        \* ... when it is not given
    Junk,          \* ... when it is not a number
    DefaultLimit,  \* defaultLimit
    NoRow          \* no transaction is open

ASSUME NamesAssumption ==
    Slashed \subseteq Checks /\ Timestamps \subseteq Nat /\ MaxWrites \in Nat

\* The loader replaces a global retention of 0 and refuses negative values.
ASSUME ConfigsAssumption ==
    Configs \subseteq [checks : SUBSET Checks, retention : Nat \ {0},
                       override : [Checks -> Nat]]

Rows == [id : 1 .. MaxWrites, check : Checks, ts : Timestamps]

ASSUME NoRowAssumption == NoRow \notin Rows

\* strconv.Atoi yields an integer of either sign, or an error.
ASSUME LimitsAssumption ==
    DefaultLimit \in Nat \ {0} /\ RawLimits \ {Absent, Junk} \subseteq Int

VARIABLES
    db,        \* "down": no process, "open", "closed": store.Close was called
    config,    \* the running configuration
    table,     \* the committed rows of execution_records
    stage,     \* how far Write has got
    row,       \* the row it inserts
    keep,      \* the retention it was given
    view,      \* the table as its transaction sees it
    writes,    \* number of Write calls; ids are unique
    committed, \* observer: every row that was ever committed
    kept,      \* observer: kept[c] is the retention of the last commit for c
    raised     \* observer: checks whose retention has been raised

tx       == <<stage, row, keep, view>>
observed == <<committed, kept, raised>>
vars     == <<db, config, table, stage, row, keep, view, writes, committed,
              kept, raised>>

Stages == {"none", "begun", "inserted", "evicted"}

Lesser(m, n)  == IF m <= n THEN m ELSE n
RowsOf(R, c)  == {r \in R : r.check = c}

\* retention: the override of the check if it is > 0, else the global one.
EffectiveRetention(c) ==
    IF config.override[c] > 0 THEN config.override[c] ELSE config.retention

\* SELECT ... FROM R ORDER BY timestamp DESC LIMIT n, as a set of rows.
Newest(R, n) ==
    {T \in SUBSET R : /\ Cardinality(T) = Lesser(n, Cardinality(R))
                      /\ \A t \in T, r \in R \ T : r.ts <= t.ts}

Init ==
    /\ db = "down"
    /\ config \in Configs
    /\ table = {}
    /\ stage = "none"
    /\ row = NoRow
    /\ keep = 0
    /\ view = {}
    /\ writes = 0
    /\ committed = {}
    /\ kept = [c \in Checks |-> 0]
    /\ raised = {}

-----------------------------------------------------------------------------
(* The process. *)

\* NewSQLiteStore; the schema statements leave an existing table alone.
Open(cfg) ==
    /\ db = "down"
    /\ db' = "open"
    /\ config' = cfg
    /\ UNCHANGED <<table, tx, writes, observed>>

\* store.Close, after the recorder's last write.
Close ==
    /\ db = "open"
    /\ stage = "none"
    /\ db' = "closed"
    /\ UNCHANGED <<config, table, tx, writes, observed>>

\* The process ends or is killed; an open transaction is rolled back.
Exit ==
    /\ db # "down"
    /\ db' = "down"
    /\ stage' = "none"
    /\ row' = NoRow
    /\ keep' = 0
    /\ view' = {}
    /\ UNCHANGED <<config, table, writes, observed>>

-----------------------------------------------------------------------------
(* Write. *)

\* BeginTx, for a result of check c that carries timestamp ts.
Begin(c, ts) ==
    /\ db = "open"
    /\ stage = "none"
    /\ c \in config.checks
    /\ writes < MaxWrites
    /\ writes' = writes + 1
    /\ stage' = "begun"
    /\ row' = [id |-> writes + 1, check |-> c, ts |-> ts]
    /\ keep' = EffectiveRetention(c)
    /\ view' = table
    /\ UNCHANGED <<db, config, table, observed>>

\* Mutant: the insertion is a transaction of its own.
Insert_Autocommit ==
    /\ stage = "begun"
    /\ stage' = "inserted"
    /\ view' = view \cup {row}
    /\ table' = view \cup {row}
    /\ UNCHANGED <<db, config, row, keep, writes, observed>>

Insert ==
    /\ stage = "begun"
    /\ stage' = "inserted"
    /\ view' = view \cup {row}
    /\ UNCHANGED <<db, config, table, row, keep, writes, observed>>

\* Mutant: the outer WHERE check_name = ? is missing.
Evict_AllChecks ==
    /\ stage = "inserted"
    /\ stage' = "evicted"
    /\ view' \in Newest(RowsOf(view, row.check), keep)
    /\ UNCHANGED <<db, config, table, row, keep, writes, observed>>

\* Mutant: ORDER BY timestamp without DESC keeps the oldest.
Evict_Ascending ==
    /\ stage = "inserted"
    /\ stage' = "evicted"
    /\ LET own == RowsOf(view, row.check)
       IN  \E oldest \in {T \in SUBSET own :
                            /\ Cardinality(T) = Lesser(keep, Cardinality(own))
                            /\ \A t \in T, r \in own \ T : r.ts >= t.ts} :
             view' = {r \in view : r.check # row.check} \cup oldest
    /\ UNCHANGED <<db, config, table, row, keep, writes, observed>>

\* DELETE ... WHERE check_name = ? AND id NOT IN (SELECT ... LIMIT keep)
Evict ==
    /\ stage = "inserted"
    /\ stage' = "evicted"
    /\ \E newest \in Newest(RowsOf(view, row.check), keep) :
          view' = {r \in view : r.check # row.check} \cup newest
    /\ UNCHANGED <<db, config, table, row, keep, writes, observed>>

Commit ==
    /\ stage = "evicted"
    /\ table' = view
    /\ stage' = "none"
    /\ row' = NoRow
    /\ keep' = 0
    /\ view' = {}
    /\ committed' = committed \cup {row}
    /\ kept' = [kept EXCEPT ![row.check] = keep]
    /\ raised' = IF kept[row.check] # 0 /\ keep > kept[row.check]
                 THEN raised \cup {row.check} ELSE raised
    /\ UNCHANGED <<db, config, writes>>

\* Mutant: the statement fails and the transaction stays open.
Rollback_Forgotten ==
    /\ stage # "none"
    /\ stage' = "none"
    /\ UNCHANGED <<db, config, table, row, keep, view, writes, observed>>

\* A statement or the commit fails, or the 5 s of writeJob are over.
Rollback ==
    /\ stage # "none"
    /\ stage' = "none"
    /\ row' = NoRow
    /\ keep' = 0
    /\ view' = {}
    /\ UNCHANGED <<db, config, table, writes, observed>>

-----------------------------------------------------------------------------

Next ==
    \/ \E cfg \in Configs : Open(cfg)
    \/ Close
    \/ Exit
    \/ \E c \in Checks, ts \in Timestamps : Begin(c, ts)
    \/ Insert
    \/ Evict
    \/ Commit
    \/ Rollback

Spec == Init /\ [][Next]_vars

-----------------------------------------------------------------------------
(* Queries: the answers that the SELECT may give, newest first. *)

Sorted(R) ==
    {s \in [1 .. Cardinality(R) -> R] :
        /\ \A r \in R : \E i \in DOMAIN s : s[i] = r
        /\ \A i, j \in DOMAIN s : i < j => s[i].ts >= s[j].ts}

QueryCheck(c, n) ==
    {SubSeq(s, 1, Lesser(n, Len(s))) : s \in Sorted(RowsOf(table, c))}

\* ROW_NUMBER() OVER (PARTITION BY check_name ORDER BY timestamp DESC)
RowNumbers(R) ==
    {rn \in [R -> 1 .. Cardinality(R)] :
        \A r, q \in R : /\ r # q => rn[r] # rn[q]
                        /\ r.ts > q.ts => rn[r] < rn[q]}

\* Mutant: WHERE rn < ?
QueryAll_OffByOne(c, n) ==
    UNION {Sorted({r \in RowsOf(table, c) : rn[r] < n}) :
              rn \in RowNumbers(RowsOf(table, c))}

\* What QueryAll returns for check c.
QueryAll(c, n) ==
    UNION {Sorted({r \in RowsOf(table, c) : rn[r] <= n}) :
              rn \in RowNumbers(RowsOf(table, c))}

Recorded == {r.check : r \in table}

-----------------------------------------------------------------------------
(* The REST handler, for GET requests. *)

ValidLimit(raw) == raw # Junk /\ (raw = Absent \/ raw > 0)
LimitOf(raw)    == IF raw = Absent THEN DefaultLimit ELSE raw

\* parseLimit, "*", the check of the name, then the query and its errors.
Status(name, raw) ==
    CASE ~ValidLimit(raw)                         -> 400
      [] name # Star /\ name \in Slashed          -> 400
      [] db # "open"                              -> 500
      [] name # Star /\ name \notin Recorded      -> 404
      [] OTHER                                    -> 200

\* The names under `checks` in a reply with status 200.
Reported(name) == IF name = Star THEN Recorded ELSE {name}

\* The records that a reply may list for check c.
Records(name, raw, c) ==
    IF name = Star THEN QueryAll(c, LimitOf(raw)) ELSE QueryCheck(c, LimitOf(raw))

-----------------------------------------------------------------------------

TypeOK ==
    /\ db \in {"down", "open", "closed"}
    /\ config \in Configs
    /\ table \subseteq Rows
    /\ stage \in Stages
    /\ row \in Rows \cup {NoRow}
    /\ stage = "none" <=> row = NoRow
    /\ keep \in Nat
    /\ view \subseteq Rows
    /\ writes \in 0 .. MaxWrites
    /\ committed \subseteq Rows
    /\ kept \in [Checks -> Nat]
    /\ raised \subseteq Checks

\* Nobody ever sees more rows of a check than the retention its last write
\* was given, not even while that write is under way (store.go:77-78).
RetentionHeld ==
    \A c \in Checks : Cardinality(RowsOf(table, c)) <= kept[c]

\* Unless the retention of a check was raised in between, its rows are the
\* newest of all that were ever committed for it, in whatever order results
\* with older and newer timestamps arrived (store.go:109-120).
NewestKept ==
    \A c \in Checks \ raised :
        RowsOf(table, c) \in Newest(RowsOf(committed, c), kept[c])

\* Only a committed write for a check changes its rows: other writes,
\* restarts, crashes and a configuration without the check leave them alone
\* (store.go:101-125).
NeighboursUntouched ==
    [][\A c \in Checks :
          RowsOf(table', c) # RowsOf(table, c) =>
             stage = "evicted" /\ row.check = c]_vars

\* Both endpoints answer for a check with its newest rows, as many as the
\* limit allows, in descending order (store.go:130-151, 155-185, api.go:30-57).
AnswersNewest ==
    \A name \in Checks \cup {Star}, raw \in RawLimits :
        Status(name, raw) = 200 =>
            \A c \in Reported(name) : \A s \in Records(name, raw, c) :
                LET listed == {s[i] : i \in DOMAIN s}
                IN  /\ listed \in Newest(RowsOf(table, c), LimitOf(raw))
                    /\ Len(s) = Cardinality(listed)
                    /\ \A i, j \in DOMAIN s : i < j => s[i].ts >= s[j].ts
=============================================================================
