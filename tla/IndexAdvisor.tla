----------------------------- MODULE IndexAdvisor -----------------------------
(***************************************************************************)
(* The connected index advisor and the table it advises on.                *)
(*                                                                         *)
(* A scan reads SQL Server's catalog, usage counters and missing-index     *)
(* suggestions and turns them into statements to run.  The workload moves  *)
(* the counters and leaves suggestions; a restart forgets both; somebody   *)
(* runs one statement of an up-to-date scan at a time.  Any of the scan's  *)
(* queries may fail, which leaves its part of the bundle empty.            *)
(*                                                                         *)
(* One table: the advisor treats tables apart.  An index is its key, its   *)
(* INCLUDE set and what it enforces; ids stand for names and order the     *)
(* catalog; update counts are kept as 0, 1 (at most 100) and 2 (more).     *)
(* Left out: ranking and wording, the columnstore advice and the advice    *)
(* that changes no index's shape.                                          *)
(*                                                                         *)
(* Source: analyzer-core/src/dmv.rs, backend/src/sqlserver.rs.             *)
(***************************************************************************)
EXTENDS Integers, Sequences, SequencesExt, FiniteSetsExt

CONSTANTS
    Ids,            \* names of indexes: positive numbers
    Catalogs,       \* what the table may have before: functions from ids
    Queries,        \* the workload: [key, needs], columns sought, columns read
    MaxReads,       \* bound: reads and seeks counted
    MaxSuggestions  \* bound: suggestions in the missing-index DMV

Shapes == [key : Seq(STRING), inc : SUBSET STRING,
           unique : BOOLEAN, clustered : BOOLEAN, pk : BOOLEAN]
Lookups == [key : Seq(STRING) \ {<<>>}, needs : SUBSET STRING]

\* What the constants are; Requests assumes it.
IndexAdvisorAssumption ==
    /\ Ids \subseteq Nat \ {0} /\ MaxReads \in Nat \ {0}
    /\ \A c \in Catalogs : DOMAIN c \subseteq Ids /\ c \in [DOMAIN c -> Shapes]
    /\ Queries \subseteq Lookups

VARIABLES
    catalog,    \* id -> [key, inc, unique, clustered, pk]
    usage,      \* id -> [reads, updates], since the last restart
    missing,    \* the missing-index DMV: sequence of [key, inc, seeks]
    young,      \* the counters are younger than a day
    small,      \* the table is known to hold fewer than SMALL_TABLE_ROWS rows
    seeking     \* history: queries that sought an index since the last change

vars == <<catalog, usage, missing, young, small, seeking>>

Capped(n) == IF n > MaxReads THEN MaxReads ELSE n
Unused == [reads |-> 0, updates |-> 0]
Columns(ix) == Range(ix.key) \cup ix.inc
----------------------------------------------------------------------------
(***************************************************************************)
(* The advisor.  cat is the catalog as the scan read it.                   *)
(***************************************************************************)

IsKeyPrefix(p, k) == p # <<>> /\ IsPrefix(p, k)

\* Mutant: the absorbed suggestion's INCLUDE columns are forgotten.
AbsorbKeyOnly(m, absorbed) == [m EXCEPT !.seeks = @ + absorbed.seeks]

Absorb(m, absorbed) ==
    [key |-> m.key, inc |-> m.inc \cup absorbed.inc, seeks |-> m.seeks + absorbed.seeks]

\* Folds the first suggestion whose key begins another's into that one.
MergeFirstPair(list) ==
    LET folds == {p \in (1..Len(list)) \X (1..Len(list)) :
                    /\ p[1] # p[2]
                    /\ IsKeyPrefix(list[p[2]].key, list[p[1]].key)
                    /\ list[p[1]].key = list[p[2]].key => p[1] < p[2]}
    IN  IF folds = {} THEN list
        ELSE LET i == Min({p[1] : p \in folds})
                 j == Min({p[2] : p \in {f \in folds : f[1] = i}})
             IN  RemoveAt([list EXCEPT ![i] = Absorb(@, list[j])], j)

ConsolidateMissingIndexes(list) ==
    FoldLeft(LAMBDA l, k : MergeFirstPair(l), list, [k \in 1..Len(list) |-> k])

NoIndex == 0
Statement(kind, build, key, inc, drop, held) ==
    [kind |-> kind, build |-> build, key |-> key, inc |-> inc, drop |-> drop,
     held |-> held]

\* The statements for one consolidated suggestion: none when an index with
\* its key already carries its columns.
CreateOrWiden(cat, m) ==
    LET same == {i \in DOMAIN cat : /\ cat[i].key = m.key
                                    /\ ~cat[i].unique /\ ~cat[i].clustered}
    IN  IF same = {}
        THEN {Statement("create", NoIndex, m.key, m.inc, NoIndex, FALSE)}
        ELSE LET i == Min(same)
             IN  IF m.inc \subseteq Columns(cat[i]) THEN {}
                 ELSE {Statement("widen", i, m.key, cat[i].inc \cup m.inc, NoIndex, FALSE)}

Creates(cat, suggestions) ==
    IF small THEN {}
    ELSE UNION {CreateOrWiden(cat, m) : m \in Range(ConsolidateMissingIndexes(suggestions))}

\* Mutant: an index read once since the restart counts as unread.
HardlyRead(i) == usage[i].reads <= 1
Unread(i) == usage[i].reads = 0

\* The usage rows are listed whether or not the index metadata could be read;
\* a constraint is recognised by the metadata, or by a name like PK_....
Drops(cat, idle) ==
    {Statement("drop", NoIndex, <<>>, {}, i,
               young /\ (usage[i].updates = 0 => i \notin idle)) :
        i \in {i \in DOMAIN usage :
                 /\ Unread(i)
                 /\ i \in DOMAIN cat => ~cat[i].unique /\ ~cat[i].clustered
                 /\ ~catalog[i].pk
                 /\ usage[i].updates # 1}}

SameKeyPairs(cat) ==
    {p \in (DOMAIN cat) \X (DOMAIN cat) :
        p[1] < p[2] /\ cat[p[1]].key # <<>> /\ cat[p[1]].key = cat[p[2]].key}

\* Same key, same INCLUDEs: one of the two goes, never one that enforces.
Duplicates(cat) ==
    {Statement("duplicate", NoIndex, <<>>, {},
               IF cat[p[2]].unique /\ ~cat[p[1]].unique THEN p[1] ELSE p[2], FALSE) :
        p \in {p \in SameKeyPairs(cat) :
                 /\ cat[p[1]].inc = cat[p[2]].inc
                 /\ ~(cat[p[1]].unique /\ cat[p[2]].unique)}}

\* An index without a usage row has not been seen, which is not "no reads".
Seen(u, i) == i \in DOMAIN u /\ u[i] # Unused

\* Mutant: the survivor keeps the INCLUDEs it had.
SurvivorsOnly(keep, drop) == keep.inc
UnionIncludes(keep, drop) == keep.inc \cup drop.inc
Overlap(cat, keep, drop) ==
    Statement("overlap", keep, cat[keep].key, UnionIncludes(cat[keep], cat[drop]), drop, FALSE)

\* Same key, different INCLUDEs: the one with fewer reads is folded into the other.
Overlaps(cat, u) ==
    {LET a == p[1]
         b == p[2]
         fewer == /\ Seen(u, b)
                  /\ u[b].reads > (IF Seen(u, a) THEN u[a].reads ELSE 0)
     IN  IF fewer THEN Overlap(cat, b, a) ELSE Overlap(cat, a, b) :
        p \in {p \in SameKeyPairs(cat) :
                 /\ cat[p[1]].inc # cat[p[2]].inc
                 /\ ~cat[p[1]].unique /\ ~cat[p[2]].unique}}

RedundantExistingIndexes(cat) ==
    {Statement("prefix", NoIndex, <<>>, {}, i, FALSE) :
        i \in {i \in DOMAIN cat :
                 /\ ~cat[i].unique
                 /\ \E j \in DOMAIN cat :
                      /\ Len(cat[j].key) > Len(cat[i].key)
                      /\ IsKeyPrefix(cat[i].key, cat[j].key)}}

Advise(cat, u, suggestions, idle) ==
    Creates(cat, suggestions)
      \cup (IF u = <<>> THEN {} ELSE Drops(cat, idle))
      \cup Duplicates(cat) \cup Overlaps(cat, u) \cup RedundantExistingIndexes(cat)

\* Every statement a scan may show.  A query that fails leaves the catalog or
\* the usage empty; without the suggestions there are only fewer statements.
\* The monitor's history speaks of each index apart.
OrNothing(read) == {read, <<>>}
Advice ==
    UNION {Advise(cat, u, missing, idle) : cat \in OrNothing(catalog),
             u \in OrNothing(usage), idle \in {{}, DOMAIN usage}}
----------------------------------------------------------------------------
(***************************************************************************)
(* SQL Server: its optimizer, counters and suggestions (external).         *)
(***************************************************************************)
Seeks(q, ix) == IsPrefix(q.key, ix.key)
Covers(q, ix) == Seeks(q, ix) /\ (ix.clustered \/ q.needs \subseteq Columns(ix))
Seekable(q, cat) == \E i \in DOMAIN cat : Seeks(q, cat[i])
Covered(q, cat) == \E i \in DOMAIN cat : Covers(q, cat[i])

Base == {i \in DOMAIN catalog : catalog[i].clustered}
Count(read) ==
    usage' = [i \in DOMAIN usage |->
                IF i \in read THEN [usage[i] EXCEPT !.reads = Capped(@ + 1)] ELSE usage[i]]

Suggest(q) ==
    LET m    == [key |-> q.key, inc |-> q.needs \ Range(q.key), seeks |-> 1]
        here == {k \in 1..Len(missing) : missing[k].key = m.key /\ missing[k].inc = m.inc}
    IN  missing' = IF here # {}
                   THEN [missing EXCEPT ![Min(here)].seeks = Capped(@ + 1)]
                   ELSE Append(missing, m)

\* A covering index is sought; another may be, with lookups in the base
\* table; or the base table is scanned.
RunQuery(q) ==
    /\ \/ \E i \in DOMAIN catalog :
            /\ Covers(q, catalog[i])
            /\ Count({i}) /\ seeking' = seeking \cup {q} /\ UNCHANGED missing
       \/ /\ ~Covered(q, catalog) /\ Len(missing) < MaxSuggestions
          /\ Suggest(q)
          /\ \/ \E i \in DOMAIN catalog :
                  Seeks(q, catalog[i]) /\ Count({i} \cup Base) /\ seeking' = seeking \cup {q}
             \/ Count(Base) /\ UNCHANGED seeking
    /\ UNCHANGED <<catalog, young, small>>

Write(many) ==
    /\ usage' = [i \in DOMAIN usage |->
                   [usage[i] EXCEPT !.updates = IF many \/ @ = 2 THEN 2 ELSE 1]]
    /\ UNCHANGED <<catalog, missing, young, small, seeking>>

Age == young /\ young' = FALSE /\ UNCHANGED <<catalog, usage, missing, small, seeking>>

Restart ==
    /\ usage' = [i \in DOMAIN usage |-> Unused]
    /\ missing' = <<>> /\ young' = TRUE /\ seeking' = {}
    /\ UNCHANGED <<catalog, small>>
----------------------------------------------------------------------------
\* SQL Server does not turn a clustered index into the nonclustered one that
\* DROP_EXISTING names.
Rebuilt(ix, r) == IF ix.clustered THEN ix ELSE [ix EXCEPT !.inc = r.inc]
Created(r) == [key |-> r.key, inc |-> r.inc,
               unique |-> FALSE, clustered |-> FALSE, pk |-> FALSE]

\* One statement is run: indexes are built or rebuilt, then dropped.  A held
\* one is a comment.  Changing a table's indexes may clear its suggestions.
Follow(r) ==
    /\ ~r.held
    /\ \E new \in IF r.kind = "create" THEN {{i} : i \in Ids \ DOMAIN catalog} ELSE {{}} :
         LET left == (DOMAIN catalog \ {r.drop}) \cup new
         IN  /\ catalog' = [i \in left |->
                              IF i \in new THEN Created(r)
                              ELSE IF i = r.build THEN Rebuilt(catalog[i], r)
                              ELSE catalog[i]]
             /\ usage' = [i \in left |-> IF i \in new THEN Unused ELSE usage[i]]
    /\ missing' \in OrNothing(missing)
    /\ seeking' = {}
    /\ UNCHANGED <<young, small>>

Init ==
    /\ catalog \in Catalogs
    /\ usage = [i \in DOMAIN catalog |-> Unused]
    /\ missing = <<>> /\ young = TRUE /\ small \in BOOLEAN /\ seeking = {}

Next ==
    \/ \E q \in Queries : RunQuery(q)
    \/ \E many \in BOOLEAN : Write(many)
    \/ Age \/ Restart
    \/ \E r \in Advice : Follow(r)

Spec == Init /\ [][Next]_vars
----------------------------------------------------------------------------
(***************************************************************************)
(* Properties                                                              *)
(***************************************************************************)

Answers(s, columns, key) == IsKeyPrefix(s.key, key) /\ s.inc \subseteq columns
SeekSum(list) == FoldLeft(LAMBDA n, m : n + m.seeks, 0, list)

(* Whatever order the DMV lists its groups in, consolidation loses none:    *)
(* each suggestion is answered by an index to create or widen or by one     *)
(* that is there, no two of the indexes proposed are in a prefix relation,  *)
(* and no seek is lost or counted twice.                                    *)
ConsolidationIsSound ==
    LET made == Creates(catalog, missing)
        one  == ConsolidateMissingIndexes(missing)
    IN  /\ ~small => \A s \in Range(missing) :
             \/ \E r \in made : Answers(s, Range(r.key) \cup r.inc, r.key)
             \/ \E i \in DOMAIN catalog : Answers(s, Columns(catalog[i]), catalog[i].key)
        /\ \A r, t \in made : r # t => ~IsKeyPrefix(r.key, t.key)
        /\ SeekSum(one) = SeekSum(missing)

(* A query that has sought an index since the table's indexes last changed  *)
(* still can after any one statement of an up-to-date scan, whichever of    *)
(* the scan's queries failed.                                               *)
SeeksStay ==
    [][catalog' # catalog =>
         \A q \in seeking : Seekable(q, catalog) => Seekable(q, catalog')]_vars

(* No statement but the drop of a prefix-redundant index, which says so,    *)
(* takes the covering index from a query that used one.  The exception is   *)
(* a clustered index that enforces nothing, which the duplicate and overlap *)
(* passes may drop: they look at uniqueness only.                           *)
CoverStays ==
    [][catalog' # catalog =>
         \A r \in Advice :
           /\ Follow(r) /\ r.kind # "prefix"
           /\ r.drop \in DOMAIN catalog => ~catalog[r.drop].clustered
           => \A q \in seeking : Covered(q, catalog) => Covered(q, catalog')]_vars
=============================================================================
