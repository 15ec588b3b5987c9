----------------------------- MODULE HealthReport -----------------------------
(***************************************************************************)
(* The health front door: one scan of a server, from its queries to the    *)
(* graded report.                                                          *)
(*                                                                         *)
(* A scan reads the DMV bundle, then the monitor's last week out of the    *)
(* store, then the operational facts, then how old and how fresh the       *)
(* monitoring is; meanwhile time passes, the monitor samples, prunes,      *)
(* stops and starts, and the server restarts.  Each query may fail.  The   *)
(* issues gathered are deduplicated by id, reconciled per table, scored in *)
(* three lanes and summed up in a headline.                                *)
(*                                                                         *)
(* An issue keeps what decides its card and its score.  rows is the        *)
(* decade of a table's row count; Letters strips the digits from a table's *)
(* name, as the ids of findings do.  Wording, metrics, the action plan,    *)
(* the baseline trend and the rarer rules are left out.                    *)
(*                                                                         *)
(* Source: backend/src/health/sqlserver.rs, backend/src/health/mod.rs,     *)
(* analyzer-core/src/dmv.rs (analyze), sentinel_api.rs, storage.rs.        *)
(***************************************************************************)
EXTENDS OperationalChecks, Sequences, SequencesExt, FiniteSetsExt

CONSTANTS
    Tables, Letters,    \* tables, and their names without digits
    Servers,            \* servers a scan may meet: [tables, settings]
    BundleFailures,     \* sets of bundle queries that may fail together
    ProbeFailures,      \* sets of probes that may fail together
    Captures,           \* what one round of samples may show: sets of Pains
    Learning,           \* COUNTER_LEARNING_SECS, in ticks
    Mature,             \* MATURE_SECS
    Live,               \* MONITOR_LIVE_SECS
    Window, Retention,  \* the week of the report, and what the store keeps
    ManyDeadlocks, FewBlocked, ManyBlocked, SomeWait, HighWait,  \* thresholds
    MaxTime, MaxSamples \* bounds for TLC

Pains == {"deadlock", "blocked", "waits", "slower"}
Severities == <<"critical", "error", "warning", "info">>
SeverityRank(s) == CHOOSE i \in 1..4 : Severities[i] = s

\* What the advisor says of one index of a table.
Advised == [fix : STRING, gain : Nat, severity : Range(Severities)]
TableFacts == [rows : Nat, heap : BOOLEAN, pk : BOOLEAN, missing : SUBSET Advised,
               unused : SUBSET Advised, duplicates : SUBSET Advised]

\* Priority and gain come of one score, so the greater gain is never the milder.
\* Of two entries on a table's indexes that holds if they name the same index: an
\* index to drop may be listed as a copy, as an overlap and as a prefix of others,
\* and its size decides all three (merge_priority).
NotMilder(q, r) == q.gain > r.gain => SeverityRank(q.severity) <= SeverityRank(r.severity)
Rated(table) ==
    /\ \A q, r \in table.missing : NotMilder(q, r)
    /\ \A q, r \in table.unused : q.fix = r.fix => NotMilder(q, r)
    /\ \A q, r \in table.duplicates : q.fix = r.fix => NotMilder(q, r)

\* What the constants are; Requests assumes it.
HealthAssumption ==
    /\ {Learning, Mature, Live, Window, Retention, MaxTime, MaxSamples} \subseteq Nat
    /\ Live < Mature
    /\ IsFiniteSet(Tables) /\ DOMAIN Letters = Tables
    /\ \A s \in Servers :
         /\ s.tables \in [Tables -> TableFacts]
         /\ \A t \in Tables : /\ IsFiniteSet(s.tables[t].missing)
                              /\ IsFiniteSet(s.tables[t].unused)
                              /\ IsFiniteSet(s.tables[t].duplicates)
                              /\ Rated(s.tables[t])
         /\ IsFiniteSet(s.settings.replicas) /\ IsFiniteSet(s.settings.jobs)
    /\ \A f \in ProbeFailures : f \subseteq Probes
    /\ Captures \subseteq SUBSET Pains

VARIABLES
    now,        \* the clock
    server,     \* the server as it is
    started,    \* when it last started; its counters are as old
    samples,    \* the store: when the monitor sampled, and the pains it saw
    scan        \* the scan's place and what it has read

vars == <<now, server, started, samples, scan>>

Worst(S) == Severities[Min({SeverityRank(s) : s \in S})]
\* The members of a set, in some order.
Add(x, list) == Append(list, x)
Listed(S) == FoldSet(Add, <<>>, S)
----------------------------------------------------------------------------
(***************************************************************************)
(* From the bundle to issues.  failed names the bundle's failed queries.   *)
(***************************************************************************)
Issue(source, kind, id, table, severity, lane, rank, fix) ==
    [source |-> source, kind |-> kind, id |-> <<source, kind, id>>, table |-> table,
     severity |-> severity, lane |-> lane, rank |-> rank, fix |-> fix]

SmallTable == 3
Rows(t, failed) == IF "sizes" \in failed THEN <<>> ELSE <<server.tables[t].rows>>

\* A recommendation becomes an issue under the name of what it is about: an
\* index to drop, but only the table when there is an index to create.
Rec(kind, about, t, r) ==
    Issue("advisor", kind, about, t, r.severity, "opportunity", r.gain, {r.fix})

Missing(t, failed) ==
    IF "missing" \in failed \/ (Rows(t, failed) # <<>> /\ Rows(t, failed)[1] < SmallTable)
    THEN {} ELSE server.tables[t].missing
UnusedIndexes(t, failed) ==
    IF "usage" \in failed THEN {} ELSE server.tables[t].unused
DuplicateIndexes(t, failed) ==
    IF "metadata" \in failed THEN {} ELSE server.tables[t].duplicates

\* advise: every statement, the most urgent first.
Urgent(a, b) ==
    \/ SeverityRank(a.severity) < SeverityRank(b.severity)
    \/ a.severity = b.severity /\ a.rank > b.rank
SortIn(r, list) ==
    InsertAt(list, 1 + Cardinality({i \in DOMAIN list : ~Urgent(r, list[i])}), r)

AllRecs(failed) ==
    UNION {{Rec("missing_index", <<t>>, t, r) : r \in Missing(t, failed)}
           \cup {Rec("unused_index", <<t, r.fix>>, t, r) : r \in UnusedIndexes(t, failed)}
           \cup {Rec("duplicate_index", <<t, r.fix>>, t, r) :
                   r \in DuplicateIndexes(t, failed)} : t \in Tables}
Recs(failed) == FoldSet(SortIn, <<>>, AllRecs(failed))

Base == [critical |-> 9000, error |-> 7000, warning |-> 4000, info |-> 1000]

\* size_weighted_impact: an unknown size weighs nothing.
Impact(severity, rows) ==
    Base[severity] + (IF rows = <<>> THEN 0 ELSE Min({111 * rows[1], 999}))

Structural == {"heap_table", "no_primary_key"}
Finding(rule, t, about, severity, failed) ==
    Issue("static", rule, <<Letters[t], about>>, t, severity,
          IF rule \in Structural \/ severity \notin {"critical", "error"}
          THEN "opportunity" ELSE "reliability",
          Impact(severity, Rows(t, failed)), {})

\* Structural findings need the sizes; without the index metadata every table
\* of a hundred rows seems to have no primary key.
StructuralFindings(t, failed) ==
    IF "sizes" \in failed THEN {}
    ELSE LET table == server.tables[t]
         IN  {Finding("heap_table", t, <<>>,
                      IF table.rows >= 6 THEN "error"
                      ELSE IF table.rows >= 5 THEN "warning" ELSE "info", failed) :
                x \in IF table.heap /\ table.rows >= 3 THEN {0} ELSE {}}
             \cup {Finding("no_primary_key", t, <<>>,
                           IF table.rows >= 6 THEN "error" ELSE "warning", failed) :
                x \in IF table.rows >= 2 /\ ("metadata" \in failed \/ ~table.pk)
                      THEN {0} ELSE {}}

Findings(failed) ==
    UNION {StructuralFindings(t, failed)
           \cup {Finding("unused_index", t, r.fix, "warning", failed) :
                    r \in UnusedIndexes(t, failed)}
           \cup {Finding("duplicate_index", t, r.fix, "error", failed) :
                    r \in DuplicateIndexes(t, failed)}
           \cup {Finding("missing_index", t, r.fix, "info", failed) :
                    r \in Missing(t, failed)} : t \in Tables}

\* The counters' age is unknown without permission to read it.
PullDmvBundle(failed) ==
    [issues |-> Recs(failed) \o Listed(Findings(failed)),
     counterAge |-> IF "age" \in failed THEN <<>> ELSE <<now - started>>]
----------------------------------------------------------------------------
(***************************************************************************)
(* From the store and the probes to issues.                                *)
(***************************************************************************)
InWindow(s) == s.at >= now - Window
Count(what) == Cardinality({s \in samples : InWindow(s) /\ what \in s.shows})
PainSummary == [w \in Pains |-> Count(w)]
NoPain == [w \in Pains |-> 0]

Pain(kind, severity, rank) ==
    <<Issue("sentinel", kind, <<>>, "server", severity, "reliability", rank, {})>>

PainIssues(pain) ==
    (IF pain["deadlock"] = 0 THEN <<>>
     ELSE Pain("deadlock", IF pain["deadlock"] > ManyDeadlocks THEN "critical" ELSE "error",
               1000 * pain["deadlock"]))
    \o (IF pain["blocked"] <= FewBlocked THEN <<>>
        ELSE Pain("blocking", IF pain["blocked"] > ManyBlocked THEN "error" ELSE "warning",
                  pain["blocked"]))
    \o (IF pain["waits"] < SomeWait THEN <<>>
        ELSE Pain("wait", IF pain["waits"] > HighWait THEN "warning" ELSE "info", pain["waits"]))
    \o (IF pain["slower"] = 0 THEN <<>> ELSE Pain("regression", "warning", 1000))

\* Replicas and jobs of one kind share the id of their check.
OperationalIssues(checks) ==
    Listed({Issue("operational", c.kind, <<c.id>>, "db", c.severity, "operational",
                    Base[c.severity], {c.about}) : c \in checks})

Age(times) == IF times = {} THEN <<>> ELSE <<now - Min(times)>>
Freshness(times) == IF times = {} THEN <<>> ELSE <<now - Max(times)>>
----------------------------------------------------------------------------
(***************************************************************************)
(* From issues to cards.                                                   *)
(***************************************************************************)
SourceRank(s) == CASE s = "advisor" -> 0 [] s = "sentinel" -> 1 [] OTHER -> 2

\* Issue b, met after a with the same id, takes its place only when it ...
Replaces(a, b) ==
    \/ SourceRank(b.source) < SourceRank(a.source)
    \/ SourceRank(b.source) = SourceRank(a.source) /\ b.rank > a.rank

\* The map's values come in any order: the result is a set.
Dedup(issues) ==
    {issues[i] : i \in {i \in DOMAIN issues :
        \A j \in DOMAIN issues : issues[j].id = issues[i].id =>
            /\ j < i => Replaces(issues[j], issues[i])
            /\ j > i => ~Replaces(issues[i], issues[j])}}

IsHeap(i) == i.source = "static" /\ i.kind = "heap_table"

\* Issue i may end on the card of h: advice on other advice of its kind on the
\* table, a finding on such advice, a missing primary key on the heap.
Joins(i, h) ==
    /\ h.table = i.table
    /\ \/ /\ h.source = "advisor" /\ h.kind = i.kind
          /\ \/ i.source = "advisor"
             \/ /\ i.source = "static"
                /\ i.kind \in {"missing_index", "duplicate_index", "unused_index"}
       \/ i.source = "static" /\ i.kind = "no_primary_key" /\ IsHeap(h)

\* Mutant: one pass; a finding is folded only into a card that is there.
AnchorSoFar(list, i) ==
    LET hosts == {h \in 1..(i - 1) : Joins(list[i], list[h])}
    IN  IF hosts = {} THEN i ELSE Min(hosts)

\* The card issue i of the list ends on: the first it may join, or its own.
Anchor(list, i) ==
    LET hosts == {h \in DOMAIN list : Joins(list[i], list[h])}
    IN  IF hosts = {} THEN i ELSE Min(hosts)

\* Mutant: the card keeps the severity it had.
KeepHost(host, group) ==
    [host EXCEPT !.rank = Max({i.rank : i \in group}), !.fix = UNION {i.fix : i \in group}]

\* merge_into: the worse severity, the higher rank, every fix.
MergeInto(host, group) ==
    [host EXCEPT !.severity = Worst({i.severity : i \in group}),
                 !.rank = Max({i.rank : i \in group}),
                 !.fix = UNION {i.fix : i \in group}]

Reconcile(list) ==
    LET ends == {<<i, Anchor(list, i)>> : i \in DOMAIN list}
    IN  {MergeInto(list[e[2]], {list[f[1]] : f \in {f \in ends : f[2] = e[2]}}) : e \in ends}
----------------------------------------------------------------------------
(***************************************************************************)
(* From cards to the grade.                                                *)
(***************************************************************************)
BucketPoints == [critical |-> 25, error |-> 12, warning |-> 4, info |-> 1]
Penalty(cards, lane, cap) ==
    Min({cap, MapThenSumSet(LAMBDA c : BucketPoints[c.severity],
                            {c \in cards : c.lane = lane})})

\* Mutant: any monitor that runs has seen enough.
AnyHistory(monitored) == monitored # <<>>

LongEnough(monitored) == monitored # <<>> /\ monitored[1] >= Mature

\* Nothing gathered and nothing in the week's samples.  (A wait that made no
\* card is struck from the signals first.)
NoSignal(cards, pain) ==
    cards = {} /\ pain["deadlock"] = 0 /\ pain["blocked"] = 0

\* score_report: three lanes, or one provisional number for all of them.
ScoreReport(cards, pain, monitored, counterAge) ==
    LET fresh == counterAge # <<>> /\ counterAge[1] < Learning
    IN  IF NoSignal(cards, pain)
        THEN LET s == IF LongEnough(monitored) THEN 98 ELSE 95
             IN  [lanes |-> {s}, learning |-> fresh \/ ~LongEnough(monitored)]
        ELSE [lanes |-> {100 - Penalty(cards, "reliability", 80),
                         100 - Penalty(cards, "opportunity", 60),
                         100 - Penalty(cards, "operational", 80)},
              learning |-> fresh]

\* composite_headline: the worst lane.
CompositeHeadline(scores) == [score |-> Min(scores.lanes), learning |-> scores.learning]

\* The report made of the issues in one order of the map's values.
Summary(list, pain, monitored, counterAge) ==
    LET cards == Reconcile(list)
    IN  [cards |-> cards,
         headline |-> CompositeHeadline(ScoreReport(cards, pain, monitored, counterAge))]
----------------------------------------------------------------------------
(***************************************************************************)
(* A scan.  Its steps are the awaits and the store's locks between them.   *)
(***************************************************************************)
Idle == [pc |-> "idle", pulled |-> 0, issues |-> <<>>, counterAge |-> <<>>, checks |-> {},
         pain |-> NoPain, fresh |-> <<>>,
         report |-> [cards |-> {}, headline |-> [score |-> 0, learning |-> TRUE]]]

Init ==
    /\ now = 0 /\ started = 0
    /\ server \in Servers
    /\ samples = {}
    /\ scan = Idle

Environment == <<now, server, started, samples>>

\* Without a connection there is no bundle, and no report.
Pull(failed) ==
    /\ scan.pc = "idle"
    /\ LET bundle == PullDmvBundle(failed)
       IN  scan' = [scan EXCEPT !.pc = "week", !.pulled = now,
                  !.issues = bundle.issues, !.counterAge = bundle.counterAge]
    /\ UNCHANGED Environment

\* build_report: a store that cannot be opened is an empty week.
BuildReport(opened) ==
    /\ scan.pc = "week"
    /\ LET pain == IF opened THEN PainSummary ELSE NoPain
       IN  scan' = [scan EXCEPT !.pc = "probes", !.pain = pain,
                                !.issues = @ \o PainIssues(pain)]
    /\ UNCHANGED Environment

\* Without a second connection there are no operational checks at all.
Operational(failed, connected) ==
    /\ scan.pc = "probes"
    /\ LET checks == IF connected THEN Evaluate(PullOperational(server.settings, failed)) ELSE {}
       IN  scan' = [scan EXCEPT !.pc = "freshness", !.checks = checks,
                                !.issues = @ \o OperationalIssues(checks)]
    /\ UNCHANGED Environment

Times == {s.at : s \in samples}

LastCapture(opened) ==
    /\ scan.pc = "freshness"
    /\ scan' = [scan EXCEPT !.pc = "grade",
                            !.fresh = IF opened THEN Freshness(Times) ELSE <<>>]
    /\ UNCHANGED Environment
\* monitor_state = "running".
Running == scan.fresh # <<>> /\ scan.fresh[1] <= Live

Grade(opened) ==
    /\ scan.pc = "grade"
    /\ LET monitored == IF Running /\ opened THEN Age(Times) ELSE <<>>
       IN  scan' = [scan EXCEPT !.pc = "done",
               !.report = Summary(Listed(Dedup(scan.issues)), scan.pain, monitored, scan.counterAge)]
    /\ UNCHANGED Environment

Close == scan.pc = "done" /\ scan' = Idle /\ UNCHANGED Environment

Scan ==
    \/ \E failed \in BundleFailures : Pull(failed)
    \/ \E opened \in BOOLEAN : BuildReport(opened) \/ LastCapture(opened) \/ Grade(opened)
    \/ \E failed \in ProbeFailures, connected \in BOOLEAN : Operational(failed, connected)
    \/ Close
----------------------------------------------------------------------------
(***************************************************************************)
(* Meanwhile.  (A report that is done is answered at once.)                *)
(***************************************************************************)
Tick == now < MaxTime /\ now' = now + 1 /\ UNCHANGED <<server, started, samples, scan>>

\* The daemon may start, stop or die at any time, and samples when it runs.
Capture(shows) ==
    /\ Cardinality(samples) < MaxSamples
    /\ samples' = samples \cup {[at |-> now, shows |-> shows]}
    /\ UNCHANGED <<now, server, started, scan>>

Prune ==
    /\ samples' = {s \in samples : s.at >= now - Retention}
    /\ UNCHANGED <<now, server, started, scan>>

Restart == started' = now /\ UNCHANGED <<now, server, samples, scan>>

Meanwhile ==
    scan.pc # "done" /\ (Tick \/ (\E shows \in Captures : Capture(shows)) \/ Prune \/ Restart)

Next == Scan \/ Meanwhile

Spec == Init /\ [][Next]_vars
----------------------------------------------------------------------------
(***************************************************************************)
(* Properties                                                              *)
(***************************************************************************)
Reported == scan.pc = "done"

(* Whatever is folded into whatever, each issue gathered is on a card of    *)
(* its table that is as severe and ranks as high, and the headline is down  *)
(* by at least the points of the worst of them.                             *)
WorstIsKept ==
    Reported => \A i \in 1..Len(scan.issues) :
        LET issue == scan.issues[i]
        IN  /\ \E c \in scan.report.cards :
                  /\ c.table = issue.table
                  /\ SeverityRank(c.severity) <= SeverityRank(issue.severity)
                  /\ c.rank >= issue.rank
            /\ scan.report.headline.score <= 100 - BucketPoints[issue.severity]

\* A card without the title and id that the order of equal issues decides.
Face(card) == [card EXCEPT !.id = <<>>]
Folding == {"advisor", "static"}

(* The map's values come in no order, and the cards made of them are the    *)
(* same.  (Every issue that may be folded comes before every other once.)   *)
OrderFree ==
    Reported =>
        LET folding == {i \in Dedup(scan.issues) : i.source \in Folding}
            shown   == {Face(c) : c \in {c \in scan.report.cards : c.source \in Folding}}
        IN  \A a, b \in folding : a # b =>
                shown = {Face(c) : c \in
                           Reconcile(<<a>> \o Listed(folding \ {a, b}) \o <<b>>)}

(* A report with nothing in it is no clean bill unless the monitor sampled  *)
(* six hours before it and sampled while the scan ran or just before, and   *)
(* the server's counters were not known to be younger when they were read.  *)
AllClear == scan.report.cards = {} /\ ~scan.report.headline.learning
Earned ==
    /\ \E t \in Times : t >= scan.pulled - Live
    /\ \E t \in Times : now - t >= Mature
    /\ scan.counterAge # <<>> => scan.counterAge[1] >= Learning

AllClearIsEarned ==
    [][~Reported /\ Reported' /\ AllClear' /\ scan.pain["blocked"] = 0 => Earned]_vars

(* A probe that fails takes checks away and never adds one; but a database  *)
(* not known to be read-only is told of integrity checks it does not need.  *)
ChecksAreHonest ==
    Reported => \A c \in scan.checks :
        \/ c \in Evaluate(PullOperational(server.settings, {}))
        \/ server.settings.readOnly /\ c.kind = "integrity"
=============================================================================
