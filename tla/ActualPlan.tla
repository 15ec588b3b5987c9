------------------------------ MODULE ActualPlan ------------------------------
(***************************************************************************)
(* ACTUAL PLAN: the editor asks the backend to run the text it holds and   *)
(* to hand back the plan of the run.  The backend prices the batch first   *)
(* and asks back when it is heavy; then it runs it on a session of its     *)
(* own, in a transaction it rolls back.                                    *)
(*                                                                         *)
(* Source: plan_actual of backend/src/routes.rs, estimated_plan and        *)
(* actual_plan of backend/src/sqlserver.rs, generateActualPlan of          *)
(* web/src/App.tsx.  A batch is a sequence of statements, of which matters *)
(* whether they write, end or begin a transaction, or hold a word of       *)
(* ACTUAL_PLAN_BLOCKED.  The session's transaction is SQL Server's.        *)
(***************************************************************************)
EXTENDS Sequences, SequencesExt

CONSTANTS
    Batches,        \* the texts a user may write: sequences of Kinds
    Heavy           \* those estimated at HEAVY_PLAN_COST or more

Kinds == {"read", "write", "begin", "rollback", "blocked"}

\* What the constants are; Requests assumes it.
ActualPlanAssumption == Batches \subseteq Seq(Kinds) /\ Heavy \subseteq Batches

VARIABLES
    text,       \* draft_sql
    page,       \* "idle", "waiting" for a reply, "asking" the user to confirm
    asked,      \* the batch of the page's request
    handler,    \* "none", or where the request is: "price", "open", "run", "undo"
    rest,       \* the statements not yet run
    inTran,     \* @@TRANCOUNT > 0
    pending,    \* the transaction has written
    licence,    \* history: the batch the user confirmed, or that had no price
    trace       \* history: the batches whose writes were committed

pageVars == <<text, page, asked>>
session == <<rest, inTran, pending>>
vars == <<pageVars, handler, session, licence, trace>>

Init ==
    /\ text \in Batches
    /\ page = "idle" /\ asked = <<>>
    /\ handler = "none"
    /\ rest = <<>> /\ inTran = FALSE /\ pending = FALSE
    /\ licence = {} /\ trace = {}

-----------------------------------------------------------------------------
(* The page.  window.confirm lets nothing else happen while it is open.    *)

Type(b) ==
    /\ page # "asking" /\ b # text
    /\ text' = b
    /\ UNCHANGED <<page, asked, handler, session, licence, trace>>

\* The buttons of both plans are disabled until the request has ended.
Ask ==
    /\ page = "idle" /\ text # <<>>
    /\ page' = "waiting" /\ asked' = text
    /\ handler' = "price"
    /\ licence' = {}
    /\ UNCHANGED <<text, session, trace>>

Decline ==
    /\ page = "asking"
    /\ page' = "idle"
    /\ UNCHANGED <<text, asked, handler, session, licence, trace>>

\* Mutant: the text sent with confirm_heavy is the one the editor holds now.
ConfirmLatest ==
    /\ page = "asking"
    /\ page' = "waiting" /\ asked' = text
    /\ handler' = "open"
    /\ licence' = {asked}
    /\ UNCHANGED <<text, session, trace>>

\* HeavyPlanError: the same text again, with confirm_heavy.
Confirm ==
    /\ page = "asking"
    /\ page' = "waiting"
    /\ handler' = "open"
    /\ licence' = {asked}
    /\ UNCHANGED <<text, asked, session, trace>>

-----------------------------------------------------------------------------
(* The handler.                                                            *)

\* SQL Server rolls back what is open on a session that ends.
EndSession == rest' = <<>> /\ inTran' = FALSE /\ pending' = FALSE

\* The reply; a plan is set along with the rest of the state the page had
\* captured when it asked, its text included.
Reply(plan) ==
    /\ handler' = "none"
    /\ page' = "idle"
    /\ IF plan THEN text' = asked ELSE UNCHANGED text
    /\ EndSession
    /\ UNCHANGED <<asked, licence, trace>>

\* The cost preflight: a heavy batch is answered with 409; one that cannot be
\* estimated goes on like one that is cheap.
Price ==
    /\ handler = "price"
    /\ \/ /\ asked \in Heavy
          /\ handler' = "none" /\ page' = "asking"
          /\ UNCHANGED licence
       \/ /\ asked \notin Heavy
          /\ handler' = "open"
          /\ UNCHANGED <<page, licence>>
       \/ /\ handler' = "open"
          /\ licence' = {asked}
          /\ UNCHANGED page
    /\ UNCHANGED <<text, asked, session, trace>>

\* Mutant: the list of blocked words is not looked at.
NothingBlocked(batch) == FALSE

\* actual_plan_blocked_keyword: ROLLBACK is not on the list, COMMIT is.
Blocked(batch) == "blocked" \in ToSet(batch)

Refuse ==
    /\ handler = "open" /\ Blocked(asked)
    /\ Reply(FALSE)

OpenFails ==
    /\ handler = "open" /\ ~Blocked(asked)
    /\ Reply(FALSE)

\* A session, SET STATISTICS XML ON, BEGIN TRANSACTION.
Open ==
    /\ handler = "open" /\ ~Blocked(asked)
    /\ handler' = "run"
    /\ rest' = asked /\ inTran' = TRUE /\ pending' = FALSE
    /\ UNCHANGED <<pageVars, licence, trace>>

\* One statement.  Of the blocked ones COMMIT stands here: what it would do.
Execute(statement) ==
    CASE statement = "write" ->
            /\ pending' = inTran
            /\ trace' = IF inTran THEN trace ELSE trace \cup {asked}
            /\ UNCHANGED inTran
      [] statement = "begin" -> inTran' = TRUE /\ UNCHANGED <<pending, trace>>
      [] statement = "rollback" ->
            inTran' = FALSE /\ pending' = FALSE /\ UNCHANGED trace
      [] statement = "blocked" ->
            /\ inTran' = FALSE /\ pending' = FALSE
            /\ trace' = IF pending THEN trace \cup {asked} ELSE trace
      [] OTHER -> UNCHANGED <<inTran, pending, trace>>

Step ==
    /\ handler = "run" /\ rest # <<>>
    /\ Execute(Head(rest))
    /\ rest' = Tail(rest)
    /\ UNCHANGED <<pageVars, handler, licence>>

\* A statement fails: it alone is undone and the batch goes on, or the batch is
\* over, with its transaction or without.
StatementFails ==
    /\ handler = "run" /\ rest # <<>>
    /\ \/ rest' = Tail(rest) /\ UNCHANGED <<inTran, pending>>
       \/ rest' = <<>> /\ UNCHANGED <<inTran, pending>>
       \/ rest' = <<>> /\ inTran' = FALSE /\ pending' = FALSE
    /\ UNCHANGED <<pageVars, handler, licence, trace>>

\* IF @@TRANCOUNT > 0 ROLLBACK TRANSACTION, whether the batch failed or not.
Undo ==
    /\ handler = "run" /\ rest = <<>>
    /\ inTran' = FALSE /\ pending' = FALSE
    /\ handler' = "undo"
    /\ UNCHANGED <<pageVars, rest, licence, trace>>

\* The batch's error, no plan among its results, or the plan.
Answer ==
    /\ handler = "undo"
    /\ \E plan \in BOOLEAN : Reply(plan)

\* The connection to the server breaks.
Lose ==
    /\ handler \in {"run", "undo"}
    /\ Reply(FALSE)

\* The page is reloaded: its request is dropped at whatever it awaits, and the
\* session with it.
HangUp ==
    /\ page # "idle"
    /\ page' = "idle" /\ handler' = "none"
    /\ EndSession
    /\ UNCHANGED <<text, asked, licence, trace>>

Next ==
    \/ \E b \in Batches : Type(b)
    \/ Ask \/ Decline \/ Confirm
    \/ Price \/ Refuse \/ OpenFails \/ Open \/ Step \/ StatementFails
    \/ Undo \/ Answer \/ Lose \/ HangUp

Spec == Init /\ [][Next]_vars

-----------------------------------------------------------------------------
TypeOK ==
    /\ text \in Seq(Kinds) /\ asked \in Seq(Kinds)
    /\ page \in {"idle", "waiting", "asking"}
    /\ handler \in {"none", "price", "open", "run", "undo"}
    /\ rest \in Seq(Kinds)
    /\ inTran \in BOOLEAN /\ pending \in BOOLEAN

\* "executes it for real (...), so on a busy server this is a genuine load
\* event": a heavy batch runs only if the user confirmed that very batch, or it
\* could not be priced, whatever was typed while the request was out.
NoUnaskedLoad == handler = "run" /\ asked \in Heavy => asked \in licence

\* "a transaction that is ALWAYS rolled back (DML leaves no trace)".
LeavesNoTrace == trace = {}

\* ... which holds of a batch that does not end the transaction itself, however
\* its statements fail and wherever its session or its page goes away.
OnlyOwnRollbackTraces == \A b \in trace : "rollback" \in ToSet(b)
=============================================================================
