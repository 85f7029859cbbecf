---------------------------- MODULE ActorSqlite ----------------------------
(***************************************************************************)
(* Storage of a Durable Object on SQLite: ActorSqlite in                   *)
(* src/workerd/io/actor-sqlite.{h,c++}, with the calls that                *)
(* DurableObjectStorage and DurableObjectTransaction                       *)
(* (src/workerd/api/actor-state.c++) make on it, composed with the output  *)
(* gate.  Commit task k runs under lock k of the gate.                     *)
(*                                                                         *)
(* JavaScript runs in turns of the event loop, and several storage calls   *)
(* may happen in one turn; commit tasks, callbacks and the gate's events   *)
(* run between turns.  Writes are numbered in the order they are made.     *)
(***************************************************************************)
EXTENDS OutputGate, FiniteSets

CONSTANTS
    MaxWrites,  \* bound on the number of writes
    MaxDepth    \* bound on the nesting of explicit transactions

ASSUME ActorSqliteAssumption == MaxWrites \in Nat /\ MaxDepth \in Nat

VARIABLES
    running,    \* is JavaScript running (inside a turn)?
    made,       \* number of writes made
    run,        \* run[w] is the first write of the run w belongs to: writes
                \* with no await and no transaction boundary between them
    current,    \* the first write of the present run, or 0
    implicit,   \* the commit task whose ImplicitTxn is currentTxn, or 0
    txns,       \* the ExplicitTxn objects, outermost first; the last one is
                \* currentTxn.  TRUE: `committed` (here: rolled back)
    tasks,      \* commitTasks: the task under each output lock
    brokenDb,     \* ActorSqlite::broken is set
    db,         \* SQLite: the writes the database file holds
    working,    \* SQLite: the writes the connection sees
    opened,     \* SQLite: how the open transaction began, or "no"
    saves,      \* SQLite: the stack of savepoints
    confirmed,  \* the writes a commitCallback has completed for
    seen,       \* what each message may depend on: the writes made outside
                \* of unfinished transactions when its wait() was called
    exposed     \* the writes made under a transaction already rolled back

storeVars == <<running, made, run, current, implicit, txns, tasks, brokenDb, db,
               working, opened, saves, confirmed, exposed>>
sqliteVars == <<gateVars, storeVars, seen>>

Writes == 1..MaxWrites
TaskPhases == {"scheduled", "callback", "done"}

SqliteTypeOK ==
    /\ GateTypeOK
    /\ running \in BOOLEAN /\ brokenDb \in BOOLEAN
    /\ made \in 0..MaxWrites /\ current \in 0..made
    /\ run \in [Writes -> 0..MaxWrites]
    /\ implicit \in 0..Len(locks)
    /\ txns \in Seq(BOOLEAN) /\ Len(txns) <= MaxDepth
    /\ \A k \in 1..Len(tasks) : /\ tasks[k].phase \in TaskPhases
                                /\ tasks[k].committed \in BOOLEAN
                                /\ tasks[k].covers \subseteq Writes
    /\ Len(tasks) = Len(locks)
    /\ db \subseteq Writes /\ working \subseteq Writes
    /\ opened \in {"no", "begin", "savepoint"}
    /\ \A i \in 1..Len(saves) : /\ saves[i].depth \in 0..(MaxDepth - 1)
                                /\ saves[i].content \subseteq Writes
    /\ confirmed \subseteq Writes /\ exposed \subseteq Writes
    /\ seen \in [Messages -> SUBSET Writes]

SqliteInit ==
    /\ GateInit
    /\ running = FALSE /\ brokenDb = FALSE
    /\ made = 0 /\ current = 0 /\ implicit = 0
    /\ run = [w \in Writes |-> 0]
    /\ txns = << >> /\ tasks = << >> /\ saves = << >>
    /\ db = {} /\ working = {} /\ opened = "no"
    /\ confirmed = {} /\ exposed = {}
    /\ seen = [m \in Messages |-> {}]

-----------------------------------------------------------------------------
(* SQLite.                                                                 *)

(* Where the most recent savepoint of this name is on the stack.           *)
SavepointAt(depth) ==
    CHOOSE i \in 1..Len(saves) :
        saves[i].depth = depth /\ \A j \in (i+1)..Len(saves) : saves[j].depth # depth

(* SAVEPOINT on the state (content, how): outside of a transaction it      *)
(* begins one.                                                             *)
Savepoint(content, how, depth) ==
    /\ saves' = Append(saves, [depth |-> depth, content |-> content])
    /\ working' = content
    /\ opened' = IF how = "no" THEN "savepoint" ELSE how

(* RELEASE with the connection seeing content: the release of the outermost *)
(* savepoint is a COMMIT if the savepoint began the transaction.            *)
ReleaseSavepoint(content, depth) ==
    LET i == SavepointAt(depth)
        commits == i = 1 /\ opened = "savepoint"
    IN /\ saves' = SubSeq(saves, 1, i - 1)
       /\ working' = content
       /\ db' = IF commits THEN content ELSE db
       /\ opened' = IF commits THEN "no" ELSE opened

-----------------------------------------------------------------------------
(* The turns of the event loop that run JavaScript.                        *)
BeginTurn ==
    /\ ~running
    /\ running' = TRUE
    /\ UNCHANGED <<gateVars, made, run, current, implicit, txns, tasks, brokenDb,
                   db, working, opened, saves, confirmed, exposed, seen>>

EndTurn ==
    /\ running
    /\ running' = FALSE
    /\ current' = 0
    /\ UNCHANGED <<gateVars, made, run, implicit, txns, tasks, brokenDb, db,
                   working, opened, saves, confirmed, exposed, seen>>

(* Mutant: the implicit transaction is scheduled but not begun.            *)
onWriteWithoutBegin ==
    /\ lockWhile
    /\ tasks' = Append(tasks, [phase |-> "scheduled", committed |-> FALSE,
                               covers |-> {}])
    /\ implicit' = Len(tasks')
    /\ UNCHANGED opened

(* onWrite() outside of a transaction: BEGIN, unless that throws, and the  *)
(* commit is scheduled under the output gate.                              *)
onWrite ==
    /\ opened = "no"
    /\ lockWhile
    /\ tasks' = Append(tasks, [phase |-> "scheduled", committed |-> FALSE,
                               covers |-> {}])
    /\ implicit' = Len(tasks')
    /\ opened' = "begin"

(***************************************************************************)
(* A write through put(), delete_() or deleteAll(), which require that the *)
(* storage is not broken, or through a SQL statement, which does not.      *)
(* SqliteDatabase calls onWrite() before it executes the statement.        *)
(***************************************************************************)
Write(sql) ==
    LET w == made + 1
        noTxn == implicit = 0 /\ txns = << >>
    IN /\ running
       /\ made < MaxWrites
       /\ sql \/ ~brokenDb
       /\ IF noTxn THEN onWrite
                   ELSE UNCHANGED <<gateVars, tasks, implicit, opened>>
       /\ working' = working \cup {w}
       /\ db' = IF opened' = "no" THEN working' ELSE db
       /\ made' = w
       /\ current' = IF current = 0 THEN w ELSE current
       /\ run' = [run EXCEPT ![w] = current']
       /\ exposed' = IF \E i \in 1..Len(txns) : txns[i] THEN exposed \cup {w}
                                                        ELSE exposed
       /\ UNCHANGED <<running, txns, brokenDb, saves, confirmed, seen>>

(* startTransaction(): the ExplicitTxn constructor commits an open         *)
(* implicit transaction before its SAVEPOINT.                              *)
StartTransaction ==
    /\ running
    /\ ~brokenDb
    /\ Len(txns) < MaxDepth
    /\ IF implicit # 0 /\ ~tasks[implicit].committed
         THEN /\ db' = working
              /\ tasks' = [tasks EXCEPT ![implicit].committed = TRUE]
              /\ Savepoint(working, "no", Len(txns))
         ELSE /\ Savepoint(working, opened, Len(txns))
              /\ UNCHANGED <<db, tasks>>
    /\ implicit' = 0
    /\ txns' = Append(txns, FALSE)
    /\ current' = 0
    /\ UNCHANGED <<gateVars, running, made, run, brokenDb, confirmed, exposed,
                   seen>>

(* Mutant: commitCallback is not called under the gate.                    *)
commitRootUngated(content) == UNCHANGED <<gateVars, tasks>>

(* The root transaction is committed: commitCallback under the gate.       *)
commitRoot(content) ==
    /\ lockWhile
    /\ tasks' = Append(tasks, [phase |-> "callback", committed |-> TRUE,
                               covers |-> content])

(* maybeCommit(): ExplicitTxn::commit(), then the object is dropped.       *)
CommitTransaction ==
    LET depth == Len(txns) - 1 IN
    /\ running
    /\ txns # << >> /\ ~txns[Len(txns)]
    /\ ReleaseSavepoint(working, depth)
    /\ txns' = SubSeq(txns, 1, depth)
    /\ IF depth = 0 THEN commitRoot(db') ELSE UNCHANGED <<gateVars, tasks>>
    /\ current' = 0
    /\ UNCHANGED <<running, made, run, implicit, brokenDb, confirmed, exposed,
                   seen>>

(* rollbackImpl(): ROLLBACK TO and RELEASE.                                *)
rollbackImpl(depth) == ReleaseSavepoint(saves[SavepointAt(depth)].content, depth)

(* DurableObjectTransaction::rollback(): the transaction is rolled back,   *)
(* but the ExplicitTxn lives until a task given to addWaitUntil() is done. *)
Rollback ==
    /\ running
    /\ txns # << >> /\ ~txns[Len(txns)]
    /\ rollbackImpl(Len(txns) - 1)
    /\ txns' = [txns EXCEPT ![Len(txns)] = TRUE]
    /\ current' = 0
    /\ UNCHANGED <<gateVars, running, made, run, implicit, tasks, brokenDb,
                   confirmed, exposed, seen>>

(* That task is done: ~ExplicitTxn() restores the parent.                  *)
DropRolledBack ==
    /\ ~running
    /\ txns # << >> /\ txns[Len(txns)]
    /\ txns' = SubSeq(txns, 1, Len(txns) - 1)
    /\ UNCHANGED <<gateVars, running, made, run, current, implicit, tasks,
                   brokenDb, db, working, opened, saves, confirmed, exposed,
                   seen>>

(* maybeRollback(), or a dropped transaction: ~ExplicitTxn() rolls back.   *)
Abandon ==
    /\ txns # << >> /\ ~txns[Len(txns)]
    /\ rollbackImpl(Len(txns) - 1)
    /\ txns' = SubSeq(txns, 1, Len(txns) - 1)
    /\ current' = 0
    /\ UNCHANGED <<gateVars, running, made, run, implicit, tasks, brokenDb,
                   confirmed, exposed, seen>>

(* The lambda returns commitCallback(), which takes what the file holds.   *)
callCommitCallback(k, content) ==
    /\ tasks' = [tasks EXCEPT ![k].phase = "callback", ![k].covers = content]
    /\ UNCHANGED gateVars

(***************************************************************************)
(* The evalLater() lambda of onWrite(): COMMIT unless that was done early, *)
(* drop the ImplicitTxn, call commitCallback.  After shutdown() it throws, *)
(* and ~ImplicitTxn() does not roll back.  When COMMIT throws,             *)
(* ~ImplicitTxn() does.  A failure breaks the gate, and KJ runs the        *)
(* continuations up to taskFailed() before any other event.                *)
(***************************************************************************)
CommitTask(k) ==
    /\ ~running
    /\ tasks[k].phase = "scheduled"
    /\ implicit' = IF implicit = k THEN 0 ELSE implicit
    /\ \/ /\ ~brokenDb
          /\ IF tasks[k].committed
               THEN UNCHANGED <<db, opened>>
               ELSE db' = working /\ opened' = "no"
          /\ callCommitCallback(k, db')
          /\ UNCHANGED <<brokenDb, working>>
       \/ /\ ~brokenDb /\ ~tasks[k].committed
          /\ working' = db /\ opened' = "no"
          /\ BreakLock(k)
          /\ tasks' = [tasks EXCEPT ![k].phase = "done"]
          /\ brokenDb' = TRUE
          /\ UNCHANGED db
       \/ /\ brokenDb
          /\ BreakLock(k)
          /\ tasks' = [tasks EXCEPT ![k].phase = "done"]
          /\ UNCHANGED <<db, working, opened, brokenDb>>
    /\ UNCHANGED <<running, made, run, current, txns, saves, confirmed, exposed,
                   seen>>

(* The promise commitCallback returned resolves, or it rejects or times    *)
(* out.                                                                    *)
CallbackDone(k) ==
    /\ ~running
    /\ tasks[k].phase = "callback"
    /\ Unlock(k)
    /\ tasks' = [tasks EXCEPT ![k].phase = "done"]
    /\ confirmed' = confirmed \cup tasks[k].covers
    /\ UNCHANGED <<running, made, run, current, implicit, txns, brokenDb, db,
                   working, opened, saves, exposed, seen>>

CallbackFails(k) ==
    /\ ~running
    /\ tasks[k].phase = "callback"
    /\ BreakLock(k)
    /\ tasks' = [tasks EXCEPT ![k].phase = "done"]
    /\ brokenDb' = TRUE
    /\ UNCHANGED <<running, made, run, current, implicit, txns, db, working,
                   opened, saves, confirmed, exposed, seen>>

(* shutdown(), by the actor's owner.                                       *)
shutdown ==
    /\ ~running /\ ~brokenDb
    /\ brokenDb' = TRUE
    /\ UNCHANGED <<gateVars, running, made, run, current, implicit, txns, tasks,
                   db, working, opened, saves, confirmed, exposed, seen>>

(* The writes visible outside of the explicit transactions.                *)
Visible == IF saves = << >> THEN working ELSE saves[1].content

(* JavaScript sends a message, which waits for the output gate.            *)
Send(m) ==
    /\ running
    /\ wait(m)
    /\ seen' = [seen EXCEPT ![m] = Visible]
    /\ UNCHANGED storeVars

GateEvents ==
    /\ ~running
    /\ GateEvent
    /\ UNCHANGED <<storeVars, seen>>

SqliteNext ==
    \/ BeginTurn \/ EndTurn
    \/ \E sql \in BOOLEAN : Write(sql)
    \/ StartTransaction \/ CommitTransaction
    \/ Rollback \/ DropRolledBack \/ Abandon
    \/ \E k \in 1..Len(tasks) : CommitTask(k) \/ CallbackDone(k) \/ CallbackFails(k)
    \/ shutdown
    \/ \E m \in Messages : Send(m)
    \/ GateEvents

SqliteSpec == SqliteInit /\ [][SqliteNext]_sqliteVars

-----------------------------------------------------------------------------
(* The output gate is honored: a message that went out depends only on     *)
(* writes that commitCallback has confirmed.                               *)
DeliveredIsConfirmed ==
    \A m \in Messages : result[m] = "passed" => seen[m] \subseteq confirmed

(* The same, but for writes made after rollback() and before the           *)
(* ExplicitTxn object is gone.                                             *)
DeliveredIsConfirmedUnlessExposed ==
    \A m \in Messages :
        result[m] = "passed" => seen[m] \subseteq confirmed \cup exposed

(* "Any writes to the database which occur without any awaits in between   *)
(* will automatically be combined into a single atomic write": the file    *)
(* holds a run of writes as a whole or not at all, and nothing of a run    *)
(* that may still grow, but for writes made after rollback() and before    *)
(* the ExplicitTxn object is gone.                                         *)
Atomic(w) ==
    /\ run[w] # current
    /\ \A v \in 1..made : run[v] = run[w] => v \in db

RunsAreAtomicUnlessExposed == \A w \in db \ exposed : Atomic(w)

(* currentTxn and SQLite agree: unless the storage is broken, SQLite is in *)
(* a transaction exactly while an ImplicitTxn is current or an ExplicitTxn *)
(* is unfinished, so BEGIN, COMMIT and RELEASE never fail for want of one; *)
(* and the savepoints are those of the unfinished transactions, by depth.  *)
TransactionsAgree ==
    /\ ~brokenDb => (opened # "no" <=> implicit # 0 \/ saves # << >>)
    /\ implicit # 0 => txns = << >> /\ tasks[implicit].phase = "scheduled"
                       /\ ~tasks[implicit].committed
    /\ Len(saves) = Cardinality({i \in 1..Len(txns) : ~txns[i]})
    /\ \A i \in 1..Len(saves) : ~txns[saves[i].depth + 1]
    /\ \A i, j \in 1..Len(saves) : i < j => saves[i].depth < saves[j].depth

(* Runs of writes and explicit transactions are atomic, because objects    *)
(* and database agree on which transaction is open.                        *)
TransactionsAreSound == RunsAreAtomicUnlessExposed /\ TransactionsAgree

(* "Don't commit if shutdown() has been called": once the storage is       *)
(* broken the database file no longer changes.  It is violated:            *)
(* ExplicitTxn::commit() does not ask.                                     *)
NoCommitWhenBroken == [][brokenDb => db' = db]_sqliteVars

=============================================================================
