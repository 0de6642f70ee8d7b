------------------------------ MODULE GameStore ------------------------------
(***************************************************************************)
(* The operations of the game module (internal/modules/game/game.go) at    *)
(* the granularity of the SQL statements they send, inside the             *)
(* transactions of Store.Tx (internal/infra/db/transaction.go) and through *)
(* a bounded connection pool.  The database is external: it commits        *)
(* atomically, locks the rows a transaction writes, and shows a statement  *)
(* committed rows and its own transaction's.  Postgres does not look at    *)
(* rows that are still being inserted; MySQL waits for them, and an UPDATE *)
(* or DELETE that finds no row locks the gap where the row would be.  A    *)
(* DELETE of several ids takes its locks one by one: MySQL looks for each  *)
(* row when it comes to it, Postgres (READ COMMITTED) only for those that  *)
(* were there when the statement began.                                    *)
(***************************************************************************)
EXTENDS Naturals, FiniteSets

CONSTANTS Proc,             \* concurrent calls of the module
          MaxId,            \* bound on the ids the database hands out
          Name, Desc,       \* values of the two fields
          Omitted,          \* a field the caller leaves out of an update
          Unborn, Deleted,  \* the states of an id without a row
          NoOp, NoRow,
          Drivers,          \* the databases: "postgres", "mysql"
          PoolSizes         \* the sizes of the connection pool

ASSUME GameStoreAssumption ==
  /\ MaxId \in Nat \ {0}
  /\ Drivers \subseteq {"postgres", "mysql"}
  /\ PoolSizes \subseteq Nat \ {0}

Id == 1 .. MaxId

VARIABLES driver,   \* the database of this process
          maxOpenConns,
          rows,     \* the committed table: rows[id] is a row, Unborn or Deleted
          nextId,   \* the id the next INSERT gets
          pc,       \* where each call is
          op,       \* its arguments, NoOp outside a call
          touched,  \* the id its open transaction has locked, 0 if none
          pending,  \* the row it has written and not committed, or NoRow
          got,      \* the row its SELECT returned, or NoRow
          todo,     \* the ids its DELETE has still to come to
          marked,   \* the rows its DELETE has deleted and not committed
          res,      \* the result of its last operation
          wanted,   \* history: the last committed value of each field of each row
          born      \* history: the rows committed since a call of Update or Delete began

config == <<driver, maxOpenConns>>
scan == <<todo, marked>>
vars == <<config, rows, nextId, pc, op, touched, pending, got, scan, res, wanted, born>>

\* The atomic specification this module implements, and its vocabulary.
Atomic == INSTANCE GameRows
            WITH op <- [p \in Proc |-> IF pc[p] = "unwind" THEN NoOp ELSE op[p]]

Row == Atomic!Row
Ops == Atomic!Ops

\* What is no row and no operation is none.
ASSUME GameStoreValues ==
  Row \cap {Unborn, Deleted, NoRow} = {} /\ Unborn # Deleted /\ NoOp \notin Ops

Reply(kind, value) == Atomic!Reply(kind, value)
Present(id) == rows[id] \in Row
Target(p) == IF touched[p] # 0 THEN touched[p] ELSE CHOOSE id \in op[p].ids : TRUE

TypeOK ==
  /\ driver \in Drivers /\ maxOpenConns \in PoolSizes
  /\ rows \in [Id -> Row \cup {Unborn, Deleted}]
  /\ nextId \in 1 .. MaxId + 1
  /\ pc \in [Proc -> {"idle", "begin", "write", "read", "commit", "unwind", "statement", "delete"}]
  /\ op \in [Proc -> Ops \cup {NoOp}]
  /\ touched \in [Proc -> Id \cup {0}]
  /\ pending \in [Proc -> Row \cup {NoRow}]
  /\ got \in [Proc -> Row \cup {NoRow}]
  /\ todo \in [Proc -> SUBSET Id]
  /\ marked \in [Proc -> SUBSET Id]
  /\ res \in [Proc -> [kind : {"none", "ok", "invalid", "notfound", "error"},
                       value : Row \cup {NoRow}]]
  /\ wanted \in [Id -> Row \cup {NoRow}]
  /\ born \in [Proc -> SUBSET Id]

\* A table with one row, as after an earlier creation.
Init ==
  /\ driver \in Drivers /\ maxOpenConns \in PoolSizes
  /\ \E row \in Row : /\ rows = [id \in Id |-> IF id = 1 THEN row ELSE Unborn]
                      /\ wanted = [id \in Id |-> IF id = 1 THEN row ELSE NoRow]
  /\ nextId = 2
  /\ pc = [p \in Proc |-> "idle"]
  /\ op = [p \in Proc |-> NoOp]
  /\ touched = [p \in Proc |-> 0]
  /\ pending = [p \in Proc |-> NoRow]
  /\ got = [p \in Proc |-> NoRow]
  /\ todo = [p \in Proc |-> {}]
  /\ marked = [p \in Proc |-> {}]
  /\ res = [p \in Proc |-> Reply("none", NoRow)]
  /\ born = [p \in Proc |-> {}]
-----------------------------------------------------------------------------
(* The database. *)

\* A DELETE on its own is a transaction of its own.
InTx(p) == pc[p] \in {"write", "read", "commit", "unwind", "delete"}
FreeConnection == Cardinality({p \in Proc : InTx(p)}) < maxOpenConns

\* Broken variant: SQL ignores the transaction in the context.
OwnConnection_FromPool(p) == FreeConnection
\* Store.SQL: inside a transaction its statements run on the transaction's connection.
OwnConnection(p) == InTx(p) \/ FreeConnection

Writing(q, id) == id \in marked[q] \/ (touched[q] = id /\ pending[q] # NoRow)

\* On MySQL: an UPDATE or DELETE has locked the row or, when there is none, its gap.
Claimed(q, id) == touched[q] = id \/ (pc[q] = "delete" /\ id \in op[q].ids \ todo[q])

\* The row locks a statement on id waits for.
Unlocked(p, id) ==
  \A q \in Proc \ {p} : driver = "mysql" \/ Present(id) => ~Writing(q, id)

\* What a SELECT inside p's transaction sees.
Visible(p, id) == IF touched[p] = id /\ pending[p] # NoRow THEN pending[p] ELSE rows[id]

Goto(p, label) == pc' = [pc EXCEPT ![p] = label]
Result(p, reply) == res' = [res EXCEPT ![p] = reply]

\* The end of a transaction: the database drops its locks and the connection is free.
\* Broken variant: the connection goes back with its transaction still open.
Release_LeavesOpen(p) == UNCHANGED <<touched, pending>> /\ got' = [got EXCEPT ![p] = NoRow]
Release(p) == /\ touched' = [touched EXCEPT ![p] = 0]
              /\ pending' = [pending EXCEPT ![p] = NoRow]
              /\ got' = [got EXCEPT ![p] = NoRow]

\* The same for a DELETE.
Forget(p) == /\ todo' = [todo EXCEPT ![p] = {}]
             /\ marked' = [marked EXCEPT ![p] = {}]

Leave(p) == /\ Goto(p, "idle")
            /\ op' = [op EXCEPT ![p] = NoOp]
-----------------------------------------------------------------------------
(* Calls. *)

Creators == {p \in Proc : pc[p] \in {"begin", "write"} /\ op[p].kind = "create"}

Call(p, o) ==
  /\ pc[p] = "idle"
  /\ o.kind = "create" => nextId + Cardinality(Creators) <= MaxId   \* bound
  /\ Goto(p, IF o.kind \in {"create", "update"} THEN "begin" ELSE "statement")
  /\ op' = [op EXCEPT ![p] = o]
  /\ Result(p, Reply("none", NoRow))
  /\ UNCHANGED <<config, rows, nextId, touched, pending, got, scan, wanted, born>>

\* A non-positive id, a name that is empty or too long, nothing to update, no ids
\* or more than 100 of them: refused before the database is asked.
Reject(p) ==
  /\ pc[p] = "idle"
  /\ Result(p, Reply("invalid", NoRow))
  /\ UNCHANGED <<config, rows, nextId, pc, op, touched, pending, got, scan, wanted, born>>
-----------------------------------------------------------------------------
(* Create and Update: Store.Tx around a write and a Get. *)

BeginTx(p) ==
  /\ pc[p] = "begin" /\ FreeConnection
  /\ Goto(p, "write")
  /\ UNCHANGED <<config, rows, nextId, op, touched, pending, got, scan, res, wanted, born>>

Insert(p) ==
  /\ pc[p] = "write" /\ op[p].kind = "create"
  /\ nextId \in Id
  /\ driver = "mysql" => \A q \in Proc : ~Claimed(q, nextId)   \* a gap lock blocks it
  /\ touched' = [touched EXCEPT ![p] = nextId]
  /\ pending' = [pending EXCEPT ![p] = [name |-> op[p].name, desc |-> op[p].desc]]
  /\ nextId' = nextId + 1
  /\ Goto(p, "read")
  /\ UNCHANGED <<config, rows, op, got, scan, res, wanted, born>>

\* Broken variant: an omitted field is written as the other value.
Merge_Overwrites(row, o) ==
  [name |-> IF o.name = Omitted THEN CHOOSE n \in Name : n # row.name ELSE o.name,
   desc |-> IF o.desc = Omitted THEN row.desc ELSE o.desc]
\* COALESCE: an omitted field keeps the value the row has when the statement runs.
Merge(row, o) == Atomic!Merge(row, o)

\* The UPDATE; how many rows it changed is ignored.
UpdateRow(p) ==
  /\ pc[p] = "write" /\ op[p].kind = "update"
  /\ \E id \in op[p].ids :
       /\ Unlocked(p, id)
       /\ IF Present(id)
          THEN /\ touched' = [touched EXCEPT ![p] = id]
               /\ pending' = [pending EXCEPT ![p] = Merge(rows[id], op[p])]
          ELSE /\ touched' = [touched EXCEPT ![p] = IF driver = "mysql" THEN id ELSE 0]
               /\ UNCHANGED pending
  /\ Goto(p, "read")
  /\ UNCHANGED <<config, rows, nextId, op, got, scan, res, wanted, born>>

\* Get inside the transaction: the row, or ErrNotFound, which rolls back.
ReadBack(p) ==
  /\ pc[p] = "read" /\ OwnConnection(p)
  /\ LET row == Visible(p, Target(p))
     IN  IF row \in Row
         THEN /\ got' = [got EXCEPT ![p] = row]
              /\ Goto(p, "commit")
              /\ UNCHANGED <<res, born>>
         ELSE /\ Result(p, Reply("notfound", NoRow))
              /\ Goto(p, "unwind")
              /\ born' = Atomic!BornAfter(p, {})
              /\ UNCHANGED got
  /\ UNCHANGED <<config, rows, nextId, op, touched, pending, scan, wanted>>

\* Broken variant: the transaction is committed whatever the handler returned.
Undo_Commits(p) ==
  IF pending[p] = NoRow THEN UNCHANGED rows
  ELSE rows' = [rows EXCEPT ![touched[p]] = pending[p]]
Undo(p) == UNCHANGED rows

\* Rollback after an error or, by the deferred call, while a panic unwinds.
Unwind(p) ==
  /\ pc[p] = "unwind"
  /\ Undo(p)
  /\ Release(p) /\ Leave(p)
  /\ UNCHANGED <<config, nextId, scan, res, wanted, born>>

\* The call ends with an error; a DELETE has been undone by then.
Break(p) ==
  /\ Result(p, Reply("error", NoRow))
  /\ IF pc[p] \in {"write", "read"} THEN Goto(p, "unwind") /\ UNCHANGED op ELSE Leave(p)
  /\ Forget(p)
  /\ born' = Atomic!BornAfter(p, {})
  /\ UNCHANGED <<config, rows, nextId, touched, pending, got, wanted>>

\* A statement, BeginTx or the handler fails, the context ends, or the handler panics.
Fail(p) == pc[p] \in {"begin", "write", "read", "statement", "delete"} /\ Break(p)

\* The database ends one of the statements that wait for each other's rows.
BreakDeadlock(p) ==
  /\ \E waiting \in SUBSET Proc :
       p \in waiting /\ \A q \in waiting : \E r \in waiting \ {q} : todo[q] \cap marked[r] # {}
  /\ Break(p)

Supplied(p, id) ==
  IF wanted[id] = NoRow THEN pending[p] ELSE Atomic!Merge(wanted[id], op[p])

\* Commit: applied and confirmed, applied but the reply is lost, or not applied.
Commit(p) ==
  /\ pc[p] = "commit"
  /\ \/ /\ IF pending[p] = NoRow THEN UNCHANGED <<rows, wanted>>
           ELSE /\ rows' = [rows EXCEPT ![touched[p]] = pending[p]]
                /\ wanted' = [wanted EXCEPT ![touched[p]] = Supplied(p, touched[p])]
        /\ born' = Atomic!BornAfter(p, IF op[p].kind = "create" THEN {touched[p]} ELSE {})
        /\ \/ Result(p, Reply("ok", got[p]))
           \/ Result(p, Reply("error", NoRow))
     \/ /\ Result(p, Reply("error", NoRow))
        /\ born' = Atomic!BornAfter(p, {})
        /\ UNCHANGED <<rows, wanted>>
  /\ Release(p) /\ Leave(p)
  /\ UNCHANGED <<config, nextId, scan>>
-----------------------------------------------------------------------------
(* Delete and Get outside a transaction: one statement each. *)

Candidates(p) ==
  IF driver = "mysql" THEN op[p].ids ELSE {id \in op[p].ids : Present(id)}

\* Postgres fixes which rows it will look for, MySQL looks when it comes to them.
StartDelete(p) ==
  /\ pc[p] = "statement" /\ op[p].kind = "delete" /\ FreeConnection
  /\ todo' = [todo EXCEPT ![p] = Candidates(p)]
  /\ Goto(p, "delete")
  /\ UNCHANGED <<config, rows, nextId, op, touched, pending, got, marked, res, wanted, born>>

\* Broken variant: one statement, and so one transaction, for each of the ids.
VisitRow_EachCommitted(p) ==
  /\ pc[p] = "delete"
  /\ \E id \in todo[p] :
       /\ Unlocked(p, id)
       /\ todo' = [todo EXCEPT ![p] = @ \ {id}]
       /\ IF Present(id) THEN /\ marked' = [marked EXCEPT ![p] = @ \cup {id}]
                              /\ rows' = [rows EXCEPT ![id] = Deleted]
          ELSE UNCHANGED <<rows, marked>>
  /\ UNCHANGED <<config, nextId, pc, op, touched, pending, got, res, wanted, born>>
\* The next row of its plan, in any order: waited for, and deleted if it is still there.
VisitRow(p) ==
  /\ pc[p] = "delete"
  /\ \E id \in todo[p] :
       /\ Unlocked(p, id)
       /\ todo' = [todo EXCEPT ![p] = @ \ {id}]
       /\ marked' = [marked EXCEPT ![p] = IF Present(id) THEN @ \cup {id} ELSE @]
  /\ UNCHANGED <<config, rows, nextId, pc, op, touched, pending, got, res, wanted, born>>

\* The statement commits; the number of rows is the answer, or the reply is lost.
DeleteRows(p) ==
  /\ pc[p] = "delete" /\ todo[p] = {}
  /\ rows' = [id \in Id |-> IF id \in marked[p] THEN Deleted ELSE rows[id]]
  /\ \/ Result(p, Reply(IF marked[p] = {} THEN "notfound" ELSE "ok", NoRow))
     \/ Result(p, Reply("error", NoRow))
  /\ Forget(p) /\ Leave(p)
  /\ born' = Atomic!BornAfter(p, {})
  /\ UNCHANGED <<config, nextId, touched, pending, got, wanted>>

GetRow(p) ==
  /\ pc[p] = "statement" /\ op[p].kind = "get" /\ FreeConnection
  /\ \E id \in op[p].ids :
        Result(p, IF Present(id) THEN Reply("ok", rows[id]) ELSE Reply("notfound", NoRow))
  /\ Leave(p)
  /\ UNCHANGED <<config, rows, nextId, touched, pending, got, scan, wanted, born>>
-----------------------------------------------------------------------------
Step(p) == \/ BeginTx(p) \/ Insert(p) \/ UpdateRow(p) \/ ReadBack(p) \/ Commit(p)
           \/ Unwind(p) \/ StartDelete(p) \/ VisitRow(p) \/ DeleteRows(p)
           \/ BreakDeadlock(p) \/ GetRow(p)

Next == \E p \in Proc : \/ \E o \in Ops : Call(p, o)
                        \/ Reject(p) \/ Fail(p) \/ Step(p)

Spec == Init /\ [][Next]_vars

(***************************************************************************)
(* A call that can go on does.  The pool hands out connections and the     *)
(* database grants row locks in the order they were asked for, so a call   *)
(* is not passed over for ever; it ends deadlocks.                         *)
(***************************************************************************)
FairSpec == Spec /\ \A p \in Proc : SF_vars(Step(p))
-----------------------------------------------------------------------------
(* http.go and grpc.go: what the client is told. *)
HttpStatus(reply) ==
  CASE reply.kind = "ok" -> 200
    [] reply.kind = "invalid" -> 400
    [] reply.kind = "notfound" -> 404
    [] reply.kind = "error" -> 500

Answers(p, code) == res'[p] # res[p] /\ res'[p].kind # "none" /\ HttpStatus(res'[p]) = code

(***************************************************************************)
(* A row's fields are always the last ones a committed operation supplied  *)
(* (game.go:117): concurrent updates of different fields do not undo each  *)
(* other, and a rolled-back one leaves nothing.                            *)
(***************************************************************************)
LastSuppliedFieldsWin == \A id \in Id : Present(id) => rows[id] = wanted[id]

(***************************************************************************)
(* Outside a call nothing is left behind (transaction.go:24-33): no open   *)
(* transaction, no row lock, no uncommitted row, on any path.              *)
(***************************************************************************)
IdleHoldsNothing ==
  \A p \in Proc : ~InTx(p) => touched[p] = 0 /\ pending[p] = NoRow /\ marked[p] = {}

(***************************************************************************)
(* game.go:103: Update changes the supplied fields.  When Update succeeds  *)
(* the committed row has them.                                             *)
(***************************************************************************)
UpdateApplied ==
  [][\A p \in Proc : op[p] # NoOp /\ op[p].kind = "update" /\ Answers(p, 200)
        => \A id \in op[p].ids : rows'[id] = Atomic!Merge(rows'[id], op[p])]_vars

(***************************************************************************)
(* Each operation takes effect atomically and its result is true of that   *)
(* instant: what Create and Update return is the committed row, and a call *)
(* that is refused or rolled back (transaction.go:27-32) has no effect.    *)
(* Only on Postgres, and only for rows created since it was called, may    *)
(* Update succeed without an effect (game.go:118), and may Delete leave a  *)
(* row that is committed before it has got all its locks (game.go:157).    *)
(***************************************************************************)
TakesEffectAtomically == Atomic!Spec

(***************************************************************************)
(* Every call returns, even when all share one connection: inside a        *)
(* transaction SQL(ctx) needs no second one (transaction.go:11-16), and    *)
(* every path gives its own back.                                          *)
(***************************************************************************)
EveryCallReturns == \A p \in Proc : pc[p] # "idle" ~> pc[p] = "idle"
-----------------------------------------------------------------------------
(***************************************************************************)
(* The inductive invariant of the proofs.                                  *)
(***************************************************************************)
\* Only Create and Update are in transactions, and only what they have written is locked.
Phases ==
  \A p \in Proc :
    /\ pc[p] = "idle" <=> op[p] = NoOp
    /\ pc[p] \in {"begin", "write", "read", "commit", "unwind"} => op[p].kind \in {"create", "update"}
    /\ pc[p] = "statement" => op[p].kind \in {"delete", "get"}
    /\ pc[p] = "delete" => op[p].kind = "delete"
    /\ pc[p] \notin {"read", "commit", "unwind"} => touched[p] = 0 /\ pending[p] = NoRow
    /\ pc[p] # "delete" => todo[p] = {} /\ marked[p] = {}

\* Ids that are not yet handed out have no row, and nobody wanted anything of them.
IdsAreFresh ==
  \A id \in Id : /\ id >= nextId => rows[id] = Unborn
                 /\ rows[id] = Unborn => wanted[id] = NoRow

\* One transaction at a time writes a row.
OneWriter ==
  /\ \A p \in Proc : pending[p] # NoRow => touched[p] \in 1 .. nextId - 1
  /\ \A p \in Proc, q \in Proc, id \in Id : Writing(p, id) /\ Writing(q, id) => p = q

\* What a transaction has written still fits the committed row when it commits.
Past(p) == pc[p] \in {"read", "commit"}

CreationsHold ==
  \A p \in Proc : Past(p) /\ op[p].kind = "create" =>
    /\ pending[p] = [name |-> op[p].name, desc |-> op[p].desc]
    /\ rows[touched[p]] = Unborn

UpdatesHold ==
  \A p \in Proc : Past(p) /\ op[p].kind = "update" /\ pending[p] # NoRow => \A id \in op[p].ids :
    touched[p] = id /\ Present(id) /\ pending[p] = Merge(rows[id], op[p])

\* An update that found no row: MySQL keeps it out, Postgres lets it come.
MissesAreLate ==
  \A p \in Proc : Past(p) /\ op[p].kind = "update" /\ pending[p] = NoRow => \A id \in op[p].ids :
    /\ touched[p] \in {0, id}
    /\ IF driver = "mysql"
       THEN pc[p] = "read" /\ touched[p] = id /\ ~Present(id) /\ \A q \in Proc : ~Writing(q, id)
       ELSE Present(id) \/ pc[p] = "commit" => id \in born[p]

\* What a DELETE has marked is still there when it commits, and what it has passed by
\* without a mark is no row, or one that Postgres has let come since.
DeletesHold ==
  \A p \in Proc : pc[p] = "delete" =>
    /\ todo[p] \subseteq op[p].ids /\ marked[p] \subseteq op[p].ids \ todo[p]
    /\ \A id \in marked[p] : Present(id)
    /\ \A id \in op[p].ids \ (todo[p] \cup marked[p]) :
         IF driver = "mysql" THEN ~Present(id) /\ \A q \in Proc : ~Writing(q, id)
         ELSE Present(id) => id \in born[p]

ReadsAreOwn ==
  \A p \in Proc : pc[p] = "commit" =>
    got[p] \in Row /\ (pending[p] # NoRow => got[p] = pending[p])

\* Only a running change looks for rows that were not there when it began.
OnlyChangesSeeBirths == \A p \in Proc : ~Atomic!Changing(p) => born[p] = {}

GameStoreInv == /\ TypeOK /\ Phases /\ IdsAreFresh /\ OneWriter /\ CreationsHold /\ UpdatesHold
                /\ MissesAreLate /\ DeletesHold /\ ReadsAreOwn /\ LastSuppliedFieldsWin

GameRowsInv == GameStoreInv /\ OnlyChangesSeeBirths
=============================================================================
