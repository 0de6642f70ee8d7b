--------------------------- MODULE GameStore_proofs ---------------------------
(***************************************************************************)
(* Machine-checked proofs about the game module, for any number of calls,  *)
(* ids, values and connections, on both databases.  The inductive          *)
(* invariant is GameStoreInv of module GameStore.                          *)
(***************************************************************************)
EXTENDS GameStore, TLAPS

(***************************************************************************)
(* What the operations are made of.                                        *)
(***************************************************************************)
LEMMA OpsAre ==
  ASSUME NEW o \in Ops
  PROVE  /\ o # NoOp /\ o.kind \in {"create", "update", "delete", "get"}
         /\ o.kind = "create" => o.name \in Name /\ o.desc \in Desc
         /\ o.kind = "update" => o.name \in Name \cup {Omitted} /\ o.desc \in Desc \cup {Omitted}
         /\ o.kind \in {"update", "get"} => \E id \in Id : o.ids = {id}
         /\ o.ids \subseteq Id
<1>1. o \in Atomic!Ops /\ o # NoOp
  BY GameStoreValues DEF Ops
<1>2. QED
  BY <1>1 DEF Atomic!Ops

LEMMA RowsAre ==
  /\ NoRow \notin Row /\ Unborn \notin Row /\ Deleted \notin Row /\ Unborn # Deleted
  /\ \A name \in Name, desc \in Desc : [name |-> name, desc |-> desc] \in Row
  /\ \A row \in Row, o \in Ops : o.kind = "update" => Merge(row, o) \in Row
<1>1. \A name \in Name, desc \in Desc : [name |-> name, desc |-> desc] \in Row
  BY DEF Row, Atomic!Row
<1>2. ASSUME NEW row \in Row, NEW o \in Ops, o.kind = "update"
      PROVE  Merge(row, o) \in Row
  BY <1>2, OpsAre DEF Row, Atomic!Row, Merge, Atomic!Merge
<1>3. QED
  BY <1>1, <1>2, GameStoreValues

(***************************************************************************)
(* Running changes see the rows that others create, and nothing else.      *)
(***************************************************************************)
LEMMA BornSeen ==
  ASSUME TypeOK, NEW p \in Proc, NEW new \in SUBSET Id, born' = Atomic!BornAfter(p, new)
  PROVE  /\ born' \in [Proc -> SUBSET Id] /\ born'[p] = {}
         /\ \A q \in Proc \ {p} : /\ born[q] \subseteq born'[q]
                                  /\ born'[q] \subseteq born[q] \cup new
                                  /\ /\ pc[q] # "unwind" /\ op[q] # NoOp
                                     /\ op[q].kind \in {"update", "delete"}
                                     => born'[q] = born[q] \cup new
<1>1. ASSUME NEW q \in Proc \ {p}
      PROVE  /\ born'[q] \in {born[q], born[q] \cup new}
             /\ pc[q] # "unwind" /\ op[q] # NoOp /\ op[q].kind \in {"update", "delete"}
                => born'[q] = born[q] \cup new
  BY DEF Atomic!BornAfter, Atomic!Changing
<1>2. born'[p] = {} /\ DOMAIN born' = Proc /\ born' = [q \in Proc |-> born'[q]]
  BY DEF Atomic!BornAfter
<1>3. \A q \in Proc : born'[q] \in SUBSET Id
  BY <1>1, <1>2 DEF TypeOK
<1>4. QED
  BY <1>1, <1>2, <1>3

(***************************************************************************)
(* What a commit writes is what its operation supplied.                    *)
(***************************************************************************)
LEMMA CommittedIsSupplied ==
  ASSUME GameStoreInv, NEW p \in Proc, pc[p] = "commit"
  PROVE  /\ op[p] \in Ops /\ op[p].kind \in {"create", "update"} /\ got[p] \in Row
         /\ op[p].kind = "create" => pending[p] # NoRow
         /\ pending[p] # NoRow => /\ touched[p] \in Id /\ touched[p] < nextId /\ pending[p] \in Row
                                  /\ Supplied(p, touched[p]) = pending[p]
<1> USE GameStoreAssumption DEF GameStoreInv
<1>1. op[p] \in Ops /\ op[p].kind \in {"create", "update"} /\ got[p] \in Row
  BY DEF TypeOK, Phases, ReadsAreOwn
<1>2. op[p].kind = "create" => pending[p] # NoRow
  <2>1. SUFFICES ASSUME op[p].kind = "create" PROVE pending[p] # NoRow
    OBVIOUS
  <2>2. pending[p] = [name |-> op[p].name, desc |-> op[p].desc]
    BY <2>1 DEF CreationsHold, Past
  <2>3. op[p].name \in Name /\ op[p].desc \in Desc
    BY <1>1, <2>1, OpsAre
  <2>4. QED
    BY <2>2, <2>3, RowsAre
<1>3. ASSUME pending[p] # NoRow
      PROVE  touched[p] \in Id /\ touched[p] < nextId /\ pending[p] \in Row
  BY <1>3 DEF OneWriter, TypeOK, Id
<1>4. ASSUME pending[p] # NoRow PROVE Supplied(p, touched[p]) = pending[p]
  <2>1. CASE op[p].kind = "create"
    BY <1>3, <1>4, <2>1 DEF CreationsHold, Past, IdsAreFresh, Supplied
  <2>2. CASE op[p].kind = "update"
    <3>1. PICK id \in Id : op[p].ids = {id}
      BY <1>1, <2>2, OpsAre
    <3>2. touched[p] = id /\ Present(id) /\ pending[p] = Merge(rows[id], op[p])
      BY <1>4, <2>2, <3>1 DEF UpdatesHold, Past
    <3>3. wanted[id] = rows[id] /\ wanted[id] # NoRow
      BY <3>2, RowsAre DEF LastSuppliedFieldsWin, Present
    <3>4. QED
      BY <3>2, <3>3 DEF Supplied, Merge
  <2>3. QED
    BY <1>1, <2>1, <2>2
<1>5. QED
  BY <1>1, <1>2, <1>3, <1>4

(***************************************************************************)
(* A statement that the database ends in a deadlock fails like any other.  *)
(***************************************************************************)
LEMMA DeadlocksAreFailures ==
  ASSUME Phases, TypeOK, NEW p \in Proc, BreakDeadlock(p)
  PROVE  Fail(p)
<1>1. todo[p] # {} /\ Break(p)
  BY DEF BreakDeadlock
<1>2. pc[p] = "delete"
  BY <1>1 DEF Phases
<1>3. QED
  BY <1>1, <1>2 DEF Fail

(***************************************************************************)
(* The types of what each step writes.                                     *)
(***************************************************************************)
LEMMA NextTypeOK ==
  ASSUME GameStoreInv, [Next]_vars
  PROVE  TypeOK'
<1> USE GameStoreAssumption
<1>1. TypeOK /\ Phases
  BY DEF GameStoreInv
<1> DEFINE Kinds == {"none", "ok", "invalid", "notfound", "error"}
           Replies == [kind : Kinds, value : Row \cup {NoRow}]
           Places == {"idle", "begin", "write", "read", "commit", "unwind", "statement",
                     "delete"}
<1>2. ASSUME NEW kind \in Kinds, NEW value \in Row \cup {NoRow}
      PROVE  Reply(kind, value) \in Replies
  BY DEF Reply, Atomic!Reply
<1>3. ASSUME NEW p \in Proc, NEW reply \in Replies, Result(p, reply)
      PROVE  res' \in [Proc -> Replies]
  BY <1>1, <1>3 DEF Result, TypeOK
<1>4. ASSUME NEW p \in Proc, NEW label \in Places, Goto(p, label)
      PROVE  pc' \in [Proc -> Places]
  BY <1>1, <1>4 DEF Goto, TypeOK
<1>5. ASSUME NEW p \in Proc, Leave(p)
      PROVE  pc' \in [Proc -> Places] /\ op' \in [Proc -> Ops \cup {NoOp}]
  BY <1>1, <1>4, <1>5 DEF Leave, TypeOK
<1>6. ASSUME NEW p \in Proc, Release(p)
      PROVE  /\ touched' \in [Proc -> Id \cup {0}] /\ pending' \in [Proc -> Row \cup {NoRow}]
             /\ got' \in [Proc -> Row \cup {NoRow}]
  BY <1>1, <1>6 DEF Release, TypeOK
<1>7. Reply("none", NoRow) \in Replies /\ Reply("invalid", NoRow) \in Replies
      /\ Reply("error", NoRow) \in Replies /\ Reply("notfound", NoRow) \in Replies
      /\ Reply("ok", NoRow) \in Replies
  BY <1>2
<1>8. ASSUME NEW p \in Proc, NEW o \in Ops, Call(p, o) PROVE TypeOK'
  <2>1. res' \in [Proc -> Replies] /\ pc' \in [Proc -> Places]
    BY <1>3, <1>4, <1>7, <1>8 DEF Call
  <2>2. op' \in [Proc -> Ops \cup {NoOp}]
    BY <1>1, <1>8 DEF Call, TypeOK
  <2>3. QED
    BY <1>1, <1>8, <2>1, <2>2 DEF Call, TypeOK, config, scan
<1>9. ASSUME NEW p \in Proc, Reject(p) PROVE TypeOK'
  <2>1. res' \in [Proc -> Replies]
    BY <1>3, <1>7, <1>9 DEF Reject
  <2>2. QED
    BY <1>1, <1>9, <2>1 DEF Reject, TypeOK, config, scan
<1>10. ASSUME NEW p \in Proc, BeginTx(p) PROVE TypeOK'
  <2>1. pc' \in [Proc -> Places]
    BY <1>4, <1>10 DEF BeginTx
  <2>2. QED
    BY <1>1, <1>10, <2>1 DEF BeginTx, TypeOK, config, scan
<1>11. ASSUME NEW p \in Proc, Insert(p) PROVE TypeOK'
  <2>1. pc' \in [Proc -> Places]
    BY <1>4, <1>11 DEF Insert
  <2>2. [name |-> op[p].name, desc |-> op[p].desc] \in Row
    BY <1>1, <1>11, OpsAre, RowsAre DEF Insert, TypeOK, Phases
  <2>3. /\ touched' \in [Proc -> Id \cup {0}] /\ pending' \in [Proc -> Row \cup {NoRow}]
        /\ nextId' \in 1 .. MaxId + 1
    BY <1>1, <1>11, <2>2 DEF Insert, TypeOK, Id
  <2>4. QED
    BY <1>1, <1>11, <2>1, <2>3 DEF Insert, TypeOK, config, scan
<1>12. ASSUME NEW p \in Proc, UpdateRow(p) PROVE TypeOK'
  <2>1. pc' \in [Proc -> Places]
    BY <1>4, <1>12 DEF UpdateRow
  <2>2. PICK id \in op[p].ids :
          IF Present(id)
          THEN /\ touched' = [touched EXCEPT ![p] = id]
               /\ pending' = [pending EXCEPT ![p] = Merge(rows[id], op[p])]
          ELSE /\ touched' = [touched EXCEPT ![p] = IF driver = "mysql" THEN id ELSE 0]
               /\ UNCHANGED pending
    BY <1>12 DEF UpdateRow
  <2>3. op[p] \in Ops /\ op[p].kind = "update" /\ id \in Id
    BY <1>1, <1>12, OpsAre DEF UpdateRow, TypeOK, Phases
  <2>4. Present(id) => Merge(rows[id], op[p]) \in Row
    BY <2>3, RowsAre DEF Present
  <2>5. touched' \in [Proc -> Id \cup {0}] /\ pending' \in [Proc -> Row \cup {NoRow}]
    <3>1. CASE Present(id)
      <4>1. /\ touched' = [touched EXCEPT ![p] = id]
            /\ pending' = [pending EXCEPT ![p] = Merge(rows[id], op[p])]
        BY <2>2, <3>1
      <4>2. QED
        BY <1>1, <2>3, <2>4, <3>1, <4>1 DEF TypeOK
    <3>2. CASE ~Present(id)
      <4>1. PICK lock \in Id \cup {0} : touched' = [touched EXCEPT ![p] = lock]
        BY <2>2, <2>3, <3>2
      <4>2. pending' = pending
        BY <2>2, <3>2
      <4>3. QED
        BY <1>1, <4>1, <4>2 DEF TypeOK
    <3>3. QED
      BY <3>1, <3>2
  <2>6. QED
    BY <1>1, <1>12, <2>1, <2>5 DEF UpdateRow, TypeOK, config, scan
<1>13. ASSUME NEW p \in Proc, ReadBack(p) PROVE TypeOK'
  <2> DEFINE row == Visible(p, Target(p))
  <2>1. CASE row \in Row
    <3>1. pc' \in [Proc -> Places] /\ got' \in [Proc -> Row \cup {NoRow}]
          /\ UNCHANGED <<config, rows, nextId, op, touched, pending, scan, res, wanted, born>>
      BY <1>1, <1>4, <1>13, <2>1 DEF ReadBack, TypeOK
    <3>2. QED
      BY <1>1, <3>1 DEF TypeOK, config, scan
  <2>2. CASE row \notin Row
    <3>1. /\ pc' \in [Proc -> Places] /\ res' \in [Proc -> Replies]
          /\ UNCHANGED <<config, rows, nextId, op, touched, pending, scan, wanted, got>>
          /\ born' = Atomic!BornAfter(p, {})
      BY <1>3, <1>4, <1>7, <1>13, <2>2 DEF ReadBack
    <3>2. born' \in [Proc -> SUBSET Id]
      BY <1>1, <3>1, BornSeen
    <3>3. QED
      BY <1>1, <3>1, <3>2 DEF TypeOK, config, scan
  <2>3. QED
    BY <2>1, <2>2
<1>14. ASSUME NEW p \in Proc, Unwind(p) PROVE TypeOK'
  <2>1. /\ pc' \in [Proc -> Places] /\ op' \in [Proc -> Ops \cup {NoOp}]
        /\ touched' \in [Proc -> Id \cup {0}] /\ pending' \in [Proc -> Row \cup {NoRow}]
        /\ got' \in [Proc -> Row \cup {NoRow}]
    BY <1>5, <1>6, <1>14 DEF Unwind
  <2>2. QED
    BY <1>1, <1>14, <2>1 DEF Unwind, Undo, TypeOK, config, scan
<1>15. ASSUME NEW p \in Proc, Fail(p) PROVE TypeOK'
  <2>1. res' \in [Proc -> Replies] /\ born' \in [Proc -> SUBSET Id]
    BY <1>1, <1>3, <1>7, <1>15, BornSeen DEF Fail, Break
  <2>2. pc' \in [Proc -> Places] /\ op' \in [Proc -> Ops \cup {NoOp}]
    BY <1>1, <1>4, <1>5, <1>15 DEF Fail, Break, TypeOK
  <2>3. todo' \in [Proc -> SUBSET Id] /\ marked' \in [Proc -> SUBSET Id]
    BY <1>1, <1>15 DEF Fail, Break, Forget, TypeOK
  <2>4. QED
    BY <1>1, <1>15, <2>1, <2>2, <2>3 DEF Fail, Break, TypeOK, config
<1>16. ASSUME NEW p \in Proc, Commit(p) PROVE TypeOK'
  <2>1. op[p] \in Ops /\ op[p].kind \in {"create", "update"} /\ got[p] \in Row
    BY <1>16, CommittedIsSupplied DEF Commit
  <2>2. /\ pc' \in [Proc -> Places] /\ op' \in [Proc -> Ops \cup {NoOp}]
        /\ touched' \in [Proc -> Id \cup {0}] /\ pending' \in [Proc -> Row \cup {NoRow}]
        /\ got' \in [Proc -> Row \cup {NoRow}]
    BY <1>5, <1>6, <1>16 DEF Commit
  <2>3. res' \in [Proc -> Replies]
    <3>1. Result(p, Reply("ok", got[p])) \/ Result(p, Reply("error", NoRow))
      BY <1>16 DEF Commit
    <3>2. QED
      BY <1>2, <1>3, <1>7, <2>1, <3>1
  <2>4. born' \in [Proc -> SUBSET Id]
    <3>1. op[p].kind = "create" => touched[p] \in Id
      BY <1>16, CommittedIsSupplied DEF Commit
    <3>2. QED
      BY <1>1, <1>16, <3>1, BornSeen DEF Commit
  <2>5. rows' \in [Id -> Row \cup {Unborn, Deleted}] /\ wanted' \in [Id -> Row \cup {NoRow}]
    BY <1>1, <1>16, CommittedIsSupplied DEF Commit, TypeOK
  <2>6. QED
    BY <1>1, <1>16, <2>2, <2>3, <2>4, <2>5 DEF Commit, TypeOK, config, scan
<1>17. ASSUME NEW p \in Proc, DeleteRows(p) PROVE TypeOK'
  <2>1. /\ pc' \in [Proc -> Places] /\ op' \in [Proc -> Ops \cup {NoOp}]
        /\ res' \in [Proc -> Replies]
    BY <1>3, <1>5, <1>7, <1>17 DEF DeleteRows
  <2>2. rows' \in [Id -> Row \cup {Unborn, Deleted}]
    BY <1>1, <1>17 DEF DeleteRows, TypeOK
  <2>3. /\ todo' \in [Proc -> SUBSET Id] /\ marked' \in [Proc -> SUBSET Id]
        /\ born' \in [Proc -> SUBSET Id]
    BY <1>1, <1>17, BornSeen DEF DeleteRows, Forget, TypeOK
  <2>4. QED
    BY <1>1, <1>17, <2>1, <2>2, <2>3 DEF DeleteRows, TypeOK, config
<1>18. ASSUME NEW p \in Proc, GetRow(p) PROVE TypeOK'
  <2>1. pc' \in [Proc -> Places] /\ op' \in [Proc -> Ops \cup {NoOp}]
    BY <1>5, <1>18 DEF GetRow
  <2>2. res' \in [Proc -> Replies]
    BY <1>2, <1>3, <1>7, <1>18 DEF GetRow, Present
  <2>3. QED
    BY <1>1, <1>18, <2>1, <2>2 DEF GetRow, TypeOK, config, scan
<1>19. ASSUME NEW p \in Proc, StartDelete(p) PROVE TypeOK'
  <2>1. pc' \in [Proc -> Places]
    BY <1>4, <1>19 DEF StartDelete
  <2>2. op[p] \in Ops /\ op[p].ids \subseteq Id
    BY <1>1, <1>19, OpsAre DEF StartDelete, TypeOK, Phases
  <2>3. todo' \in [Proc -> SUBSET Id]
    BY <1>1, <1>19, <2>2 DEF StartDelete, Candidates, TypeOK
  <2>4. QED
    BY <1>1, <1>19, <2>1, <2>3 DEF StartDelete, TypeOK, config
<1>20. ASSUME NEW p \in Proc, VisitRow(p) PROVE TypeOK'
  <2>1. todo' \in [Proc -> SUBSET Id] /\ marked' \in [Proc -> SUBSET Id]
    BY <1>1, <1>20 DEF VisitRow, TypeOK
  <2>2. QED
    BY <1>1, <1>20, <2>1 DEF VisitRow, TypeOK, config
<1>21. CASE UNCHANGED vars
  BY <1>1, <1>21 DEF vars, TypeOK, config, scan
<1>22. QED
  BY <1>1, <1>8, <1>9, <1>10, <1>11, <1>12, <1>13, <1>14, <1>15, <1>16, <1>17, <1>18, <1>19, <1>20,
     <1>21, DeadlocksAreFailures DEF Next, Step
-----------------------------------------------------------------------------
(***************************************************************************)
(* A step of a call that leaves the table alone and keeps, gives back or   *)
(* has never had a lock disturbs no transaction, its own included.         *)
(***************************************************************************)
LEMMA TableIsLeftAlone ==
  ASSUME GameStoreInv, NEW p \in Proc, TypeOK', UNCHANGED <<driver, rows, nextId, wanted>>,
         \A q \in Proc \ {p} : /\ pc'[q] = pc[q] /\ op'[q] = op[q] /\ got'[q] = got[q]
                               /\ touched'[q] = touched[q] /\ pending'[q] = pending[q]
                               /\ todo'[q] = todo[q] /\ marked'[q] = marked[q]
                               /\ born[q] \subseteq born'[q],
         \/ touched'[p] = touched[p] /\ pending'[p] = pending[p]
         \/ touched'[p] = 0 /\ pending'[p] = NoRow,
         pc'[p] = "idle" <=> op'[p] = NoOp,
         pc'[p] \in {"begin", "write", "read", "commit", "unwind"}
           => op'[p].kind \in {"create", "update"},
         pc'[p] = "statement" => op'[p].kind \in {"delete", "get"},
         pc'[p] \notin {"read", "commit", "unwind"} => touched'[p] = 0 /\ pending'[p] = NoRow,
         ~Past(p)', pc'[p] # "delete", todo'[p] = {}, marked'[p] = {}
  PROVE  GameStoreInv'
<1> USE DEF GameStoreInv
<1>1. /\ \A q \in Proc \ {p} : Past(q)' = Past(q)
      /\ \A q \in Proc, id \in Id : Writing(q, id)' => Writing(q, id)
      /\ \A id : Present(id)' = Present(id)
      /\ \A row, o : Merge(row, o)' = Merge(row, o)
  BY DEF Past, Writing, Present, TypeOK, Merge, Atomic!Merge
<1>2. Phases'
  BY DEF Phases
<1>3. IdsAreFresh' /\ LastSuppliedFieldsWin'
  BY <1>1 DEF IdsAreFresh, LastSuppliedFieldsWin
<1>4. OneWriter'
  BY <1>1 DEF OneWriter
<1>5. CreationsHold'
  BY <1>1 DEF CreationsHold
<1>6. UpdatesHold'
  BY <1>1 DEF UpdatesHold
<1>7. MissesAreLate'
  <2>1. ASSUME NEW q \in Proc, Past(q)', op'[q].kind = "update", pending'[q] = NoRow,
               NEW id \in op'[q].ids
        PROVE  /\ touched'[q] \in {0, id}
               /\ IF driver = "mysql"
                  THEN /\ pc'[q] = "read" /\ touched'[q] = id /\ ~Present(id)
                       /\ \A r \in Proc : ~Writing(r, id)
                  ELSE Present(id) \/ pc'[q] = "commit" => id \in born'[q]
    BY <1>1, <2>1 DEF MissesAreLate
  <2>2. \A q \in Proc : Past(q)' /\ op'[q].kind = "update" => op'[q].ids \subseteq Id
    BY OpsAre DEF TypeOK, Phases, Past
  <2>3. QED
    BY <1>1, <2>1, <2>2 DEF MissesAreLate
<1>8. DeletesHold'
  <2>1. ASSUME NEW q \in Proc, pc'[q] = "delete"
        PROVE  /\ todo'[q] \subseteq op'[q].ids /\ marked'[q] \subseteq op'[q].ids \ todo'[q]
               /\ \A id \in marked'[q] : Present(id)
               /\ \A id \in op'[q].ids \ (todo'[q] \cup marked'[q]) :
                    IF driver = "mysql" THEN ~Present(id) /\ \A r \in Proc : ~Writing(r, id)
                    ELSE Present(id) => id \in born'[q]
    BY <2>1 DEF DeletesHold
  <2>2. \A q \in Proc : pc'[q] = "delete" => op'[q].ids \subseteq Id
    BY OpsAre DEF TypeOK, Phases
  <2>3. QED
    BY <1>1, <2>1, <2>2 DEF DeletesHold
<1>9. ReadsAreOwn'
  BY DEF ReadsAreOwn, Past
<1>10. QED
  BY <1>2, <1>3, <1>4, <1>5, <1>6, <1>7, <1>8, <1>9

(***************************************************************************)
(* The read inside the transaction returns what will be committed; it      *)
(* finds no row only when the update has found none either.                *)
(***************************************************************************)
LEMMA ReadBackReadsOwn ==
  ASSUME GameStoreInv, NEW p \in Proc, ReadBack(p)
  PROVE  /\ op[p] \in Ops /\ op[p].kind \in {"create", "update"}
         /\ pending[p] # NoRow => Visible(p, Target(p)) = pending[p] /\ pending[p] \in Row
         /\ pending[p] = NoRow =>
              /\ op[p].kind = "update"
              /\ \E id \in Id : /\ op[p].ids = {id} /\ Visible(p, Target(p)) = rows[id]
                                /\ Present(id) => driver # "mysql" /\ id \in born[p]
<1> USE GameStoreAssumption DEF GameStoreInv
<1>1. pc[p] = "read" /\ Past(p) /\ op[p] \in Ops /\ op[p].kind \in {"create", "update"}
  BY DEF ReadBack, TypeOK, Phases, Past
<1>2. ASSUME pending[p] # NoRow PROVE Visible(p, Target(p)) = pending[p] /\ pending[p] \in Row
  BY <1>2 DEF OneWriter, TypeOK, Visible, Target
<1>3. ASSUME pending[p] = NoRow
      PROVE  /\ op[p].kind = "update"
             /\ \E id \in Id : /\ op[p].ids = {id} /\ Visible(p, Target(p)) = rows[id]
                               /\ Present(id) => driver # "mysql" /\ id \in born[p]
  <2>1. op[p].kind = "update"
    <3>1. SUFFICES ASSUME op[p].kind = "create" PROVE FALSE
      BY <1>1
    <3>2. op[p].name \in Name /\ op[p].desc \in Desc
      BY <1>1, <3>1, OpsAre
    <3>3. QED
      BY <1>1, <1>3, <3>1, <3>2, RowsAre DEF CreationsHold
  <2>2. PICK id \in Id : op[p].ids = {id}
    BY <1>1, <2>1, OpsAre
  <2>3. /\ touched[p] \in {0, id}
        /\ IF driver = "mysql" THEN ~Present(id) ELSE Present(id) => id \in born[p]
    BY <1>1, <1>3, <2>1, <2>2 DEF MissesAreLate
  <2>4. Target(p) = id
    BY <2>2, <2>3 DEF Target
  <2>5. Visible(p, Target(p)) = rows[id]
    BY <1>3, <2>4 DEF Visible
  <2>6. QED
    BY <2>1, <2>2, <2>3, <2>5
<1>4. QED
  BY <1>1, <1>2, <1>3

(***************************************************************************)
(* One lemma for each step that touches the table, a lock or a read row.   *)
(***************************************************************************)
LEMMA InsertKeepsInv ==
  ASSUME GameStoreInv, TypeOK', NEW p \in Proc, Insert(p)
  PROVE  GameStoreInv'
<1> USE GameStoreAssumption DEF GameStoreInv
<1>1. PICK new, row : new = nextId /\ row = [name |-> op[p].name, desc |-> op[p].desc]
  OBVIOUS
<1>2. /\ UNCHANGED <<config, rows, op, got, todo, marked, res, wanted, born>> /\ pc[p] = "write"
      /\ op[p].kind = "create" /\ op[p] # NoOp /\ new \in Id /\ new \in Nat
      /\ driver = "mysql" => \A q \in Proc : ~Claimed(q, new)
      /\ nextId' = new + 1
  BY <1>1 DEF Insert, Phases, Id, scan
<1>3. /\ touched'[p] = new /\ pending'[p] = row /\ pc'[p] = "read"
      /\ \A q \in Proc \ {p} : touched'[q] = touched[q] /\ pending'[q] = pending[q] /\ pc'[q] = pc[q]
  BY <1>1 DEF Insert, Goto, TypeOK
<1>4. rows[new] = Unborn
  BY <1>1, <1>2 DEF IdsAreFresh, Id
<1>5. /\ \A q \in Proc \ {p} : Past(q)' = Past(q)
      /\ \A q \in Proc, id \in Id : Writing(q, id)' => Writing(q, id) \/ (q = p /\ id = new)
      /\ \A q \in Proc : ~Writing(q, new)
      /\ \A id : Present(id)' = Present(id)
      /\ \A r, o : Merge(r, o)' = Merge(r, o)
  <2>1. \A q \in Proc : ~Writing(q, new)
    BY <1>1, <1>2, <1>4, RowsAre DEF Writing, OneWriter, DeletesHold, Phases, Present, Id
  <2>2. QED
    BY <1>1, <1>2, <1>3, <2>1 DEF Past, Writing, Present, TypeOK, Merge, Atomic!Merge
<1>6. Phases'
  BY <1>2, <1>3 DEF Phases
<1>7. IdsAreFresh' /\ LastSuppliedFieldsWin'
  BY <1>1, <1>2, <1>5 DEF IdsAreFresh, LastSuppliedFieldsWin, Id
<1>8. OneWriter'
  <2>1. \A q \in Proc : pending'[q] # NoRow => touched'[q] \in 1 .. nextId' - 1
    BY <1>1, <1>2, <1>3 DEF OneWriter, Id
  <2>2. \A q \in Proc, r \in Proc, id \in Id : Writing(q, id)' /\ Writing(r, id)' => q = r
    BY <1>5 DEF OneWriter
  <2>3. QED
    BY <2>1, <2>2 DEF OneWriter
<1>9. CreationsHold'
  BY <1>1, <1>2, <1>3, <1>4, <1>5 DEF CreationsHold
<1>10. UpdatesHold'
  BY <1>2, <1>3, <1>5 DEF UpdatesHold
<1>11. MissesAreLate'
  <2>1. ASSUME NEW q \in Proc, Past(q)', op[q].kind = "update", pending'[q] = NoRow,
               NEW id \in op[q].ids
        PROVE  /\ touched'[q] \in {0, id}
               /\ IF driver = "mysql"
                  THEN /\ pc'[q] = "read" /\ touched'[q] = id /\ ~Present(id)
                       /\ \A r \in Proc : ~Writing(r, id)'
                  ELSE Present(id) \/ pc'[q] = "commit" => id \in born[q]
    <3>1. q # p /\ Past(q)
      BY <1>2, <1>5, <2>1
    <3>2. op[q] \in Ops /\ id \in Id
      BY <2>1, <3>1, OpsAre DEF TypeOK, Phases, Past
    <3>3. /\ touched[q] \in {0, id}
          /\ IF driver = "mysql"
             THEN pc[q] = "read" /\ touched[q] = id /\ ~Present(id) /\ \A r \in Proc : ~Writing(r, id)
             ELSE Present(id) \/ pc[q] = "commit" => id \in born[q]
      BY <1>3, <2>1, <3>1 DEF MissesAreLate
    <3>4. QED
      BY <1>2, <1>3, <1>5, <3>1, <3>2, <3>3 DEF Claimed
  <2>2. QED
    BY <1>2, <1>5, <2>1 DEF MissesAreLate, config
<1>12. DeletesHold'
  <2>1. ASSUME NEW q \in Proc, pc'[q] = "delete"
        PROVE  /\ q # p /\ pc[q] = "delete" /\ op[q].ids \subseteq Id
               /\ driver = "mysql" => new \notin op[q].ids \ todo[q]
    BY <1>2, <1>3, <2>1, OpsAre DEF TypeOK, Phases, Claimed
  <2>2. ASSUME NEW q \in Proc, pc'[q] = "delete", NEW id \in op[q].ids \ (todo[q] \cup marked[q])
        PROVE  IF driver = "mysql" THEN ~Present(id) /\ \A r \in Proc : ~Writing(r, id)'
               ELSE Present(id) => id \in born[q]
    <3>1. IF driver = "mysql" THEN ~Present(id) /\ \A r \in Proc : ~Writing(r, id)
          ELSE Present(id) => id \in born[q]
      BY <2>1, <2>2 DEF DeletesHold
    <3>2. id \in Id /\ (driver = "mysql" => id # new)
      BY <2>1, <2>2
    <3>3. QED
      BY <1>5, <3>1, <3>2
  <2>3. ASSUME NEW q \in Proc, pc'[q] = "delete"
        PROVE  /\ todo[q] \subseteq op[q].ids /\ marked[q] \subseteq op[q].ids \ todo[q]
               /\ \A id \in marked[q] : Present(id)
    BY <2>1, <2>3 DEF DeletesHold
  <2>4. QED
    BY <1>2, <1>5, <2>2, <2>3 DEF DeletesHold, config
<1>13. ReadsAreOwn'
  BY <1>2, <1>3 DEF ReadsAreOwn
<1>14. QED
  BY <1>6, <1>7, <1>8, <1>9, <1>10, <1>11, <1>12, <1>13

LEMMA UpdateKeepsInv ==
  ASSUME GameStoreInv, TypeOK', NEW p \in Proc, UpdateRow(p)
  PROVE  GameStoreInv'
<1> USE GameStoreAssumption DEF GameStoreInv
<1>1. /\ UNCHANGED <<config, rows, nextId, op, got, todo, marked, res, wanted, born>>
      /\ pc[p] = "write"
      /\ op[p].kind = "update" /\ op[p] # NoOp /\ op[p] \in Ops
      /\ touched[p] = 0 /\ pending[p] = NoRow /\ marked[p] = {}
  <2>1. UNCHANGED <<config, rows, nextId, op, got, todo, marked, res, wanted, born>>
        /\ pc[p] = "write" /\ op[p].kind = "update"
    BY DEF UpdateRow, scan
  <2>2. op[p] # NoOp /\ touched[p] = 0 /\ pending[p] = NoRow /\ marked[p] = {}
    BY <2>1 DEF Phases
  <2>3. op[p] \in Ops
    BY <2>2 DEF TypeOK
  <2>4. QED
    BY <2>1, <2>2, <2>3
<1>2. PICK id \in Id : op[p].ids = {id}
  BY <1>1, OpsAre
<1>3. PICK merged : merged = Merge(rows[id], op[p])
  OBVIOUS
<1>4. /\ Unlocked(p, id) /\ pc'[p] = "read"
      /\ \A q \in Proc \ {p} : touched'[q] = touched[q] /\ pending'[q] = pending[q] /\ pc'[q] = pc[q]
      /\ Present(id) => touched'[p] = id /\ pending'[p] = merged
      /\ ~Present(id) => touched'[p] = (IF driver = "mysql" THEN id ELSE 0) /\ pending'[p] = NoRow
  BY <1>1, <1>2, <1>3 DEF UpdateRow, Goto, TypeOK
<1>5. /\ \A q \in Proc \ {p} : Past(q)' = Past(q)
      /\ \A q \in Proc, n \in Id : Writing(q, n)' => Writing(q, n) \/ (q = p /\ n = id /\ Present(id))
      /\ \A n : Present(n)' = Present(n)
      /\ \A r, o : Merge(r, o)' = Merge(r, o)
      /\ Past(p)' /\ ~Past(p)
  BY <1>1, <1>4 DEF Past, Writing, Present, Merge, Atomic!Merge
<1>6. Present(id) => /\ id \in 1 .. nextId - 1 /\ merged \in Row
                     /\ \A q \in Proc \ {p} : ~Writing(q, id)
  BY <1>1, <1>3, <1>4, RowsAre DEF IdsAreFresh, Present, Unlocked, TypeOK, Id
<1>7. Phases'
  BY <1>1, <1>4 DEF Phases
<1>8. IdsAreFresh' /\ LastSuppliedFieldsWin'
  BY <1>1, <1>5 DEF IdsAreFresh, LastSuppliedFieldsWin
<1>9. OneWriter'
  <2>1. \A q \in Proc : pending'[q] # NoRow => touched'[q] \in 1 .. nextId - 1
    BY <1>4, <1>6 DEF OneWriter
  <2>2. \A q \in Proc, r \in Proc, n \in Id : Writing(q, n)' /\ Writing(r, n)' => q = r
    BY <1>5, <1>6 DEF OneWriter
  <2>3. QED
    BY <1>1, <2>1, <2>2 DEF OneWriter
<1>10. CreationsHold'
  BY <1>1, <1>4, <1>5 DEF CreationsHold
<1>11. UpdatesHold'
  BY <1>1, <1>2, <1>3, <1>4, <1>5 DEF UpdatesHold
<1>12. MissesAreLate'
  <2>1. ASSUME NEW q \in Proc, Past(q)', op[q].kind = "update", pending'[q] = NoRow, NEW n \in op[q].ids
        PROVE  /\ touched'[q] \in {0, n}
               /\ IF driver = "mysql"
                  THEN /\ pc'[q] = "read" /\ touched'[q] = n /\ ~Present(n)
                       /\ \A r \in Proc : ~Writing(r, n)'
                  ELSE Present(n) \/ pc'[q] = "commit" => n \in born[q]
    <3>1. CASE q = p
      <4>1. n = id /\ ~Present(id)
        BY <1>2, <1>4, <1>6, <2>1, <3>1, RowsAre
      <4>2. driver = "mysql" => \A r \in Proc : ~Writing(r, id)
        BY <1>1, <1>4 DEF Unlocked, Writing
      <4>3. QED
        BY <1>2, <1>4, <1>5, <3>1, <4>1, <4>2
    <3>2. CASE q # p
      <4>1. op[q] \in Ops /\ n \in Id /\ Past(q)
        BY <1>5, <2>1, <3>2, OpsAre DEF TypeOK, Phases, Past
      <4>2. /\ touched[q] \in {0, n}
            /\ IF driver = "mysql"
               THEN pc[q] = "read" /\ touched[q] = n /\ ~Present(n) /\ \A r \in Proc : ~Writing(r, n)
               ELSE Present(n) \/ pc[q] = "commit" => n \in born[q]
        BY <1>4, <2>1, <3>2, <4>1 DEF MissesAreLate
      <4>3. QED
        BY <1>4, <1>5, <3>2, <4>1, <4>2
    <3>3. QED
      BY <3>1, <3>2
  <2>2. QED
    BY <1>1, <1>5, <2>1 DEF MissesAreLate, config
<1>13. DeletesHold'
  <2>1. ASSUME NEW q \in Proc, pc'[q] = "delete"
        PROVE  q # p /\ pc[q] = "delete" /\ op[q].ids \subseteq Id
    BY <1>1, <1>4, <2>1, OpsAre DEF TypeOK, Phases
  <2>2. QED
    BY <1>1, <1>5, <2>1 DEF DeletesHold, config
<1>14. ReadsAreOwn'
  BY <1>1, <1>4 DEF ReadsAreOwn
<1>15. QED
  BY <1>7, <1>8, <1>9, <1>10, <1>11, <1>12, <1>13, <1>14

LEMMA ReadKeepsInv ==
  ASSUME GameStoreInv, TypeOK', NEW p \in Proc, ReadBack(p)
  PROVE  GameStoreInv'
<1> USE GameStoreAssumption
<1>1. TypeOK /\ Phases
  BY DEF GameStoreInv
<1> DEFINE row == Visible(p, Target(p))
<1>2. /\ UNCHANGED <<config, rows, nextId, op, touched, pending, todo, marked, wanted>>
      /\ pc[p] = "read" /\ op[p] # NoOp /\ todo[p] = {} /\ marked[p] = {}
  BY <1>1 DEF ReadBack, Phases, scan
<1>3. CASE row \notin Row
  <2>1. born' = Atomic!BornAfter(p, {}) /\ Goto(p, "unwind") /\ got' = got
    BY <1>3 DEF ReadBack
  <2>2. \A q \in Proc \ {p} : born[q] \subseteq born'[q]
    BY <1>1, <2>1, BornSeen
  <2>3. pc'[p] = "unwind" /\ \A q \in Proc \ {p} : pc'[q] = pc[q]
    BY <1>1, <2>1 DEF Goto, TypeOK
  <2>4. op[p].kind \in {"create", "update"} /\ ~Past(p)'
    BY <2>3, ReadBackReadsOwn DEF Past
  <2>5. QED
    BY <1>1, <1>2, <2>1, <2>2, <2>3, <2>4, TableIsLeftAlone DEF config
<1>4. CASE row \in Row
  <2> USE DEF GameStoreInv
  <2>1. /\ got' = [got EXCEPT ![p] = row] /\ Goto(p, "commit") /\ UNCHANGED <<res, born>>
    BY <1>4 DEF ReadBack
  <2>2. /\ got'[p] = row /\ pc'[p] = "commit"
        /\ \A q \in Proc \ {p} : got'[q] = got[q] /\ pc'[q] = pc[q]
    BY <2>1 DEF Goto, TypeOK
  <2>3. /\ \A q \in Proc : Past(q)' = Past(q)
        /\ \A q \in Proc : \A id : Writing(q, id)' = Writing(q, id)
        /\ \A id : Present(id)' = Present(id)
        /\ \A r, o : Merge(r, o)' = Merge(r, o)
    BY <1>2, <2>1, <2>2 DEF Past, Writing, Present, Merge, Atomic!Merge
  <2>4. Phases'
    BY <1>2, <2>2 DEF Phases
  <2>5. IdsAreFresh' /\ LastSuppliedFieldsWin' /\ OneWriter' /\ DeletesHold'
    <3>1. IdsAreFresh' /\ LastSuppliedFieldsWin' /\ OneWriter'
      BY <1>2, <2>3 DEF IdsAreFresh, LastSuppliedFieldsWin, OneWriter
    <3>2. DeletesHold'
      BY <1>2, <2>1, <2>2, <2>3 DEF DeletesHold, config
    <3>3. QED
      BY <3>1, <3>2
  <2>6. CreationsHold' /\ UpdatesHold'
    BY <1>2, <2>3 DEF CreationsHold, UpdatesHold
  <2>7. MissesAreLate'
    <3>1. pending[p] = NoRow =>
            \E id \in Id : op[p].ids = {id} /\ driver # "mysql" /\ id \in born[p]
      <4>1. SUFFICES ASSUME pending[p] = NoRow
            PROVE  \E id \in Id : op[p].ids = {id} /\ driver # "mysql" /\ id \in born[p]
        OBVIOUS
      <4>2. PICK id \in Id : /\ op[p].ids = {id} /\ row = rows[id]
                             /\ Present(id) => driver # "mysql" /\ id \in born[p]
        BY <4>1, ReadBackReadsOwn
      <4>3. Present(id)
        BY <1>4, <4>2 DEF Present
      <4>4. QED
        BY <4>2, <4>3
    <3>2. ASSUME NEW q \in Proc, Past(q), op[q].kind = "update", pending[q] = NoRow,
                 NEW id \in op[q].ids
          PROVE  /\ touched[q] \in {0, id}
                 /\ IF driver = "mysql"
                    THEN /\ pc'[q] = "read" /\ touched[q] = id /\ ~Present(id)
                         /\ \A r \in Proc : ~Writing(r, id)
                    ELSE Present(id) \/ pc'[q] = "commit" => id \in born[q]
      BY <2>2, <3>1, <3>2 DEF MissesAreLate
    <3>3. QED
      BY <1>2, <2>1, <2>3, <3>2 DEF MissesAreLate, config
  <2>8. ReadsAreOwn'
    <3>1. pending[p] # NoRow => row = pending[p]
      BY ReadBackReadsOwn
    <3>2. QED
      BY <1>2, <1>4, <2>2, <3>1 DEF ReadsAreOwn
  <2>9. QED
    BY <2>4, <2>5, <2>6, <2>7, <2>8
<1>5. QED
  BY <1>3, <1>4

LEMMA CommitKeepsInv ==
  ASSUME GameStoreInv, TypeOK', NEW p \in Proc, Commit(p)
  PROVE  GameStoreInv'
<1> USE GameStoreAssumption
<1>1. TypeOK /\ Phases
  BY DEF GameStoreInv
<1>2. /\ pc[p] = "commit" /\ Release(p) /\ Leave(p) /\ UNCHANGED <<config, nextId, todo, marked>>
      /\ todo[p] = {} /\ marked[p] = {}
  BY <1>1 DEF Commit, Phases, scan
<1>3. /\ pc'[p] = "idle" /\ op'[p] = NoOp /\ touched'[p] = 0 /\ pending'[p] = NoRow
      /\ \A q \in Proc \ {p} : /\ pc'[q] = pc[q] /\ op'[q] = op[q] /\ got'[q] = got[q]
                               /\ touched'[q] = touched[q] /\ pending'[q] = pending[q]
  BY <1>1, <1>2 DEF Release, Leave, Goto, TypeOK
<1>4. PICK new \in SUBSET Id :
        /\ born' = Atomic!BornAfter(p, new)
        /\ \/ UNCHANGED <<rows, wanted>>
           \/ /\ pending[p] # NoRow /\ rows' = [rows EXCEPT ![touched[p]] = pending[p]]
              /\ wanted' = [wanted EXCEPT ![touched[p]] = Supplied(p, touched[p])]
              /\ op[p].kind = "create" => touched[p] \in new
  <2>1. op[p].kind = "create" => touched[p] \in Id
    BY <1>2, CommittedIsSupplied
  <2>2. {} \in SUBSET Id /\ (IF op[p].kind = "create" THEN {touched[p]} ELSE {}) \in SUBSET Id
    BY <2>1
  <2>3. QED
    BY <2>2 DEF Commit
<1>5. /\ \A q \in Proc \ {p} : born[q] \subseteq born'[q]
      /\ \A q \in Proc \ {p} : /\ pc[q] # "unwind" /\ op[q] # NoOp
                               /\ op[q].kind \in {"update", "delete"}
                              => new \subseteq born'[q]
  BY <1>1, <1>4, BornSeen
<1>6. CASE UNCHANGED <<rows, wanted>>
  BY <1>1, <1>2, <1>3, <1>5, <1>6, TableIsLeftAlone DEF Past, config
<1>7. CASE ~UNCHANGED <<rows, wanted>>
  <2> USE DEF GameStoreInv
  <2>1. PICK id \in Id, row \in Row :
          /\ id = touched[p] /\ row = pending[p] /\ pending[p] # NoRow /\ id < nextId
          /\ rows' = [rows EXCEPT ![id] = row] /\ wanted' = [wanted EXCEPT ![id] = row]
          /\ op[p].kind = "create" => id \in new
          /\ op[p].kind \in {"create", "update"} /\ op[p] \in Ops
    BY <1>2, <1>4, <1>7, CommittedIsSupplied
  <2>2. /\ rows'[id] = row /\ wanted'[id] = row
        /\ \A n \in Id \ {id} : rows'[n] = rows[n] /\ wanted'[n] = wanted[n]
    BY <2>1 DEF TypeOK
  <2>3. /\ \A q \in Proc \ {p} : Past(q)' = Past(q)
        /\ ~Past(p)'
        /\ \A q \in Proc, n \in Id : Writing(q, n)' => q # p /\ Writing(q, n)
        /\ \A q \in Proc \ {p} : ~Writing(q, id)
        /\ \A n \in Id \ {id} : Present(n)' = Present(n)
        /\ \A r, o : Merge(r, o)' = Merge(r, o)
    <3>1. \A q \in Proc \ {p} : ~Writing(q, id)
      BY <2>1 DEF Writing, OneWriter
    <3>2. \A q \in Proc, n \in Id : Writing(q, n)' => q # p /\ Writing(q, n)
      BY <1>2, <1>3 DEF Writing
    <3>3. \A n \in Id \ {id} : Present(n)' = Present(n)
      BY <2>2 DEF Present, Row, Atomic!Row
    <3>4. QED
      BY <1>3, <3>1, <3>2, <3>3 DEF Past, Merge, Atomic!Merge
  <2>4. Phases'
    BY <1>2, <1>3 DEF Phases
  <2>5. IdsAreFresh' /\ LastSuppliedFieldsWin'
    BY <1>2, <2>1, <2>2, <2>3, RowsAre DEF IdsAreFresh, LastSuppliedFieldsWin, TypeOK, Id
  <2>6. OneWriter'
    BY <1>2, <1>3, <2>3 DEF OneWriter
  <2>7. ASSUME NEW q \in Proc \ {p}, pending[q] # NoRow
        PROVE  touched[q] # id /\ touched[q] \in Id
    BY <2>1, <2>3, <2>7 DEF OneWriter, Writing, TypeOK
  <2>8. op[p].kind = "update" => Present(id)
    <3>1. SUFFICES ASSUME op[p].kind = "update" PROVE Present(id)
      OBVIOUS
    <3>2. PICK m \in Id : op[p].ids = {m}
      BY <2>1, <3>1, OpsAre
    <3>3. QED
      BY <1>2, <2>1, <3>1, <3>2 DEF UpdatesHold, Past
  <2>9. CreationsHold'
    <3>1. ASSUME NEW q \in Proc \ {p}, Past(q), op[q].kind = "create"
          PROVE  /\ pending[q] = [name |-> op[q].name, desc |-> op[q].desc]
                 /\ rows'[touched[q]] = Unborn
      <4>1. pending[q] = [name |-> op[q].name, desc |-> op[q].desc] /\ rows[touched[q]] = Unborn
        BY <3>1 DEF CreationsHold
      <4>2. op[q] \in Ops
        BY <3>1 DEF TypeOK, Phases, Past
      <4>3. pending[q] # NoRow
        BY <3>1, <4>1, <4>2, OpsAre, RowsAre
      <4>4. QED
        BY <2>2, <2>7, <4>1, <4>3
    <3>2. QED
      BY <1>3, <2>3, <3>1 DEF CreationsHold
  <2>10. UpdatesHold'
    <3>1. ASSUME NEW q \in Proc \ {p}, Past(q), op[q].kind = "update", pending[q] # NoRow,
                 NEW n \in op[q].ids
          PROVE  touched[q] = n /\ Present(n)' /\ pending[q] = Merge(rows'[n], op[q])
      <4>1. touched[q] = n /\ Present(n) /\ pending[q] = Merge(rows[n], op[q])
        BY <3>1 DEF UpdatesHold
      <4>2. QED
        BY <2>2, <2>3, <2>7, <3>1, <4>1
    <3>2. QED
      BY <1>3, <2>3, <3>1 DEF UpdatesHold
  <2>11. MissesAreLate'
    <3>1. ASSUME NEW q \in Proc \ {p}, Past(q), op[q].kind = "update", pending[q] = NoRow,
                 NEW n \in op[q].ids
          PROVE  /\ touched[q] \in {0, n}
                 /\ IF driver = "mysql"
                    THEN /\ pc[q] = "read" /\ touched[q] = n /\ ~Present(n)'
                         /\ \A r \in Proc : ~Writing(r, n)'
                    ELSE Present(n)' \/ pc[q] = "commit" => n \in born'[q]
      <4>1. /\ touched[q] \in {0, n}
            /\ IF driver = "mysql"
               THEN pc[q] = "read" /\ touched[q] = n /\ ~Present(n) /\ \A r \in Proc : ~Writing(r, n)
               ELSE Present(n) \/ pc[q] = "commit" => n \in born[q]
        BY <3>1 DEF MissesAreLate
      <4>2. op[q] \in Ops /\ n \in Id /\ op[q] # NoOp
        BY <3>1, OpsAre DEF TypeOK, Phases, Past
      <4>3. CASE n # id
        BY <1>5, <2>3, <4>1, <4>2, <4>3
      <4>4. CASE n = id
        <5>1. driver # "mysql"
          BY <2>1, <4>1, <4>4 DEF Writing
        <5>2. op[p].kind = "update" => Present(id)
          BY <2>8
        <5>3. n \in born'[q]
          BY <1>5, <2>1, <3>1, <4>1, <4>2, <4>4, <5>1, <5>2 DEF Past
        <5>4. QED
          BY <4>1, <5>1, <5>3
      <4>5. QED
        BY <4>3, <4>4
    <3>2. driver' = driver
      BY <1>2 DEF config
    <3>3. QED
      BY <1>3, <2>3, <3>1, <3>2 DEF MissesAreLate
  <2>12. ReadsAreOwn'
    BY <1>3 DEF ReadsAreOwn
  <2>13. DeletesHold'
    <3>1. ASSUME NEW q \in Proc, pc'[q] = "delete"
          PROVE  /\ q # p /\ pc[q] = "delete" /\ op'[q] = op[q] /\ op[q].ids \subseteq Id
                 /\ op[q] # NoOp /\ op[q].kind = "delete"
      BY <1>1, <1>3, <3>1, OpsAre DEF TypeOK, Phases
    <3>2. ASSUME NEW q \in Proc, pc'[q] = "delete",
                 NEW n \in op[q].ids \ (todo[q] \cup marked[q])
          PROVE  IF driver = "mysql" THEN ~Present(n)' /\ \A r \in Proc : ~Writing(r, n)'
                 ELSE Present(n)' => n \in born'[q]
      <4>1. IF driver = "mysql" THEN ~Present(n) /\ \A r \in Proc : ~Writing(r, n)
            ELSE Present(n) => n \in born[q]
        BY <3>1, <3>2 DEF DeletesHold
      <4>2. CASE n # id
        BY <1>5, <2>3, <3>1, <3>2, <4>1, <4>2
      <4>3. CASE n = id
        <5>1. driver # "mysql"
          BY <2>1, <4>1, <4>3 DEF Writing
        <5>2. n \in born'[q]
          BY <1>5, <2>1, <2>8, <3>1, <3>2, <4>1, <4>3, <5>1
        <5>3. QED
          BY <5>1, <5>2
      <4>4. QED
        BY <4>2, <4>3
    <3>3. \A q \in Proc, n \in Id : n \in marked[q] => Present(n)'
      BY <2>1, <2>2, <2>3 DEF DeletesHold, Present, Phases
    <3>4. QED
      BY <1>2, <3>1, <3>2, <3>3 DEF DeletesHold, config
  <2>14. QED
    BY <2>4, <2>5, <2>6, <2>9, <2>10, <2>11, <2>12, <2>13
<1>8. QED
  BY <1>6, <1>7

LEMMA DeleteKeepsInv ==
  ASSUME GameStoreInv, TypeOK', NEW p \in Proc, DeleteRows(p)
  PROVE  GameStoreInv'
<1> USE GameStoreAssumption DEF GameStoreInv
<1>1. op[p] \in Ops /\ marked[p] \subseteq Id /\ pc[p] = "delete"
  BY DEF DeleteRows, TypeOK, Phases
<1>2. /\ UNCHANGED <<config, nextId, touched, pending, got, wanted>>
      /\ touched[p] = 0 /\ pending[p] = NoRow
      /\ todo'[p] = {} /\ marked'[p] = {}
      /\ \A q \in Proc \ {p} : /\ todo'[q] = todo[q] /\ marked'[q] = marked[q]
                               /\ born[q] \subseteq born'[q]
  <2>1. /\ UNCHANGED <<config, nextId, touched, pending, got, wanted>> /\ Forget(p)
        /\ born' = Atomic!BornAfter(p, {})
    BY DEF DeleteRows
  <2>2. \A q \in Proc \ {p} : born[q] \subseteq born'[q]
    BY <2>1, BornSeen
  <2>3. QED
    BY <1>1, <2>1, <2>2 DEF Forget, TypeOK, Phases
<1>3. /\ pc'[p] = "idle" /\ op'[p] = NoOp
      /\ \A q \in Proc \ {p} : pc'[q] = pc[q] /\ op'[q] = op[q]
  BY DEF DeleteRows, Leave, Goto, TypeOK
<1>4. \A id \in Id : rows'[id] = IF id \in marked[p] THEN Deleted ELSE rows[id]
  BY DEF DeleteRows
<1>5. /\ \A q \in Proc \ {p} : Past(q)' = Past(q)
      /\ ~Past(p)'
      /\ \A q \in Proc, id \in Id : Writing(q, id)' => q # p /\ Writing(q, id)
      /\ \A id \in Id : Present(id)' => Present(id) /\ rows'[id] = rows[id]
      /\ \A id \in Id : rows'[id] = Unborn <=> rows[id] = Unborn
      /\ \A r, o : Merge(r, o)' = Merge(r, o)
  <2>1. \A id \in marked[p] : Present(id) /\ rows[id] # Unborn
    BY <1>1, RowsAre DEF DeletesHold, Present
  <2>2. QED
    BY <1>2, <1>3, <1>4, <2>1, RowsAre DEF Past, Writing, Present, Merge, Atomic!Merge
<1>6. ASSUME NEW q \in Proc \ {p}, pending[q] # NoRow
      PROVE  touched[q] \in Id /\ rows'[touched[q]] = rows[touched[q]]
  <2>1. touched[q] \in Id
    BY <1>6 DEF OneWriter, TypeOK
  <2>2. touched[q] \notin marked[p]
    BY <1>6, <2>1 DEF OneWriter, Writing
  <2>3. QED
    BY <1>4, <2>1, <2>2
<1>7. Phases'
  BY <1>2, <1>3 DEF Phases
<1>8. IdsAreFresh' /\ LastSuppliedFieldsWin'
  BY <1>2, <1>5 DEF IdsAreFresh, LastSuppliedFieldsWin
<1>9. OneWriter'
  BY <1>2, <1>5 DEF OneWriter
<1>10. CreationsHold'
  <2>1. ASSUME NEW q \in Proc \ {p}, Past(q), op[q].kind = "create"
        PROVE  /\ pending[q] = [name |-> op[q].name, desc |-> op[q].desc]
               /\ rows'[touched[q]] = Unborn
    <3>1. pending[q] = [name |-> op[q].name, desc |-> op[q].desc] /\ rows[touched[q]] = Unborn
      BY <2>1 DEF CreationsHold
    <3>2. op[q] \in Ops
      BY <2>1 DEF TypeOK, Phases, Past
    <3>3. pending[q] # NoRow
      BY <2>1, <3>1, <3>2, OpsAre, RowsAre
    <3>4. QED
      BY <1>6, <3>1, <3>3
  <2>2. QED
    BY <1>2, <1>3, <1>5, <2>1 DEF CreationsHold
<1>11. UpdatesHold'
  <2>1. ASSUME NEW q \in Proc \ {p}, Past(q), op[q].kind = "update", pending[q] # NoRow,
               NEW n \in op[q].ids
        PROVE  touched[q] = n /\ rows'[n] \in Row /\ pending[q] = Merge(rows'[n], op[q])
    <3>1. touched[q] = n /\ Present(n) /\ pending[q] = Merge(rows[n], op[q])
      BY <2>1 DEF UpdatesHold
    <3>2. QED
      BY <1>6, <2>1, <3>1 DEF Present
  <2>2. Row' = Row
    BY DEF Row, Atomic!Row
  <2>3. QED
    BY <1>2, <1>3, <1>5, <2>1, <2>2 DEF UpdatesHold, Present
<1>12. MissesAreLate'
  <2>1. ASSUME NEW q \in Proc \ {p}, Past(q), op[q].kind = "update", pending[q] = NoRow,
               NEW n \in op[q].ids
        PROVE  /\ touched[q] \in {0, n}
               /\ IF driver = "mysql"
                  THEN /\ pc[q] = "read" /\ touched[q] = n /\ ~Present(n)'
                       /\ \A r \in Proc : ~Writing(r, n)'
                  ELSE Present(n)' \/ pc[q] = "commit" => n \in born'[q]
    <3>1. /\ touched[q] \in {0, n}
          /\ IF driver = "mysql"
             THEN pc[q] = "read" /\ touched[q] = n /\ ~Present(n) /\ \A r \in Proc : ~Writing(r, n)
             ELSE Present(n) \/ pc[q] = "commit" => n \in born[q]
      BY <2>1 DEF MissesAreLate
    <3>2. op[q] \in Ops
      BY <2>1 DEF TypeOK, Phases, Past
    <3>3. n \in Id
      BY <2>1, <3>2, OpsAre
    <3>4. QED
      BY <1>2, <1>5, <3>1, <3>3
  <2>2. QED
    BY <1>2, <1>3, <1>5, <2>1 DEF MissesAreLate, config
<1>13. DeletesHold'
  <2>1. ASSUME NEW q \in Proc, pc'[q] = "delete"
        PROVE  /\ q # p /\ pc[q] = "delete" /\ op'[q] = op[q] /\ op[q].ids \subseteq Id
               /\ marked[q] \subseteq Id
    BY <1>3, <2>1, OpsAre DEF TypeOK, Phases
  <2>2. ASSUME NEW q \in Proc, pc'[q] = "delete", NEW id \in marked[q]
        PROVE  Present(id)'
    <3>1. id \in Id /\ Present(id) /\ id \notin marked[p]
      BY <2>1, <2>2 DEF DeletesHold, OneWriter, Writing
    <3>2. QED
      BY <1>4, <3>1 DEF Present, Row, Atomic!Row
  <2>3. QED
    BY <1>2, <1>5, <2>1, <2>2 DEF DeletesHold, config
<1>14. ReadsAreOwn'
  BY <1>2, <1>3 DEF ReadsAreOwn
<1>15. QED
  BY <1>7, <1>8, <1>9, <1>10, <1>11, <1>12, <1>13, <1>14

LEMMA StartKeepsInv ==
  ASSUME GameStoreInv, TypeOK', NEW p \in Proc, StartDelete(p)
  PROVE  GameStoreInv'
<1> USE DEF GameStoreInv
<1>1. /\ UNCHANGED <<config, rows, nextId, op, touched, pending, got, marked, wanted, born>>
      /\ touched[p] = 0 /\ pending[p] = NoRow /\ marked[p] = {} /\ op[p].kind = "delete"
      /\ pc[p] = "statement" /\ pc'[p] = "delete" /\ todo'[p] = Candidates(p)
      /\ \A q \in Proc \ {p} : pc'[q] = pc[q] /\ todo'[q] = todo[q]
  BY DEF StartDelete, Goto, TypeOK, Phases
<1>2. /\ \A q \in Proc : Past(q)' = Past(q)
      /\ \A q, id : Writing(q, id)' = Writing(q, id)
      /\ \A id : Present(id)' = Present(id)
      /\ \A r, o : Merge(r, o)' = Merge(r, o)
  BY <1>1 DEF Past, Writing, Present, Merge, Atomic!Merge
<1>3. Phases'
  BY <1>1 DEF Phases
<1>4. IdsAreFresh' /\ OneWriter' /\ LastSuppliedFieldsWin'
  BY <1>1, <1>2 DEF IdsAreFresh, OneWriter, LastSuppliedFieldsWin
<1>5. CreationsHold' /\ UpdatesHold'
  BY <1>1, <1>2 DEF CreationsHold, UpdatesHold
<1>6. MissesAreLate'
  BY <1>1, <1>2 DEF MissesAreLate, config, Past
<1>7. DeletesHold'
  <2>1. /\ Candidates(p) \subseteq op[p].ids
        /\ driver = "mysql" => Candidates(p) = op[p].ids
        /\ driver # "mysql" => \A id \in op[p].ids \ Candidates(p) : ~Present(id)
    BY DEF Candidates
  <2>2. QED
    BY <1>1, <1>2, <2>1 DEF DeletesHold, config
<1>8. ReadsAreOwn'
  BY <1>1 DEF ReadsAreOwn
<1>9. QED
  BY <1>3, <1>4, <1>5, <1>6, <1>7, <1>8

LEMMA VisitKeepsInv ==
  ASSUME GameStoreInv, TypeOK', NEW p \in Proc, VisitRow(p)
  PROVE  GameStoreInv'
<1> USE DEF GameStoreInv
<1>1. /\ UNCHANGED <<config, rows, nextId, pc, op, touched, pending, got, wanted, born>>
      /\ touched[p] = 0 /\ pending[p] = NoRow /\ pc[p] = "delete" /\ op[p] \in Ops
      /\ op[p].ids \subseteq Id
  BY OpsAre DEF VisitRow, TypeOK, Phases
<1>2. PICK id \in todo[p] :
        /\ Unlocked(p, id)
        /\ todo'[p] = todo[p] \ {id}
        /\ marked'[p] = IF Present(id) THEN marked[p] \cup {id} ELSE marked[p]
        /\ \A q \in Proc \ {p} : todo'[q] = todo[q] /\ marked'[q] = marked[q]
  BY DEF VisitRow, TypeOK
<1>3. /\ id \in Id /\ id \in op[p].ids /\ id \notin marked[p]
      /\ Present(id) => \A q \in Proc \ {p} : ~Writing(q, id)
      /\ driver = "mysql" => \A q \in Proc \ {p} : ~Writing(q, id)
  BY <1>1, <1>2 DEF Unlocked, DeletesHold
<1>4. /\ \A q \in Proc : Past(q)' = Past(q)
      /\ \A q \in Proc, n \in Id : Writing(q, n)' => Writing(q, n) \/ (q = p /\ n = id /\ Present(id))
      /\ \A n : Present(n)' = Present(n)
      /\ \A r, o : Merge(r, o)' = Merge(r, o)
  BY <1>1, <1>2 DEF Past, Writing, Present, Merge, Atomic!Merge
<1>5. Phases'
  BY <1>1, <1>2 DEF Phases
<1>6. IdsAreFresh' /\ LastSuppliedFieldsWin'
  BY <1>1, <1>4 DEF IdsAreFresh, LastSuppliedFieldsWin
<1>7. OneWriter'
  <2>1. \A q \in Proc, r \in Proc, n \in Id : Writing(q, n)' /\ Writing(r, n)' => q = r
    BY <1>3, <1>4 DEF OneWriter
  <2>2. QED
    BY <1>1, <2>1 DEF OneWriter
<1>8. CreationsHold' /\ UpdatesHold'
  BY <1>1, <1>4 DEF CreationsHold, UpdatesHold
<1>9. MissesAreLate'
  <2>1. \A q \in Proc : Past(q) /\ op[q].kind = "update" => op[q].ids \subseteq Id
    BY OpsAre DEF TypeOK, Phases, Past
  <2>2. QED
    BY <1>1, <1>4, <2>1 DEF MissesAreLate, config, Past
<1>10. DeletesHold'
  <2>1. ASSUME NEW q \in Proc, pc[q] = "delete", NEW n \in op[q].ids \ (todo'[q] \cup marked'[q])
        PROVE  IF driver = "mysql" THEN ~Present(n) /\ \A r \in Proc : ~Writing(r, n)'
               ELSE Present(n) => n \in born[q]
    <3>1. n \in Id
      BY <2>1, OpsAre DEF TypeOK, Phases
    <3>2. CASE q = p /\ n = id
      <4>1. ~Present(id)
        BY <1>2, <2>1, <3>2
      <4>2. driver = "mysql" => ~Writing(p, id)
        BY <1>1, <1>3 DEF Writing
      <4>3. QED
        BY <1>3, <1>4, <3>2, <4>1, <4>2
    <3>3. CASE ~(q = p /\ n = id)
      <4>1. IF driver = "mysql" THEN ~Present(n) /\ \A r \in Proc : ~Writing(r, n)
            ELSE Present(n) => n \in born[q]
        BY <1>2, <2>1, <3>3 DEF DeletesHold
      <4>2. QED
        BY <1>4, <3>1, <4>1
    <3>4. QED
      BY <3>2, <3>3
  <2>2. ASSUME NEW q \in Proc, pc[q] = "delete"
        PROVE  /\ todo'[q] \subseteq op[q].ids /\ marked'[q] \subseteq op[q].ids \ todo'[q]
               /\ \A n \in marked'[q] : Present(n)
    BY <1>2, <1>3, <2>2 DEF DeletesHold
  <2>3. QED
    BY <1>1, <1>4, <2>1, <2>2 DEF DeletesHold, config
<1>11. ReadsAreOwn'
  BY <1>1 DEF ReadsAreOwn
<1>12. QED
  BY <1>5, <1>6, <1>7, <1>8, <1>9, <1>10, <1>11

LEMMA InitGameStoreInv == Init => GameStoreInv
<1> SUFFICES ASSUME Init PROVE GameStoreInv
  OBVIOUS
<1> USE GameStoreAssumption DEF Init
<1>1. Reply("none", NoRow) \in [kind : {"none", "ok", "invalid", "notfound", "error"},
                                 value : Row \cup {NoRow}]
  BY DEF Reply, Atomic!Reply
<1>2. PICK row \in Row : /\ rows = [id \in Id |-> IF id = 1 THEN row ELSE Unborn]
                         /\ wanted = [id \in Id |-> IF id = 1 THEN row ELSE NoRow]
  OBVIOUS
<1>3. TypeOK
  BY <1>1, <1>2 DEF TypeOK, Id
<1>4. Phases /\ OneWriter /\ CreationsHold /\ UpdatesHold /\ MissesAreLate /\ DeletesHold /\ ReadsAreOwn
  BY DEF Phases, OneWriter, CreationsHold, UpdatesHold, MissesAreLate, DeletesHold, ReadsAreOwn, Past,
         Writing
<1>5. IdsAreFresh /\ LastSuppliedFieldsWin
  BY <1>2, RowsAre DEF IdsAreFresh, LastSuppliedFieldsWin, Present, Id
<1>6. QED
  BY <1>3, <1>4, <1>5 DEF GameStoreInv
-----------------------------------------------------------------------------
LEMMA NextGameStoreInv ==
  ASSUME GameStoreInv, [Next]_vars
  PROVE  GameStoreInv'
<1>1. TypeOK /\ Phases /\ TypeOK'
  BY NextTypeOK DEF GameStoreInv
<1>2. ASSUME NEW p \in Proc, NEW o \in Ops, Call(p, o) PROVE GameStoreInv'
  <2>1. /\ UNCHANGED <<config, rows, nextId, touched, pending, got, todo, marked, wanted, born>>
        /\ touched[p] = 0 /\ pending[p] = NoRow /\ todo[p] = {} /\ marked[p] = {}
        /\ op'[p] = o /\ pc'[p] = IF o.kind \in {"create", "update"} THEN "begin" ELSE "statement"
        /\ \A q \in Proc \ {p} : op'[q] = op[q] /\ pc'[q] = pc[q]
    BY <1>1, <1>2 DEF Call, Goto, TypeOK, Phases, scan
  <2>2. o # NoOp /\ o.kind \in {"create", "update", "delete", "get"}
    BY OpsAre
  <2>3. QED
    BY <1>1, <2>1, <2>2, TableIsLeftAlone DEF config, Past
<1>3. ASSUME NEW p \in Proc, Reject(p) PROVE GameStoreInv'
  <2>1. /\ pc[p] = "idle"
        /\ UNCHANGED <<config, rows, nextId, pc, op, touched, pending, got, wanted, born>>
        /\ UNCHANGED <<todo, marked>>
    BY <1>3 DEF Reject, scan
  <2>2. QED
    BY <1>1, <2>1, TableIsLeftAlone DEF config, Past, Phases
<1>4. ASSUME NEW p \in Proc, BeginTx(p) PROVE GameStoreInv'
  <2>1. /\ UNCHANGED <<config, rows, nextId, op, touched, pending, got, todo, marked, wanted, born>>
        /\ pc[p] = "begin" /\ pc'[p] = "write" /\ \A q \in Proc \ {p} : pc'[q] = pc[q]
    BY <1>1, <1>4 DEF BeginTx, Goto, TypeOK, scan
  <2>2. QED
    BY <1>1, <2>1, TableIsLeftAlone DEF config, Past, Phases
<1>5. ASSUME NEW p \in Proc, Fail(p) PROVE GameStoreInv'
  <2>1. /\ UNCHANGED <<config, rows, nextId, touched, pending, got, wanted>>
        /\ born' = Atomic!BornAfter(p, {})
        /\ todo'[p] = {} /\ marked'[p] = {}
        /\ \A q \in Proc \ {p} : todo'[q] = todo[q] /\ marked'[q] = marked[q]
    BY <1>1, <1>5 DEF Fail, Break, Forget, TypeOK
  <2>2. \A q \in Proc \ {p} : born[q] \subseteq born'[q]
    BY <1>1, <2>1, BornSeen
  <2>3. CASE pc[p] \in {"write", "read"}
    <3>1. /\ op' = op /\ pc'[p] = "unwind" /\ \A q \in Proc \ {p} : pc'[q] = pc[q]
      BY <1>1, <1>5, <2>3 DEF Fail, Break, Goto, TypeOK
    <3>2. QED
      BY <1>1, <2>1, <2>2, <2>3, <3>1, TableIsLeftAlone DEF config, Past, Phases
  <2>4. CASE pc[p] \notin {"write", "read"}
    <3>1. /\ op'[p] = NoOp /\ pc'[p] = "idle" /\ pc[p] \in {"begin", "statement", "delete"}
          /\ \A q \in Proc \ {p} : pc'[q] = pc[q] /\ op'[q] = op[q]
      BY <1>1, <1>5, <2>4 DEF Fail, Break, Leave, Goto, TypeOK
    <3>2. QED
      BY <1>1, <2>1, <2>2, <3>1, TableIsLeftAlone DEF config, Past, Phases
  <2>5. QED
    BY <2>3, <2>4
<1>6. ASSUME NEW p \in Proc, Unwind(p) PROVE GameStoreInv'
  <2>1. /\ UNCHANGED <<config, rows, nextId, todo, marked, wanted, born>>
        /\ todo[p] = {} /\ marked[p] = {}
        /\ op'[p] = NoOp /\ pc'[p] = "idle" /\ touched'[p] = 0 /\ pending'[p] = NoRow
        /\ \A q \in Proc \ {p} : /\ pc'[q] = pc[q] /\ op'[q] = op[q] /\ got'[q] = got[q]
                                 /\ touched'[q] = touched[q] /\ pending'[q] = pending[q]
    BY <1>1, <1>6 DEF Unwind, Undo, Release, Leave, Goto, TypeOK, Phases, scan
  <2>2. QED
    BY <1>1, <2>1, TableIsLeftAlone DEF config, Past
<1>7. ASSUME NEW p \in Proc, GetRow(p) PROVE GameStoreInv'
  <2>1. /\ UNCHANGED <<config, rows, nextId, touched, pending, got, todo, marked, wanted, born>>
        /\ op'[p] = NoOp /\ pc'[p] = "idle" /\ touched[p] = 0 /\ pending[p] = NoRow
        /\ todo[p] = {} /\ marked[p] = {}
        /\ \A q \in Proc \ {p} : pc'[q] = pc[q] /\ op'[q] = op[q]
    BY <1>1, <1>7 DEF GetRow, Leave, Goto, TypeOK, Phases, scan
  <2>2. QED
    BY <1>1, <2>1, TableIsLeftAlone DEF config, Past
<1>8. CASE UNCHANGED vars
  <2>1. GameStoreInv' <=> GameStoreInv
    BY <1>8 DEF vars, config, scan, GameStoreInv, TypeOK, Phases, IdsAreFresh, OneWriter, Writing,
                CreationsHold, UpdatesHold, MissesAreLate, DeletesHold, ReadsAreOwn,
                LastSuppliedFieldsWin, Past, Present, Merge, Atomic!Merge
  <2>2. QED
    BY <2>1
<1>9. QED
  BY <1>1, <1>2, <1>3, <1>4, <1>5, <1>6, <1>7, <1>8, InsertKeepsInv, UpdateKeepsInv,
     ReadKeepsInv, CommitKeepsInv, StartKeepsInv, VisitKeepsInv, DeleteKeepsInv,
     DeadlocksAreFailures DEF Next, Step

LEMMA AlwaysGameStoreInv == Spec => []GameStoreInv
<1>1. Init => GameStoreInv
  BY InitGameStoreInv
<1>2. GameStoreInv /\ [Next]_vars => GameStoreInv'
  BY NextGameStoreInv
<1>3. QED
  BY <1>1, <1>2, PTL DEF Spec

(***************************************************************************)
(* The fields of every row are the last ones a committed operation         *)
(* supplied, however the transactions of the calls interleave and end.     *)
(***************************************************************************)
THEOREM NoUpdateIsLost == Spec => []LastSuppliedFieldsWin
<1>1. GameStoreInv => LastSuppliedFieldsWin
  BY DEF GameStoreInv
<1>2. QED
  BY <1>1, AlwaysGameStoreInv, PTL

(***************************************************************************)
(* No path out of a call leaves a transaction, a lock or a row behind.     *)
(***************************************************************************)
THEOREM CallsLeaveNothingBehind == Spec => []IdleHoldsNothing
<1>1. GameStoreInv => IdleHoldsNothing
  BY DEF GameStoreInv, TypeOK, Phases, IdleHoldsNothing, InTx
<1>2. QED
  BY <1>1, AlwaysGameStoreInv, PTL
-----------------------------------------------------------------------------
(* The refinement.  What the caller sees of p's operation: *)
Seen == [p \in Proc |-> IF pc[p] = "unwind" THEN NoOp ELSE op[p]]

LEMMA SeenReturns ==
  ASSUME TypeOK, NEW p \in Proc, Leave(p) \/ (Goto(p, "unwind") /\ op' = op)
  PROVE  Seen' = [Seen EXCEPT ![p] = NoOp]
BY DEF Seen, Leave, Goto, TypeOK

LEMMA SeenGoesOn ==
  ASSUME TypeOK, NEW p \in Proc, NEW label, Goto(p, label), label # "unwind",
         pc[p] # "unwind", op' = op
  PROVE  Seen' = Seen
BY DEF Seen, Goto, TypeOK

LEMMA SeenIs ==
  ASSUME TypeOK, Phases, NEW p \in Proc
  PROVE  /\ pc[p] \notin {"idle", "unwind"} => Seen[p] = op[p] /\ op[p] \in Ops /\ op[p] # NoOp
         /\ pc[p] \in {"idle", "unwind"} => Seen[p] = NoOp
BY DEF Seen, TypeOK, Phases

(***************************************************************************)
(* Each step of the statements is a step of GameRows or none.              *)
(***************************************************************************)
LEMMA CommitIsAtomic ==
  ASSUME GameStoreInv, NEW p \in Proc, Commit(p)
  PROVE  Atomic!Create(p) \/ Atomic!Update(p) \/ Atomic!UpdateMissed(p) \/ Atomic!Fail(p)
<1> USE GameStoreAssumption
<1>1. /\ TypeOK /\ Phases /\ pc[p] = "commit" /\ Leave(p) /\ UNCHANGED <<config, nextId>>
      /\ Past(p)
  BY DEF GameStoreInv, Commit, Past
<1>2. /\ Seen[p] = op[p] /\ op[p] \in Ops /\ op[p] # NoOp
      /\ Seen' = [Seen EXCEPT ![p] = NoOp] /\ driver' = driver
  BY <1>1, SeenIs, SeenReturns DEF config
<1>3. op[p].kind \in {"create", "update"} /\ got[p] \in Row
  BY <1>1, CommittedIsSupplied
<1>4. CASE Result(p, Reply("error", NoRow)) /\ born' = Atomic!BornAfter(p, {})
           /\ UNCHANGED <<rows, wanted>>
  BY <1>2, <1>4 DEF Atomic!Fail, Atomic!Return, Seen, Result, Reply
<1>5. CASE /\ IF pending[p] = NoRow THEN UNCHANGED <<rows, wanted>>
              ELSE rows' = [rows EXCEPT ![touched[p]] = pending[p]]
           /\ born' = Atomic!BornAfter(p, IF op[p].kind = "create" THEN {touched[p]} ELSE {})
           /\ \/ Result(p, Reply("ok", got[p]))
              \/ Result(p, Reply("error", NoRow))
  <2>1. Atomic!ReturnDone(p, got[p])
    BY <1>2, <1>5 DEF Atomic!ReturnDone, Atomic!Return, Seen, Result, Reply
  <2>2. CASE op[p].kind = "create"
    <3>1. /\ touched[p] \in Id /\ pending[p] # NoRow /\ got[p] = pending[p]
          /\ rows[touched[p]] = Unborn
          /\ pending[p] = [name |-> op[p].name, desc |-> op[p].desc]
      BY <1>1, <2>2, CommittedIsSupplied DEF GameStoreInv, ReadsAreOwn, CreationsHold
    <3>2. rows' = [rows EXCEPT ![touched[p]] = pending[p]]
          /\ born' = Atomic!BornAfter(p, {touched[p]})
      BY <1>5, <2>2, <3>1
    <3>3. Atomic!Create(p)
      BY <1>2, <2>1, <2>2, <3>1, <3>2 DEF Atomic!Create, Seen
    <3>4. QED
      BY <3>3
  <2>3. CASE op[p].kind = "update"
    <3>1. PICK id \in Id : op[p].ids = {id}
      BY <1>2, <2>3, OpsAre
    <3>2. born' = Atomic!BornAfter(p, {})
      BY <1>5, <2>3
    <3>3. Seen[p] # NoOp /\ Seen[p].kind = "update"
      BY <1>2, <2>3
    <3>4. CASE pending[p] # NoRow
      <4>1. /\ touched[p] = id /\ Present(id) /\ pending[p] = Merge(rows[id], op[p])
            /\ got[p] = pending[p]
        BY <1>1, <2>3, <3>1, <3>4 DEF GameStoreInv, UpdatesHold, ReadsAreOwn
      <4>2. rows' = [rows EXCEPT ![id] = Atomic!Merge(rows[id], op[p])]
        BY <1>5, <3>4, <4>1 DEF Merge
      <4>3. Atomic!ReturnDone(p, Atomic!Merge(rows[id], op[p]))
        BY <2>1, <4>1 DEF Merge
      <4>4. /\ Atomic!ReturnDone(p, Atomic!Merge(rows[id], Seen[p])) /\ id \in Seen[p].ids
            /\ rows' = [rows EXCEPT ![id] = Atomic!Merge(rows[id], Seen[p])]
        BY <1>2, <3>1, <4>2, <4>3
      <4>5. Atomic!Update(p)
        BY <1>2, <3>2, <3>3, <4>1, <4>4 DEF Atomic!Update, Atomic!Present, Present, Row, Seen
      <4>6. QED
        BY <4>5
    <3>5. CASE pending[p] = NoRow
      <4>1. driver # "mysql" /\ id \in born[p]
        BY <1>1, <2>3, <3>1, <3>5 DEF GameStoreInv, MissesAreLate
      <4>2. driver = "postgres" /\ rows' = rows
        BY <1>1, <1>5, <3>5, <4>1 DEF TypeOK
      <4>3. Atomic!UpdateMissed(p)
        BY <1>2, <1>3, <2>1, <3>1, <3>2, <3>3, <4>1, <4>2
           DEF Atomic!UpdateMissed, Atomic!Missable, Seen, Row
      <4>4. QED
        BY <4>3
    <3>6. QED
      BY <3>4, <3>5
  <2>4. QED
    BY <1>3, <2>2, <2>3
<1>6. QED
  BY <1>4, <1>5 DEF Commit

LEMMA ReadBackIsAtomic ==
  ASSUME GameStoreInv, NEW p \in Proc, ReadBack(p)
  PROVE  Atomic!NotFound(p) \/ UNCHANGED <<driver, rows, Seen, born, res>>
<1>1. /\ TypeOK /\ Phases /\ pc[p] = "read" /\ op' = op
      /\ UNCHANGED <<driver, rows>>
  BY DEF GameStoreInv, ReadBack, config
<1>2. Seen[p] = op[p] /\ op[p] # NoOp
  BY <1>1, SeenIs
<1>3. CASE Visible(p, Target(p)) \in Row
  <2>1. Goto(p, "commit") /\ UNCHANGED <<res, born>>
    BY <1>3 DEF ReadBack
  <2>2. Seen' = Seen
    BY <1>1, <2>1, SeenGoesOn
  <2>3. QED
    BY <1>1, <2>1, <2>2
<1>4. CASE Visible(p, Target(p)) \notin Row
  <2>1. /\ Goto(p, "unwind") /\ Result(p, Reply("notfound", NoRow))
        /\ born' = Atomic!BornAfter(p, {})
    BY <1>4 DEF ReadBack
  <2>2. Seen' = [Seen EXCEPT ![p] = NoOp]
    BY <1>1, <2>1, SeenReturns
  <2>3. pending[p] = NoRow
    BY <1>4, ReadBackReadsOwn
  <2>4. op[p].kind = "update" /\ \A id \in op[p].ids : rows[id] \notin Row
    BY <1>4, <2>3, ReadBackReadsOwn
  <2>5. Atomic!NotFound(p)
    BY <1>1, <1>2, <2>1, <2>2, <2>4
       DEF Atomic!NotFound, Atomic!Found, Atomic!Return, Atomic!Present, Seen, Row, Result, Reply
  <2>6. QED
    BY <2>5
<1>5. QED
  BY <1>3, <1>4

LEMMA NothingBornFor ==
  ASSUME GameRowsInv, NEW p \in Proc, pc[p] = "statement", op[p].kind = "get"
  PROVE  Atomic!BornAfter(p, {}) = born
<1>1. born[p] = {} /\ born \in [Proc -> SUBSET Id]
  BY DEF GameRowsInv, GameStoreInv, OnlyChangesSeeBirths, Atomic!Changing, Seen, Phases, TypeOK
<1>2. QED
  BY <1>1 DEF Atomic!BornAfter

LEMMA DeleteIsAtomic ==
  ASSUME GameRowsInv, NEW p \in Proc, DeleteRows(p)
  PROVE  Atomic!NotFound(p) \/ Atomic!Delete(p) \/ Atomic!Fail(p)
<1>1. /\ TypeOK /\ Phases /\ pc[p] = "delete" /\ op[p].kind = "delete" /\ Leave(p)
      /\ born' = Atomic!BornAfter(p, {}) /\ driver' = driver /\ DeletesHold
  BY DEF GameRowsInv, GameStoreInv, DeleteRows, config, Phases
<1>2. /\ Seen[p] = op[p] /\ op[p] \in Ops /\ op[p] # NoOp /\ op[p].ids \subseteq Id
      /\ Seen' = [Seen EXCEPT ![p] = NoOp]
  BY <1>1, SeenIs, SeenReturns, OpsAre
<1>3. rows' = [id \in Id |-> IF id \in marked[p] THEN Deleted ELSE rows[id]]
  BY DEF DeleteRows
<1> DEFINE missable == IF driver = "postgres" THEN born[p] ELSE {}
<1>4. /\ marked[p] \subseteq op[p].ids /\ \A id \in marked[p] : Present(id)
      /\ \A id \in op[p].ids \ marked[p] : Present(id) => id \in missable
  <2>1. todo[p] = {} /\ driver \in {"postgres", "mysql"}
    BY <1>1, GameStoreAssumption DEF DeleteRows, TypeOK
  <2>2. QED
    BY <1>1, <2>1 DEF DeletesHold
<1>5. CASE marked[p] # {}
  <2>1. Result(p, Reply("ok", NoRow)) \/ Result(p, Reply("error", NoRow))
    BY <1>5 DEF DeleteRows
  <2>2. Atomic!ReturnDone(p, NoRow)
    BY <1>2, <2>1 DEF Atomic!ReturnDone, Atomic!Return, Seen, Result, Reply
  <2> DEFINE missed == {id \in missable : id \notin marked[p]}
  <2>3. marked[p] = {id \in op[p].ids \ missed : Present(id)}
    BY <1>4
  <2>4. missed \in SUBSET missable
    OBVIOUS
  <2>5. Atomic!Found(p, missed) = marked[p] /\ missed \in SUBSET Atomic!Missable(p)
    BY <1>2, <2>3, <2>4 DEF Atomic!Found, Atomic!Missable, Atomic!Present, Present, Row, Seen
  <2> HIDE DEF missed
  <2>6. /\ Atomic!Found(p, missed) # {}
        /\ rows' = [id \in Id |-> IF id \in Atomic!Found(p, missed) THEN Deleted ELSE rows[id]]
    BY <1>3, <1>5, <2>5
  <2>7. Seen[p] # NoOp /\ Seen[p].kind = "delete"
    BY <1>1, <1>2
  <2>8. Atomic!Delete(p)
    BY <1>1, <2>2, <2>5, <2>6, <2>7 DEF Atomic!Delete, Seen
  <2>9. QED
    BY <2>8
<1>6. CASE marked[p] = {}
  <2>1. Result(p, Reply("notfound", NoRow)) \/ Result(p, Reply("error", NoRow))
    BY <1>6 DEF DeleteRows
  <2>2. rows' = rows
    BY <1>1, <1>3, <1>6 DEF TypeOK
  <2>3. CASE Result(p, Reply("error", NoRow))
    <3>1. Atomic!Fail(p)
      BY <1>1, <1>2, <2>2, <2>3 DEF Atomic!Fail, Atomic!Return, Seen, Result, Reply
    <3>2. QED
      BY <3>1
  <2>4. CASE Result(p, Reply("notfound", NoRow))
    <3>1. {id \in op[p].ids \ missable : Present(id)} = {}
      BY <1>4, <1>6
    <3>2. Atomic!Found(p, Atomic!Missable(p)) = {}
      BY <1>2, <3>1 DEF Atomic!Found, Atomic!Missable, Atomic!Present, Present, Row, Seen
    <3>3. Atomic!NotFound(p)
      BY <1>1, <1>2, <2>2, <2>4, <3>2
         DEF Atomic!NotFound, Atomic!Return, Seen, Result, Reply
    <3>4. QED
      BY <3>3
  <2>5. QED
    BY <2>1, <2>3, <2>4
<1>7. QED
  BY <1>5, <1>6

LEMMA GetIsAtomic ==
  ASSUME GameRowsInv, NEW p \in Proc, GetRow(p)
  PROVE  Atomic!NotFound(p) \/ Atomic!Get(p)
<1>1. /\ TypeOK /\ Phases /\ pc[p] = "statement" /\ op[p].kind = "get" /\ Leave(p)
      /\ born' = Atomic!BornAfter(p, {}) /\ UNCHANGED <<driver, rows>>
  BY NothingBornFor DEF GameRowsInv, GameStoreInv, GetRow, config
<1>2. /\ Seen[p] = op[p] /\ op[p] \in Ops /\ op[p] # NoOp
      /\ Seen' = [Seen EXCEPT ![p] = NoOp]
  BY <1>1, SeenIs, SeenReturns
<1>3. PICK id \in Id : op[p].ids = {id}
  BY <1>1, <1>2, OpsAre
<1>4. CASE Present(id)
  <2>1. Result(p, Reply("ok", rows[id]))
    BY <1>3, <1>4 DEF GetRow
  <2>2. Atomic!Get(p)
    BY <1>1, <1>2, <1>3, <1>4, <2>1
       DEF Atomic!Get, Atomic!Return, Atomic!Present, Present, Row, Seen, Result, Reply
  <2>3. QED
    BY <2>2
<1>5. CASE ~Present(id)
  <2>1. Result(p, Reply("notfound", NoRow))
    BY <1>3, <1>5 DEF GetRow
  <2>2. Atomic!NotFound(p)
    BY <1>1, <1>2, <1>3, <1>5, <2>1
       DEF Atomic!NotFound, Atomic!Found, Atomic!Return, Atomic!Present, Present, Row, Seen, Result, Reply
  <2>3. QED
    BY <2>2
<1>6. QED
  BY <1>4, <1>5

LEMMA StepIsAtomic ==
  ASSUME GameRowsInv, [Next]_vars
  PROVE  [Atomic!Next]_(Atomic!vars)
<1>1. TypeOK /\ Phases /\ GameStoreInv
  BY DEF GameRowsInv, GameStoreInv
<1>2. ASSUME UNCHANGED <<driver, rows, Seen, born, res>>
      PROVE  UNCHANGED Atomic!vars
  BY <1>2 DEF Atomic!vars, Seen
<1>3. ASSUME NEW p \in Proc, NEW o \in Ops, Call(p, o) PROVE Atomic!Call(p, o)
  <2>1. Seen[p] = NoOp
    BY <1>1, <1>3, SeenIs DEF Call
  <2>2. Seen' = [Seen EXCEPT ![p] = o]
    BY <1>1, <1>3 DEF Call, Goto, Seen, TypeOK
  <2>3. QED
    BY <1>3, <2>1, <2>2 DEF Call, Atomic!Call, Result, Reply, Seen, config
<1>4. ASSUME NEW p \in Proc, Reject(p) PROVE Atomic!Reject(p)
  <2>1. Seen[p] = NoOp /\ Seen' = Seen
    BY <1>1, <1>4, SeenIs DEF Reject, Seen
  <2>2. QED
    BY <1>4, <2>1 DEF Reject, Atomic!Reject, Result, Reply, Seen, config
<1>5. ASSUME NEW p \in Proc, Fail(p) PROVE Atomic!Fail(p)
  <2>1. Seen[p] # NoOp
    BY <1>1, <1>5, SeenIs DEF Fail
  <2>2. Seen' = [Seen EXCEPT ![p] = NoOp]
    BY <1>1, <1>5, SeenReturns DEF Fail, Break
  <2>3. QED
    BY <1>5, <2>1, <2>2 DEF Fail, Break, Atomic!Fail, Atomic!Return, Result, Reply, Seen, config
<1>6. ASSUME NEW p \in Proc, BeginTx(p) \/ Insert(p) \/ UpdateRow(p) \/ StartDelete(p)
      PROVE  UNCHANGED Atomic!vars
  <2>1. /\ UNCHANGED <<driver, rows, op, born, res>> /\ pc[p] # "unwind"
        /\ Goto(p, "write") \/ Goto(p, "read") \/ Goto(p, "delete")
    BY <1>6 DEF BeginTx, Insert, UpdateRow, StartDelete, config
  <2>2. Seen' = Seen
    BY <1>1, <2>1, SeenGoesOn
  <2>3. QED
    BY <1>2, <2>1, <2>2
<1>7. ASSUME NEW p \in Proc, Unwind(p) PROVE UNCHANGED Atomic!vars
  <2>1. Seen' = Seen
    BY <1>1, <1>7 DEF Unwind, Leave, Goto, Seen, TypeOK
  <2>2. QED
    BY <1>2, <1>7, <2>1 DEF Unwind, Undo, config
<1>8. ASSUME NEW p \in Proc, VisitRow(p) PROVE UNCHANGED Atomic!vars
  <2>1. UNCHANGED <<driver, rows, op, pc, born, res>>
    BY <1>8 DEF VisitRow, config
  <2>2. QED
    BY <2>1 DEF Atomic!vars
<1>9. CASE UNCHANGED vars
  BY <1>2, <1>9 DEF vars, config, Seen
<1>10. Ops = Atomic!Ops
  BY DEF Ops
<1>11. QED
  <2>1. CASE \E p \in Proc : ReadBack(p)
    BY <1>1, <1>2, <2>1, ReadBackIsAtomic DEF Atomic!Next
  <2>2. CASE \E p \in Proc : Commit(p) \/ DeleteRows(p) \/ GetRow(p)
    BY <1>1, <2>2, CommitIsAtomic, DeleteIsAtomic, GetIsAtomic DEF Atomic!Next
  <2>3. CASE \E p \in Proc : \E o \in Ops : Call(p, o)
    BY <1>3, <1>10, <2>3 DEF Atomic!Next
  <2>4. CASE \E p \in Proc : Reject(p) \/ Fail(p) \/ BreakDeadlock(p)
    BY <1>1, <1>4, <1>5, <2>4, DeadlocksAreFailures DEF Atomic!Next
  <2>5. CASE \E p \in Proc : BeginTx(p) \/ Insert(p) \/ UpdateRow(p) \/ Unwind(p)
                          \/ StartDelete(p) \/ VisitRow(p)
    BY <1>6, <1>7, <1>8, <2>5
  <2>6. QED
    BY <1>9, <2>1, <2>2, <2>3, <2>4, <2>5 DEF Next, Step

LEMMA NextGameRowsInv ==
  ASSUME GameRowsInv, [Next]_vars
  PROVE  GameRowsInv'
<1>1. TypeOK /\ GameStoreInv /\ OnlyChangesSeeBirths /\ GameStoreInv'
  BY NextGameStoreInv DEF GameRowsInv, GameStoreInv
<1>2. Seen \in [Proc -> Ops \cup {NoOp}]
  BY <1>1 DEF Seen, TypeOK
<1>3. SUFFICES ASSUME NEW q \in Proc, ~(Seen'[q] # NoOp /\ Seen'[q].kind \in {"update", "delete"})
               PROVE  born'[q] = {}
  BY <1>1 DEF GameRowsInv, OnlyChangesSeeBirths, Atomic!Changing, Seen
<1>4. ~(Seen[q] # NoOp /\ Seen[q].kind \in {"update", "delete"}) => born[q] = {}
  BY <1>1 DEF OnlyChangesSeeBirths, Atomic!Changing, Seen
<1>5. CASE UNCHANGED Atomic!vars
  <2>1. Seen' = Seen /\ born' = born
    BY <1>5 DEF Atomic!vars, Seen
  <2>2. QED
    BY <1>3, <1>4, <2>1
<1>6. ASSUME NEW p \in Proc, NEW o \in Atomic!Ops, Atomic!Call(p, o) PROVE born'[q] = {}
  <2>1. Seen[p] = NoOp /\ Seen' = [Seen EXCEPT ![p] = o] /\ born' = born
    BY <1>6 DEF Atomic!Call, Seen
  <2>2. QED
    BY <1>2, <1>3, <1>4, <2>1
<1>7. ASSUME NEW p \in Proc, Atomic!Reject(p) PROVE born'[q] = {}
  <2>1. Seen' = Seen /\ born' = born
    BY <1>7 DEF Atomic!Reject, Seen
  <2>2. QED
    BY <1>3, <1>4, <2>1
<1>8. ASSUME NEW p \in Proc, Seen' = [Seen EXCEPT ![p] = NoOp],
             NEW new, born' = Atomic!BornAfter(p, new)
      PROVE  born'[q] = {}
  <2>1. CASE q = p
    BY <1>8, <2>1 DEF Atomic!BornAfter
  <2>2. CASE q # p
    <3>1. ~Atomic!Changing(q) /\ born[q] = {}
      BY <1>2, <1>3, <1>4, <1>8, <2>2 DEF Atomic!Changing, Seen
    <3>2. QED
      BY <1>8, <2>2, <3>1 DEF Atomic!BornAfter
  <2>3. QED
    BY <2>1, <2>2
<1>9. ASSUME NEW p \in Proc,
             Atomic!Create(p) \/ Atomic!Update(p) \/ Atomic!UpdateMissed(p) \/ Atomic!Delete(p)
               \/ Atomic!Get(p) \/ Atomic!NotFound(p) \/ Atomic!Fail(p)
      PROVE  born'[q] = {}
  <2>1. Seen' = [Seen EXCEPT ![p] = NoOp]
    BY <1>9 DEF Atomic!Create, Atomic!Update, Atomic!UpdateMissed, Atomic!Delete, Atomic!Get,
                Atomic!NotFound, Atomic!Fail, Atomic!ReturnDone, Atomic!Return, Seen
  <2>2. \E new : born' = Atomic!BornAfter(p, new)
    BY <1>9 DEF Atomic!Create, Atomic!Update, Atomic!UpdateMissed, Atomic!Delete, Atomic!Get,
                Atomic!NotFound, Atomic!Fail
  <2>3. QED
    BY <1>8, <2>1, <2>2
<1>10. QED
  BY <1>5, <1>6, <1>7, <1>9, StepIsAtomic DEF Atomic!Next

LEMMA InitIsAtomic == Init => Atomic!Init /\ GameRowsInv
<1> SUFFICES ASSUME Init PROVE Atomic!Init /\ GameRowsInv
  OBVIOUS
<1>1. GameStoreInv
  BY InitGameStoreInv
<1>2. Seen = [p \in Proc |-> NoOp]
  BY DEF Init, Seen
<1>3. rows \in [Id -> Row \cup {Unborn}] /\ driver \in {"postgres", "mysql"}
  BY GameStoreAssumption DEF Init
<1>4. Atomic!Init
  BY <1>2, <1>3 DEF Init, Atomic!Init, Row, Reply, Seen
<1>5. OnlyChangesSeeBirths
  BY DEF Init, OnlyChangesSeeBirths
<1>6. QED
  BY <1>1, <1>4, <1>5 DEF GameRowsInv

(***************************************************************************)
(* The game module implements GameRows: every operation takes effect in    *)
(* one step and its result is true of that step, whatever happens to its   *)
(* transaction, for any number of calls, rows and connections.             *)
(***************************************************************************)
THEOREM OperationsAreAtomic == Spec => TakesEffectAtomically
<1>1. Init => Atomic!Init /\ GameRowsInv
  BY InitIsAtomic
<1>2. GameRowsInv /\ [Next]_vars => GameRowsInv' /\ [Atomic!Next]_(Atomic!vars)
  BY NextGameRowsInv, StepIsAtomic
<1>3. QED
  BY <1>1, <1>2, PTL DEF Spec, TakesEffectAtomically, Atomic!Spec
=============================================================================
