------------------------------ MODULE GameRows ------------------------------
(***************************************************************************)
(* What the game module promises (internal/modules/game/game.go), stated   *)
(* without transactions, locks or connections: each operation takes effect *)
(* in one step between its call and its return, or not at all, and its     *)
(* result tells the truth about that instant.  An operation that returns   *)
(* an error may have taken effect: the reply of the database can be lost.  *)
(* On Postgres, and only there, an update or a delete may miss a row that  *)
(* was created while it was running.                                       *)
(***************************************************************************)
CONSTANTS Proc, Id, Name, Desc,
          Omitted,          \* a field the caller leaves out of an update
          Unborn, Deleted,  \* the states of an id without a row
          NoOp, NoRow

VARIABLES driver, \* "postgres" or "mysql", which never changes
          rows,   \* rows[id]: its row, Unborn or Deleted
          op,     \* op[p]: the operation p is in, or NoOp
          born,   \* born[p]: the rows created since p's update or delete was called
          res     \* res[p]: the result of p's last operation

vars == <<driver, rows, op, born, res>>

Row == [name : Name, desc : Desc]
Present(id) == rows[id] \in Row
Reply(kind, value) == [kind |-> kind, value |-> value]

\* COALESCE(new, old), field by field.
Merge(row, o) ==
  [name |-> IF o.name = Omitted THEN row.name ELSE o.name,
   desc |-> IF o.desc = Omitted THEN row.desc ELSE o.desc]

Changing(p) == op[p] # NoOp /\ op[p].kind \in {"update", "delete"}

\* The creations the running changes have seen after p's operation made those of new.
BornAfter(p, new) ==
  [q \in Proc |-> IF q = p THEN {} ELSE IF Changing(q) THEN born[q] \cup new ELSE born[q]]

\* The rows p's change may miss, and those it finds when it misses some of them.
Missable(p) == IF driver = "postgres" THEN born[p] ELSE {}
Found(p, missed) == {id \in op[p].ids \ missed : Present(id)}

Return(p, reply) == /\ op' = [op EXCEPT ![p] = NoOp]
                    /\ res' = [res EXCEPT ![p] = reply]

\* The effect is visible; the caller learns of it or gets an error.
ReturnDone(p, value) == \/ Return(p, Reply("ok", value))
                        \/ Return(p, Reply("error", NoRow))

Call(p, o) == /\ op[p] = NoOp
              /\ op' = [op EXCEPT ![p] = o]
              /\ res' = [res EXCEPT ![p] = Reply("none", NoRow)]
              /\ UNCHANGED <<driver, rows, born>>

Reject(p) == /\ op[p] = NoOp
             /\ res' = [res EXCEPT ![p] = Reply("invalid", NoRow)]
             /\ UNCHANGED <<driver, rows, op, born>>

Create(p) ==
  /\ op[p] # NoOp /\ op[p].kind = "create"
  /\ \E id \in Id :
        LET row == [name |-> op[p].name, desc |-> op[p].desc]
        IN  /\ rows[id] = Unborn
            /\ rows' = [rows EXCEPT ![id] = row]
            /\ born' = BornAfter(p, {id})
            /\ ReturnDone(p, row)
  /\ UNCHANGED driver

Update(p) ==
  /\ op[p] # NoOp /\ op[p].kind = "update"
  /\ \E id \in op[p].ids :
        /\ Present(id)
        /\ rows' = [rows EXCEPT ![id] = Merge(rows[id], op[p])]
        /\ ReturnDone(p, Merge(rows[id], op[p]))
  /\ born' = BornAfter(p, {})
  /\ UNCHANGED driver

\* The update misses a row born since it was called, and returns what it read of it.
UpdateMissed(p) ==
  /\ op[p] # NoOp /\ op[p].kind = "update"
  /\ op[p].ids \subseteq Missable(p)
  /\ \E row \in Row : ReturnDone(p, row)
  /\ born' = BornAfter(p, {})
  /\ UNCHANGED <<driver, rows>>

\* All the rows at once; ids without one do not count, nor rows born since the call
\* that it misses.
Delete(p) ==
  /\ op[p] # NoOp /\ op[p].kind = "delete"
  /\ \E missed \in SUBSET Missable(p) :
        /\ Found(p, missed) # {}
        /\ rows' = [id \in Id |-> IF id \in Found(p, missed) THEN Deleted ELSE rows[id]]
  /\ ReturnDone(p, NoRow)
  /\ born' = BornAfter(p, {})
  /\ UNCHANGED driver

Get(p) ==
  /\ op[p] # NoOp /\ op[p].kind = "get"
  /\ \E id \in op[p].ids : Present(id) /\ Return(p, Reply("ok", rows[id]))
  /\ born' = BornAfter(p, {})
  /\ UNCHANGED <<driver, rows>>

NotFound(p) ==
  /\ op[p] # NoOp /\ op[p].kind \in {"get", "update", "delete"}
  /\ Found(p, IF op[p].kind = "delete" THEN Missable(p) ELSE {}) = {}
  /\ Return(p, Reply("notfound", NoRow))
  /\ born' = BornAfter(p, {})
  /\ UNCHANGED <<driver, rows>>

Fail(p) == /\ op[p] # NoOp
           /\ Return(p, Reply("error", NoRow))
           /\ born' = BornAfter(p, {})
           /\ UNCHANGED <<driver, rows>>

Ops ==
       [kind : {"create"}, ids : {{}}, name : Name, desc : Desc]
  \cup {o \in [kind : {"update"}, ids : {{id} : id \in Id},
               name : Name \cup {Omitted}, desc : Desc \cup {Omitted}] :
          o.name # Omitted \/ o.desc # Omitted}
  \cup [kind : {"delete"}, ids : (SUBSET Id) \ {{}}, name : {Omitted}, desc : {Omitted}]
  \cup [kind : {"get"}, ids : {{id} : id \in Id}, name : {Omitted}, desc : {Omitted}]

Init == /\ driver \in {"postgres", "mysql"}
        /\ rows \in [Id -> Row \cup {Unborn}]
        /\ op = [p \in Proc |-> NoOp]
        /\ born = [p \in Proc |-> {}]
        /\ res = [p \in Proc |-> Reply("none", NoRow)]

Next == \E p \in Proc :
          \/ \E o \in Ops : Call(p, o)
          \/ Reject(p) \/ Create(p) \/ Update(p)
          \/ UpdateMissed(p) \/ Delete(p) \/ Get(p) \/ NotFound(p) \/ Fail(p)

Spec == Init /\ [][Next]_vars
=============================================================================
