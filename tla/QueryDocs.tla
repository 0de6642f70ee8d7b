----------------------------- MODULE QueryDocs -----------------------------
(***************************************************************************)
(* docsgen infers the query parameters of a handler and their types from   *)
(* its syntax: queryParameters of internal/cmd/docsgen/query.go.  It goes  *)
(* three times through the whole body and keeps the variables that hold a  *)
(* parameter in maps by name; Go's own scopes are recorded while the body  *)
(* is written.  Statements are                                             *)
(*   bind    v := q.Get(key), or v = q.Get(key)                            *)
(*   if      if v := q.Get(key); ... {    (scope: until close)             *)
(*   elseif  } else if v := q.Get(key); ... {                              *)
(*   close   }                                                             *)
(*   parse   Atoi(v), ParseBool(v), or Atoi(q.Get(key)), ...               *)
(* with the key NoKey for anything that is not a query parameter.          *)
(***************************************************************************)
EXTENDS Naturals, FiniteSets, SequencesExt

CONSTANTS Keys,     \* the query parameters
          QueryVar, \* the variables of the handler
          Kinds,    \* what a string is parsed as: "integer", "boolean"
          MaxBody   \* statements of a handler

NoKey == "no query parameter"

ASSUME QueryDocsAssumption == NoKey \notin Keys

VARIABLES body,      \* the statements of the handler
          scopes,    \* history, Go: before each statement and after the last, the variables
                     \* of each open scope, two for every if
          variables, \* docsgen: the parameter each variable holds
          open,      \* docsgen: the variables of each open if, and whether its last arm
                     \* opened that scope
          looked,    \* docsgen: statements of the last walk
          found,     \* docsgen: the type of each parameter
          query      \* "writing", "collected" or "done"

queryVars == <<body, scopes, variables, open, looked, found, query>>

Put(map, name, value) == [n \in DOMAIN map \cup {name} |-> IF n = name THEN value ELSE map[n]]
NoVars == [v \in {} |-> NoKey]

QueryInit ==
  /\ body = <<>> /\ scopes = <<<<NoVars>>>>
  /\ variables = NoVars /\ open = <<>> /\ looked = 0 /\ found = NoVars
  /\ query = "writing"
-----------------------------------------------------------------------------
Declaring(scoped, var) == {k \in DOMAIN scoped : var \in DOMAIN scoped[k]}
Holds(scoped, var) == scoped[Max(Declaring(scoped, var))][var]

Here == Last(scopes)

Line(op, var, key, kind) == [op |-> op, var |-> var, key |-> key, kind |-> kind]

WriteLine(statement, after) ==
  /\ query = "writing" /\ Len(body) < MaxBody
  /\ body' = Append(body, statement)
  /\ scopes' = Append(scopes, after)
  /\ UNCHANGED <<variables, open, looked, found, query>>

Bind(var, key, declares) ==
  /\ declares \/ Declaring(Here, var) # {}
  /\ LET k == IF declares THEN Len(Here) ELSE Max(Declaring(Here, var))
     IN  WriteLine(Line("bind", var, key, "string"), [Here EXCEPT ![k] = Put(@, var, key)])

If(var, key) ==
  WriteLine(Line("if", var, key, "string"), Here \o <<Put(NoVars, var, key), NoVars>>)

\* The variable of the second if is declared inside that of the first; what the first
\* body declared is gone.
ElseIf(var, key) ==
  /\ Len(Here) > 1
  /\ WriteLine(Line("elseif", var, key, "string"),
               [Here EXCEPT ![Len(Here) - 1] = Put(@, var, key), ![Len(Here)] = NoVars])

CloseIf ==
  /\ Len(Here) > 1
  /\ WriteLine(Line("close", NoKey, NoKey, "string"), SubSeq(Here, 1, Len(Here) - 2))

Parse(var, kind) ==
  /\ Declaring(Here, var) # {}
  /\ WriteLine(Line("parse", var, NoKey, kind), Here)

ParseDirectly(key, kind) == WriteLine(Line("parse", NoKey, key, kind), Here)
-----------------------------------------------------------------------------
\* The first two walks: every parameter is a string, and a variable holds the
\* parameter it is given last, wherever that is.
BodyKeys == {body[k].key : k \in DOMAIN body} \ {NoKey}

Binds(s, var) == s.op \in {"bind", "if", "elseif"} /\ s.var = var
Assigning(var) == {k \in DOMAIN body : Binds(body[k], var) /\ body[k].key # NoKey}

Collect ==
  /\ query = "writing"
  /\ variables' = [var \in {v \in QueryVar : Assigning(v) # {}} |-> body[Max(Assigning(var))].key]
  /\ found' = [key \in BodyKeys |-> "string"]
  /\ open' = <<[map |-> variables', own |-> FALSE]>>
  /\ query' = "collected"
  /\ UNCHANGED <<body, scopes, looked>>

\* The last walk.  An if has a scope of its own, except as the else of an if that has one.
\* Broken variant: its variable is not given to that scope.
OpenIf_Shared(map, s) == map
OpenIf(map, s) == IF s.key = NoKey THEN map ELSE Put(map, s.var, s.key)

ParamOf(map, s) == IF s.key # NoKey THEN s.key
                   ELSE IF s.var \in DOMAIN map THEN map[s.var] ELSE NoKey

VisitIf(s) == /\ s.op = "if"
              /\ open' = Append(open, [map |-> OpenIf(Last(open).map, s), own |-> TRUE])
              /\ UNCHANGED found

VisitElseIf(s) ==
  /\ s.op = "elseif"
  /\ open' = [open EXCEPT ![Len(open)] =
                IF @.own THEN [map |-> @.map, own |-> FALSE]
                         ELSE [map |-> OpenIf(@.map, s), own |-> TRUE]]
  /\ UNCHANGED found

VisitClose(s) == s.op = "close" /\ open' = SubSeq(open, 1, Len(open) - 1) /\ UNCHANGED found

VisitParse(s) ==
  /\ s.op = "parse"
  /\ LET param == ParamOf(Last(open).map, s)
     IN  found' = IF param = NoKey THEN found ELSE Put(found, param, s.kind)
  /\ UNCHANGED open

VisitBind(s) == s.op = "bind" /\ UNCHANGED <<open, found>>

Visit ==
  /\ query = "collected" /\ looked < Len(body)
  /\ LET s == body[looked + 1]
     IN  VisitIf(s) \/ VisitElseIf(s) \/ VisitClose(s) \/ VisitParse(s) \/ VisitBind(s)
  /\ looked' = looked + 1
  /\ UNCHANGED <<body, scopes, variables, query>>

Convert ==
  /\ query = "collected" /\ looked = Len(body)
  /\ query' = "done"
  /\ UNCHANGED <<body, scopes, variables, open, looked, found>>

QueryNext ==
  \/ \E var \in QueryVar, key \in Keys \cup {NoKey} :
       \/ \E declares \in BOOLEAN : Bind(var, key, declares)
       \/ If(var, key) \/ ElseIf(var, key)
  \/ \E var \in QueryVar, kind \in Kinds : Parse(var, kind)
  \/ \E key \in Keys, kind \in Kinds : ParseDirectly(key, kind)
  \/ CloseIf \/ Collect \/ Visit \/ Convert

QuerySpec == QueryInit /\ [][QueryNext]_queryVars
-----------------------------------------------------------------------------
\* The parameter a statement reads, as Go scopes its variable.
ReadAt(k) == IF body[k].op = "parse" /\ body[k].key = NoKey THEN Holds(scopes[k], body[k].var)
                                                            ELSE body[k].key

ReadKeys == {ReadAt(k) : k \in DOMAIN body} \ {NoKey}

ParsedAs(key, n) == {body[k].kind : k \in {j \in 1 .. n : body[j].op = "parse" /\ ReadAt(j) = key}}

\* A name stands for one parameter, or it is only ever bound by ifs.
OnlyIfs(var) ==
  \A k \in DOMAIN body : Binds(body[k], var) => body[k].op = "if" /\ body[k].key # NoKey

OneMeaning(var) ==
  \/ \A j, k \in DOMAIN body :
       Binds(body[j], var) /\ Binds(body[k], var) => body[j].key = body[k].key
  \/ OnlyIfs(var)

TypeRead(n) ==
  \A key \in DOMAIN found :
    found[key] \in IF ParsedAs(key, n) = {} THEN {"string"} ELSE ParsedAs(key, n)

(***************************************************************************)
(* The parameters in the document are those the handler reads, each of the *)
(* type the handler parses it as (query.go:8, 50), also where the same     *)
(* name holds another parameter in another if.                             *)
(***************************************************************************)
QueryTypesFollowReads ==
  query = "done" /\ (\A var \in QueryVar : OneMeaning(var)) =>
    DOMAIN found = ReadKeys /\ TypeRead(Len(body))
-----------------------------------------------------------------------------
BodyLine  == [op : {"bind", "if", "elseif", "close", "parse"}, var : QueryVar \cup {NoKey},
              key : Keys \cup {NoKey}, kind : Kinds \cup {"string"}]
VarMap == UNION {[names -> Keys \cup {NoKey}] : names \in SUBSET QueryVar}

Level == [map : VarMap, own : BOOLEAN]

\* What a statement makes of the scopes scoped it.
Moves(s, scoped, after) ==
  CASE s.op = "bind"   -> \E k \in DOMAIN scoped :
                            after = [scoped EXCEPT ![k] = Put(@, s.var, s.key)]
    [] s.op = "if"     -> after = scoped \o <<Put(NoVars, s.var, s.key), NoVars>>
    [] s.op = "elseif" -> /\ Len(scoped) > 1
                          /\ after = [scoped EXCEPT ![Len(scoped) - 1] = Put(@, s.var, s.key),
                                                    ![Len(scoped)] = NoVars]
    [] s.op = "close"  -> Len(scoped) > 1 /\ after = SubSeq(scoped, 1, Len(scoped) - 2)
    [] s.op = "parse"  -> after = scoped /\ (s.key = NoKey => Declaring(scoped, s.var) # {})

\* Every variable that a scope holds was bound to what it holds.
Sourced(map, var) == \E k \in DOMAIN body : Binds(body[k], var) /\ body[k].key = map[var]

Written ==
  /\ body \in Seq(BodyLine) /\ scopes \in Seq(Seq(VarMap))
  /\ Len(scopes) = Len(body) + 1 /\ scopes[1] = <<NoVars>>
  /\ \A k \in DOMAIN scopes : \E n \in 0 .. Len(scopes[k]) : Len(scopes[k]) = 2 * n + 1
  /\ \A k \in DOMAIN body : Moves(body[k], scopes[k], scopes[k + 1])
  /\ \A k \in DOMAIN body : body[k].op \in {"bind", "if", "elseif"} => body[k].var \in QueryVar
  /\ \A k \in DOMAIN scopes : \A i \in DOMAIN scopes[k] :
       \A var \in DOMAIN scopes[k][i] : Sourced(scopes[k][i], var)

\* The i-th map holds what the innermost of the i - 1 ifs around it gave the variable.
AsScoped(map, scoped, i, var) ==
  \A j \in 1 .. i - 1 :
    var \in DOMAIN scoped[2 * j] /\ (\A l \in j + 1 .. i - 1 : var \notin DOMAIN scoped[2 * l]) =>
      var \in DOMAIN map /\ map[var] = scoped[2 * j][var]

\* The last walk has the scopes of Go, as far as a variable only bound by ifs goes, and no
\* variable has a parameter that it was not bound to.
GoodLevel(level) ==
  /\ level \in Level
  /\ \A var \in QueryVar : Assigning(var) # {} => var \in DOMAIN level.map
  /\ \A var \in DOMAIN level.map : Sourced(level.map, var) /\ level.map[var] # NoKey

Tracked(levels, scoped, var) ==
  \A i \in DOMAIN levels : /\ var \notin DOMAIN scoped[2 * i - 1]
                           /\ AsScoped(levels[i].map, scoped, i, var)

Followed(levels, scoped) ==
  /\ levels \in Seq(Level)
  /\ Len(scoped) = 2 * Len(levels) - 1
  /\ \A i \in DOMAIN levels : GoodLevel(levels[i])
  /\ \A var \in QueryVar : OnlyIfs(var) => Tracked(levels, scoped, var)

QueryInv ==
  /\ Written
  /\ query \in {"writing", "collected", "done"} /\ looked \in Nat /\ looked <= Len(body)
  /\ query = "writing" => looked = 0
  /\ query # "writing" =>
       /\ Followed(open, scopes[looked + 1])
       /\ DOMAIN found = BodyKeys
       /\ (\A var \in QueryVar : OneMeaning(var)) => TypeRead(looked)
  /\ query = "done" => looked = Len(body)
=============================================================================
