------------------------------ MODULE GameList ------------------------------
(***************************************************************************)
(* A client walks through GET /game page by page (List of                  *)
(* internal/modules/game/game.go, limits of internal/common/pagination)    *)
(* until a page is empty, while rows come and go.  A page is two           *)
(* statements, COUNT and SELECT, outside a transaction.  A row is visible  *)
(* when it is committed and its name matches the filter, so a creation, an *)
(* update or a deletion that commits makes it appear or disappear; ids     *)
(* need not appear in the order in which they were handed out.             *)
(***************************************************************************)
EXTENDS Integers, FiniteSets

CONSTANTS MaxId,       \* the ids are 1 .. MaxId
          ConfigMaxP,  \* pagination.maxP and pagination.maxS of the configuration
          ConfigMaxS,
          MaxInt32,    \* the largest int32: 2^31 - 1 in the code
          MaxChanges   \* bound on the rows that come and go during a walk

ASSUME GameListAssumption ==
  /\ MaxId \in Nat /\ MaxChanges \in Nat
  /\ MaxInt32 \in Nat \ {0}
  /\ ConfigMaxP \in Int /\ ConfigMaxS \in Int

VARIABLES visible,  \* the ids SELECT and COUNT find
          pc,       \* what the client is doing
          page, size, total,
          kept,     \* history: visible since the walk began
          seen,     \* history: the ids the walk has returned
          returned, \* history: how many items it has returned
          gained,   \* history: how often a row appeared since the walk began
          lost      \* history: how often one disappeared

vars == <<visible, pc, page, size, total, kept, seen, returned, gained, lost>>

Id == 1 .. MaxId
-----------------------------------------------------------------------------
(* pagination.go *)

OrDefault(n) == IF n = 0 THEN 10000 ELSE n
NewFails(maxP, maxS) == \/ OrDefault(maxP) < 1 \/ OrDefault(maxP) > MaxInt32
                        \/ OrDefault(maxS) < 1 \/ OrDefault(maxS) > MaxInt32
MaxP == OrDefault(ConfigMaxP)
MaxS == OrDefault(ConfigMaxS)

InRange(p, s) == p >= 1 /\ p <= MaxP /\ s >= 1 /\ s <= MaxS

\* What an int32 holds after an operation whose result is n.
Int32(n) == ((n + MaxInt32 + 1) % (2 * (MaxInt32 + 1))) - (MaxInt32 + 1)

\* Broken variant: every page is the first.
Offset_Zero(p, s) == 0
\* Broken variant: the product is computed in 32 bits.
Offset_Int32(p, s) == Int32(Int32(p - 1) * s)
\* int64(page-1) * int64(size): the product of two int32 fits.
Offset(p, s) == Int32(p - 1) * s

\* ORDER BY id DESC LIMIT size OFFSET offset.
Rank(id) == Cardinality({other \in visible : other > id})

Items(p, s) == {id \in visible : Offset(p, s) <= Rank(id) /\ Rank(id) < Offset(p, s) + s}
-----------------------------------------------------------------------------
TypeOK ==
  /\ visible \subseteq Id /\ kept \subseteq visible /\ seen \subseteq Id
  /\ pc \in {"idle", "count", "select", "done"}
  /\ page \in 1 .. MaxP + 1 /\ size \in 1 .. MaxS
  /\ total \in 0 .. MaxId
  /\ returned \in 0 .. MaxP * MaxS
  /\ gained \in 0 .. MaxChanges /\ lost \in 0 .. MaxChanges

Init ==
  /\ ~NewFails(ConfigMaxP, ConfigMaxS)
  /\ visible \in SUBSET Id
  /\ pc = "idle" /\ page = 1 /\ size = 1 /\ total = 0
  /\ kept = visible /\ seen = {} /\ returned = 0 /\ gained = 0 /\ lost = 0

Walk(s) ==
  /\ pc = "idle"
  /\ pc' = "count" /\ size' = s
  /\ kept' = visible
  /\ UNCHANGED <<visible, page, total, seen, returned, gained, lost>>

\* An empty page ends the walk.
EmptyPage == pc' = "done"

Count ==
  /\ pc = "count"
  /\ IF InRange(page, size)
     THEN /\ total' = Cardinality(visible)
          /\ IF Offset(page, size) >= Cardinality(visible) THEN EmptyPage ELSE pc' = "select"
     ELSE EmptyPage /\ UNCHANGED total
  /\ UNCHANGED <<visible, page, size, kept, seen, returned, gained, lost>>

Select ==
  /\ pc = "select"
  /\ LET items == Items(page, size)
     IN  /\ seen' = seen \cup items
         /\ returned' = returned + Cardinality(items)
         /\ IF items = {} THEN EmptyPage /\ UNCHANGED page
            ELSE pc' = "count" /\ page' = page + 1
  /\ UNCHANGED <<visible, size, total, kept, gained, lost>>

Walking == pc \in {"count", "select"}

Appear(id) ==
  /\ Walking /\ id \notin visible /\ gained + lost < MaxChanges
  /\ visible' = visible \cup {id}
  /\ gained' = gained + 1
  /\ UNCHANGED <<pc, page, size, total, kept, seen, returned, lost>>

Disappear(id) ==
  /\ Walking /\ id \in visible /\ gained + lost < MaxChanges
  /\ visible' = visible \ {id}
  /\ kept' = kept \ {id}
  /\ lost' = lost + 1
  /\ UNCHANGED <<pc, page, size, total, seen, returned, gained>>

Finished == pc = "done" /\ UNCHANGED vars

Next == \/ \E s \in 1 .. MaxS : Walk(s)
        \/ Count \/ Select \/ Finished
        \/ \E id \in Id : Appear(id) \/ Disappear(id)

Spec == Init /\ [][Next]_vars
-----------------------------------------------------------------------------
(* The walk was not cut short by the limit on the page. *)
Complete == pc = "done" /\ page <= MaxP

(***************************************************************************)
(* A walk to the first empty page (game.go:184-219) misses rows only as    *)
(* often as some row disappeared meanwhile, and repeats rows only as often *)
(* as some row appeared: a row that appears never hides another.           *)
(***************************************************************************)
WalkErrsOnlyByChanges ==
  /\ Complete => Cardinality(kept \ seen) <= lost
  /\ returned <= Cardinality(seen) + gained

(***************************************************************************)
(* The limits (pagination.go:31-40) cut a walk only when there may be more *)
(* rows than MaxP full pages hold, counting those that came meanwhile.     *)
(***************************************************************************)
LimitCutsOnlyLongWalks ==
  pc = "done" /\ page > MaxP => Cardinality(visible) + lost > (MaxP - 1) * size
-----------------------------------------------------------------------------
(* What every state satisfies, and why the two properties hold. *)

\* The rows of the pages the client has read come before this one.
Start == (page - 1) * size

\* Rows that were there all along and that the walk has passed without seeing them: one
\* that moves up into the pages already read, because one before it disappeared.
Missed == {id \in kept \ seen : Rank(id) < Start}

\* Rows the walk has returned and will meet again: one that appears, or that moves down
\* from the pages already read because one before it appeared.
ToRepeat == {id \in seen \cap visible : Rank(id) >= Start}

GameListInv ==
  /\ ~NewFails(ConfigMaxP, ConfigMaxS)
  /\ TypeOK
  /\ pc = "idle" => page = 1 /\ seen = {}
  /\ pc = "select" => page <= MaxP
  /\ returned <= Start
  /\ Cardinality(Missed) <= lost
  /\ returned + Cardinality(ToRepeat) <= Cardinality(seen) + gained
  /\ page > 1 => Cardinality(visible) + lost > (page - 2) * size
  /\ Complete => Cardinality(visible) <= Start
=============================================================================
