----------------------------- MODULE PosOrders -----------------------------
(***************************************************************************)
(* Restaurant orders beside the ledger they are charged to. Every write to *)
(* an order takes its row lock first; charging one to a room looks up the  *)
(* guest's open folio without a lock and then posts through the folio's    *)
(* own code, in one transaction with the order's change of status.         *)
(***************************************************************************)
EXTENDS FolioLedger, Sequences

CONSTANTS
  Orders,
  Prices,     \* menu prices
  Quantities,
  MaxLines    \* bound: lines on an order

ASSUME OrdersAssumption ==
  /\ Orders \cap {"folio", "night"} = {}
  /\ Prices \subseteq Nat /\ Quantities \subseteq Nat

VARIABLE order  \* pos.orders and their order_lines

vars == <<ledgerVars, order>>

NoOrder == [status |-> "NONE", lines |-> <<>>, folio |-> NoRef, charged |-> 0]

OrderMoves == {<<"OPEN", "CHARGED">>, <<"OPEN", "VOID">>}
CanTransitionOrder(from, to) == <<from, to>> \in OrderMoves
IsEditable(s) == s = "OPEN"

TypeOK ==
  /\ LedgerTypeOK
  /\ \A o \in Orders : order[o].status \in {"NONE", "OPEN", "CHARGED", "VOID"}

Init == LedgerInit /\ order = [o \in Orders |-> NoOrder]

\* Mutant: the order is read without FOR UPDATE.
NoLock(o) == TRUE

\* lockOrder: waits while a charge of the order is under way.
LockOrder(o) == ~\E s \in Sessions : tx[s].op = "toRoom" /\ tx[s].order = o

SubtotalOf(ls) == SumFunction([i \in DOMAIN ls |-> ls[i].price * ls[i].quantity])

OpenOrder(o) ==
  /\ order[o].status = "NONE"
  /\ order' = [order EXCEPT ![o].status = "OPEN"]
  /\ UNCHANGED ledgerVars

\* The price is copied from the menu.
AddLine(o, price, quantity) ==
  /\ LockOrder(o)
  /\ IsEditable(order[o].status)
  /\ Len(order[o].lines) < MaxLines
  /\ order' = [order EXCEPT ![o].lines =
                 Append(@, [price |-> price, quantity |-> quantity])]
  /\ UNCHANGED ledgerVars

RemoveLine(o, i) ==
  /\ LockOrder(o)
  /\ IsEditable(order[o].status)
  /\ order' = [order EXCEPT ![o].lines =
                 [j \in 1 .. (Len(@) - 1) |-> IF j < i THEN @[j] ELSE @[j + 1]]]
  /\ UNCHANGED ledgerVars

VoidOrder(o) ==
  /\ LockOrder(o)
  /\ CanTransitionOrder(order[o].status, "VOID")
  /\ order' = [order EXCEPT ![o].status = "VOID"]
  /\ UNCHANGED ledgerVars

\* openFolioForRoom: any open folio whose checked-in guest has the room.
OpenFoliosForRoom(k) == {f \in inHouse : RoomOf[f] = k /\ status[f] = "OPEN"}

ChargeToRoomRead(s, o, k) ==
  /\ tx[s].op = "idle"
  /\ LockOrder(o)
  /\ CanTransitionOrder(order[o].status, "CHARGED")
  /\ order[o].lines # <<>>
  /\ \E f \in OpenFoliosForRoom(k) :
       tx' = [tx EXCEPT ![s] = [Idle EXCEPT !.op = "toRoom", !.folio = f, !.order = o]]
  /\ UNCHANGED <<date, taxes, ledger, status, inHouse, grid, order>>

ChargeToRoomCommit(s) ==
  LET o == tx[s].order
      subtotal == SubtotalOf(order[o].lines)
  IN  /\ tx[s].op = "toRoom"
      /\ LoadOpenFolio(tx[s].folio)
      /\ Post(ChargeLines(tx[s].folio, subtotal, o))
      /\ order' = [order EXCEPT ![o].status = "CHARGED", ![o].folio = tx[s].folio,
                                ![o].charged = subtotal]
      /\ tx' = [tx EXCEPT ![s] = Idle]
      /\ UNCHANGED <<date, taxes, status, inHouse, grid>>

PosNext ==
  \/ \E o \in Orders : OpenOrder(o)
  \/ \E o \in Orders, p \in Prices, q \in Quantities : AddLine(o, p, q)
  \/ \E o \in Orders : \E i \in DOMAIN order[o].lines : RemoveLine(o, i)
  \/ \E o \in Orders : VoidOrder(o)
  \/ \E s \in Sessions, o \in Orders, k \in Rooms : ChargeToRoomRead(s, o, k)
  \/ \E s \in Sessions : ChargeToRoomCommit(s)

Next == PosNext \/ (LedgerNext /\ UNCHANGED order)

Spec == Init /\ [][Next]_vars

-----------------------------------------------------------------------------
(* Properties.                                                             *)

\* An order is CHARGED exactly when one posting on one folio carries it, and
\* that posting and its tax still amount to what the order's lines say: a
\* double tap, an edit or a void beside the charge would part the two books.
OrderBilledOnce ==
  \A o \in Orders :
    LET bills == {l \in lines : l.type = "CHARGE" /\ l.source = o}
    IN  /\ Cardinality(bills) = IF order[o].status = "CHARGED" THEN 1 ELSE 0
        /\ order[o].status = "CHARGED" =>
             /\ order[o].charged = SubtotalOf(order[o].lines)
             /\ \A b \in bills :
                  /\ b.folio = order[o].folio
                  /\ b.amount = order[o].charged
                       - CarvedOut(Relevant(taxes, order[o].charged), order[o].charged)
=============================================================================
