---------------------------- MODULE FolioLedger ----------------------------
(***************************************************************************)
(* The guest's bill. Lines are only ever added: a posting is one charge    *)
(* and the tax lines that hang from it, a void is the posting of their     *)
(* opposites, a payment is a line of its own.                              *)
(*                                                                         *)
(* A handler that reads something outside the lock it writes under is two  *)
(* actions, a read and a commit, with a record of what it read in tx. Any  *)
(* commit may instead end in Rollback. The rest are one transaction each.  *)
(***************************************************************************)
EXTENDS Money, FiniteSets

CONSTANTS
  Folios,       \* one per reservation checked in to one room
  Rooms,
  RoomOf,       \* [Folios -> Rooms], the room each guest is in
  Departure,    \* [Folios -> Departures], as booked
  Price,        \* [Dates -> Nat], the rate grid at first
  Rates,        \* what a night's rate may be changed to
  TaxTables,    \* sets of taxes the property may have configured
  Amounts,      \* what the desk posts as a charge
  Sessions,     \* concurrent requests
  LastDate,     \* bound: business dates are 1..LastDate
  MaxPostings,  \* bound: postings on the ledger and edits of rates and dates
  NoRef         \* null parent, reversed line or source

Dates == 1 .. LastDate
\* A stay has a night at least (nightsBetween), and nobody arrives before day 1.
Departures == 2 .. (LastDate + 1)

\* What tells the lines of a posting on one folio apart: the charge itself, or
\* the tax it is; a property has one tax of a name (taxes_property_name_uq).
Parts == {"charge"} \cup {t.name : t \in UNION TaxTables}

ASSUME TaxesAssumption ==
  /\ TaxTables \subseteq SUBSET Tax
  /\ \A table \in TaxTables :
       /\ IsFiniteSet(table)
       /\ \A t, u \in table : t.name # "charge" /\ (t.name = u.name => t = u)

ASSUME FoliosAssumption ==
  /\ IsFiniteSet(Folios)
  /\ MaxPostings \in Nat
  /\ LastDate \in Nat \ {0}
  /\ Price \in [Dates -> Nat] /\ Rates \subseteq Nat
  /\ Departure \in [Folios -> Departures]
  /\ Amounts \subseteq Int
  /\ NoRef \notin Nat \X Folios \X Parts

VARIABLES
  date,       \* properties.business_date
  taxes,      \* property.taxes; its rows do not change here
  lines,      \* folio.folio_lines
  postings,   \* how many postings the ledger has; numbers the lines
  status,     \* folios.status
  inHouse,    \* folios whose reservation is CHECKED_IN
  ratePrices, \* inventory.rate_prices, one rate plan and room type
  loaded,     \* history: every rate a date has had
  departure,  \* reservation_rooms.departure_date
  edits,      \* how many times those two were changed
  tx          \* what each request has read so far

ledger     == <<lines, postings>>
grid       == <<ratePrices, loaded, departure, edits>>
ledgerVars == <<date, taxes, ledger, status, inHouse, grid, tx>>

Idle == [op |-> "idle", folio |-> NoRef, line |-> NoRef, order |-> NoRef,
         day |-> NoRef, staying |-> {}]

TypeOfLine == {"CHARGE", "TAX", "PAYMENT", "ADJUSTMENT"}

LedgerTypeOK ==
  /\ date \in Dates
  /\ taxes \in TaxTables
  /\ \A l \in lines :
       /\ l.folio \in Folios /\ l.type \in TypeOfLine
       /\ l.amount \in Int /\ l.tax \in Int /\ l.date \in Dates
       /\ l.type = "PAYMENT" => l.amount <= 0
  /\ postings \in 0 .. MaxPostings
  /\ status \in [Folios -> {"OPEN", "SETTLED"}]
  /\ inHouse \subseteq Folios
  /\ ratePrices \in [Dates -> Nat]
  /\ departure \in [Folios -> Departures]
  /\ edits \in 0 .. MaxPostings
  /\ \A s \in Sessions : tx[s].op \in {"idle", "void", "roomCharges", "checkOut", "toRoom"}

LedgerInit ==
  /\ date = 1
  /\ taxes \in TaxTables
  /\ lines = {}
  /\ postings = 0
  /\ status = [f \in Folios |-> "OPEN"]
  /\ inHouse = Folios
  /\ ratePrices = Price
  /\ loaded = [d \in Dates |-> {Price[d]}]
  /\ departure = Departure
  /\ edits = 0
  /\ tx = [s \in Sessions |-> Idle]

-----------------------------------------------------------------------------
(* Lines.                                                                  *)

\* The source is what caused the line: the folio's own screen, the night audit
\* or an order; the tax on a charge shares the charge's.
Line(day, f, part, type, amount, tax, parent, reverses, source) ==
  [id |-> <<postings + 1, f, part>>, folio |-> f, type |-> type,
   amount |-> amount, tax |-> tax, parent |-> parent, reverses |-> reverses,
   date |-> day, source |-> source]

\* The charge drops to the net of the tax inside its price, and each tax is a
\* line of its own that points at the charge.
TaxedCharge(day, f, gross, applied, source) ==
  {Line(day, f, "charge", "CHARGE", gross - CarvedOut(applied, gross), 0, NoRef, NoRef, source)}
    \cup { LET amount == TaxFromBps(gross, t)
           IN  Line(day, f, t.name, "TAX", amount, amount,
                    <<postings + 1, f, "charge">>, NoRef, source)
           : t \in applied }

\* buildChargeLines
ChargeLines(f, gross, source) == TaxedCharge(date, f, gross, Relevant(taxes, gross), source)

SumOf(S) == SumFunction([l \in S |-> l.amount])
On(f) == {l \in lines : l.folio = f}
Balance(f) == SumOf(On(f))

Reversed(l) == \E r \in lines : r.reverses = l.id

\* A line and the tax lines that hang from it.
WithChildren(l) == {l} \cup {c \in lines : c.parent = l.id}

WithinBound == postings + edits < MaxPostings

Post(new) ==
  /\ WithinBound
  /\ lines' = lines \cup new
  /\ postings' = postings + 1

\* loadOpenFolio: locks the folio and refuses one that is not open.
LoadOpenFolio(f) == status[f] = "OPEN"

Rollback(s) ==
  /\ tx[s].op # "idle"
  /\ tx' = [tx EXCEPT ![s] = Idle]
  /\ UNCHANGED <<date, taxes, ledger, status, inHouse, grid>>

-----------------------------------------------------------------------------
(* Posting.                                                                *)

PostCharge(f, gross) ==
  /\ LoadOpenFolio(f)
  /\ Post(ChargeLines(f, gross, "folio"))
  /\ UNCHANGED <<date, taxes, status, inHouse, grid, tx>>

\* Mutant: the sign is taken as it comes.
PaymentAsGiven(f, amount) == Line(date, f, "charge", "PAYMENT", amount, 0, NoRef, NoRef, "folio")

\* A payment is stored negative.
Payment(f, amount) == Line(date, f, "charge", "PAYMENT", -amount, 0, NoRef, NoRef, "folio")

\* The desk's form proposes the balance, and that is what is paid here.
PostPayment(f) ==
  /\ LoadOpenFolio(f)
  /\ Balance(f) > 0
  /\ Post({Payment(f, Balance(f))})
  /\ UNCHANGED <<date, taxes, status, inHouse, grid, tx>>

-----------------------------------------------------------------------------
(* voidLine.                                                               *)

\* All of this is read before the folio is locked.
VoidLineRead(s, l) ==
  /\ tx[s].op = "idle"
  /\ l.reverses = NoRef
  /\ l.parent = NoRef
  /\ ~Reversed(l)
  /\ tx' = [tx EXCEPT ![s] = [Idle EXCEPT !.op = "void", !.folio = l.folio, !.line = l]]
  /\ UNCHANGED <<date, taxes, ledger, status, inHouse, grid>>

Reversal(l) ==
  Line(date, l.folio, l.id[3], "ADJUSTMENT", -l.amount, -l.tax, NoRef, l.id, "folio")

\* Mutant: the second of two concurrent voids is not refused.
AnyReversal(new) == TRUE

\* The unique index on reverses_line_id refuses a second reversal.
OneReversalPerLine(new) == \A n \in new : ~\E l \in lines : l.reverses = n.reverses

VoidLineCommit(s) ==
  /\ tx[s].op = "void"
  /\ LoadOpenFolio(tx[s].folio)
  /\ LET new == {Reversal(l) : l \in WithChildren(tx[s].line)}
     IN  OneReversalPerLine(new) /\ Post(new)
  /\ tx' = [tx EXCEPT ![s] = Idle]
  /\ UNCHANGED <<date, taxes, status, inHouse, grid>>

-----------------------------------------------------------------------------
(* The night audit's room charges. The guests are listed first; the        *)
(* charges are built by the audit's own code and posted without looking at *)
(* the folio's status.                                                     *)

\* Mutant: the unique index on a room's charge of a night is missing.
NoChargeFound(f, d) == {}

\* folio_lines_one_room_charge_per_night refuses a second.
RoomChargeFor(f, d) == {l \in On(f) : l.type = "CHARGE" /\ l.source = "night" /\ l.date = d}

Staying(d) == {f \in inHouse : departure[f] > d}

\* The rate is the grid's for the date, not the booking's; every row of the tax
\* table applies, whatever its threshold.
NightLines(f, d) == TaxedCharge(d, f, ratePrices[d], taxes, "night")

\* Carving out an inclusive tax is an UPDATE of folio_lines, which the
\* application's role may not do: the step fails and posts nothing.
MayRewriteLines == \A t \in taxes : t.type = "EXCLUSIVE"

\* The day is the one the call set out to close; another call may have closed
\* it since.
RoomChargesRead(s, d) ==
  /\ tx[s].op = "idle"
  /\ d <= date
  /\ Staying(d) # {}
  /\ tx' = [tx EXCEPT ![s] = [Idle EXCEPT !.op = "roomCharges", !.day = d, !.staying = Staying(d)]]
  /\ UNCHANGED <<date, taxes, ledger, status, inHouse, grid>>

\* A call that finds everybody charged ends with nothing done, as in Rollback.
RoomChargesCommit(s) ==
  LET d == tx[s].day
      due == {f \in tx[s].staying : RoomChargeFor(f, d) = {}}
  IN  /\ tx[s].op = "roomCharges"
      /\ due # {}
      /\ MayRewriteLines
      /\ Post(UNION {NightLines(f, d) : f \in due})
      /\ tx' = [tx EXCEPT ![s] = Idle]
      /\ UNCHANGED <<date, taxes, status, inHouse, grid>>

AdvanceBusinessDate ==
  /\ date < LastDate
  /\ date' = date + 1
  /\ UNCHANGED <<taxes, ledger, status, inHouse, grid, tx>>

-----------------------------------------------------------------------------
(* Rates and dates change while guests are in the house.                   *)

\* The reservation is locked from the read of a check-out.
ReservationFree(f) == \A o \in Sessions : ~(tx[o].op = "checkOut" /\ tx[o].folio = f)

\* Setting the rate of several nights is as many changes.
SetRatePrices(d, rate) ==
  /\ WithinBound
  /\ ratePrices' = [ratePrices EXCEPT ![d] = rate]
  /\ loaded' = [loaded EXCEPT ![d] = @ \cup {rate}]
  /\ edits' = edits + 1
  /\ UNCHANGED <<date, taxes, ledger, status, inHouse, departure, tx>>

\* A change to the date it has would change nothing.
ModifyDates(f, d) ==
  /\ WithinBound
  /\ f \in inHouse
  /\ d # departure[f]
  /\ ReservationFree(f)
  /\ departure' = [departure EXCEPT ![f] = d]
  /\ edits' = edits + 1
  /\ UNCHANGED <<date, taxes, ledger, status, inHouse, ratePrices, loaded, tx>>

-----------------------------------------------------------------------------
(* Check-out.                                                              *)

\* assertSettled: neither owing nor overpaid. The folio is not locked.
CheckOutRead(s, f) ==
  /\ tx[s].op = "idle"
  /\ f \in inHouse
  /\ status[f] = "OPEN"
  /\ ReservationFree(f)
  /\ Balance(f) = 0
  /\ tx' = [tx EXCEPT ![s] = [Idle EXCEPT !.op = "checkOut", !.folio = f]]
  /\ UNCHANGED <<date, taxes, ledger, status, inHouse, grid>>

CheckOutCommit(s) ==
  /\ tx[s].op = "checkOut"
  /\ status' = [status EXCEPT ![tx[s].folio] = "SETTLED"]
  /\ inHouse' = inHouse \ {tx[s].folio}
  /\ tx' = [tx EXCEPT ![s] = Idle]
  /\ UNCHANGED <<date, taxes, ledger, grid>>

LedgerNext ==
  \/ \E f \in Folios, a \in Amounts : PostCharge(f, a)
  \/ \E f \in Folios : PostPayment(f)
  \/ \E s \in Sessions, l \in lines : VoidLineRead(s, l)
  \/ \E s \in Sessions : VoidLineCommit(s)
  \/ \E s \in Sessions, d \in Dates : RoomChargesRead(s, d)
  \/ \E s \in Sessions : RoomChargesCommit(s)
  \/ AdvanceBusinessDate
  \/ \E d \in Dates, rate \in Rates : SetRatePrices(d, rate)
  \/ \E f \in Folios, d \in Departures : ModifyDates(f, d)
  \/ \E s \in Sessions, f \in Folios : CheckOutRead(s, f)
  \/ \E s \in Sessions : CheckOutCommit(s)
  \/ \E s \in Sessions : Rollback(s)

-----------------------------------------------------------------------------
(* Properties.                                                             *)

\* A voided line and every tax line that hangs from it are each reversed exactly
\* once and by their opposite, on the same bill, however many people press void
\* at once: voidLine reads before it locks, and the ledger has no other way to
\* correct.
VoidsAreWhole ==
  \A l \in {l \in lines : l.parent = NoRef /\ Reversed(l)} :
    \A w \in WithChildren(l) :
      \E r \in lines : /\ {x \in lines : x.reverses = w.id} = {r}
                       /\ r.folio = w.folio
                       /\ r.amount = -w.amount

NightLinesOf(f) == {l \in On(f) : l.source = "night"}
NightsCharged(f) == {l.date : l \in {l \in NightLinesOf(f) : l.type = "CHARGE"}}

\* Whatever nights a guest has been charged come to what a quote of those nights
\* says, one charge a night at a rate the night had, up to rounding: the quote
\* taxes the subtotal once, the audit taxes each night, so they differ by at most
\* half a unit per tax for every night and once for the quote. Two calls may
\* charge at once, for a day that one of them has closed, from a list and under a
\* grid that have changed since the call began.
BillFollowsQuote ==
  \A f \in Folios :
    LET nights == NightsCharged(f)
    IN  \E rate \in [nights -> UNION {loaded[d] : d \in nights}] :
          LET gap == SumOf(NightLinesOf(f)) - QuoteTotal(taxes, SumFunction(rate))
              slack == (Cardinality(nights) + 1) * Cardinality(taxes)
          IN  /\ \A d \in nights : rate[d] \in loaded[d]
              /\ 2 * gap <= slack /\ -2 * gap <= slack

=============================================================================
