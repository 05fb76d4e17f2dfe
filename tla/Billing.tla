------------------------------- MODULE Billing -------------------------------
(***************************************************************************)
(* The monthly invoices of one tenant.  A daily worker backfills months it *)
(* missed, finalizes the draft of the month that ended and refreshes the   *)
(* draft of the current month; an administrator may ask for a correction   *)
(* of a finalized month, which adds a row with the difference.  A row and  *)
(* its line items are written by separate commits, and a failing call or a *)
(* restart may fall between any two of them.                               *)
(*                                                                         *)
(* Money: prices and the tax rate are counted in halves, so that the       *)
(* rounding down of amounts and tax happens.  Every item key of the code   *)
(* falls in one of three kinds: a count of what the month stored, the      *)
(* number of provisionable devices, which is preserved once the month is   *)
(* over, and the counts taken at the time of the aggregation.              *)
(***************************************************************************)
EXTENDS Integers, Sequences, FiniteSetsExt
CONSTANTS Admins, MaxMonth, MaxData, Repriced, Prices, DefaultPrice, Rates, Thresholds, None,
          MaxEvents
ASSUME BillingAssumption ==
    /\ MaxMonth \in Nat \ {0} /\ MaxData \in Nat /\ MaxEvents \in Nat
    /\ Prices \subseteq Nat /\ DefaultPrice \in Nat /\ Rates \subseteq 0..2
    /\ Rates # {} /\ Thresholds \subseteq Nat /\ None \notin Nat /\ Repriced \subseteq STRING
VARIABLES now, status, data, snapshot, prices, rate, threshold, invoices, batch, correction,
          events, torn, cut, clashed, agreed, counted, mails
inputs == <<now, status, data, snapshot, prices, rate, threshold>>
history == <<torn, cut, clashed, agreed, counted, mails>>
vars == <<inputs, invoices, batch, correction, events, history>>

Months == 1..MaxMonth
Flow == "data_points"   Kept == "provisionable_devices"   Live == "device_count"
Keys == {Flow, Kept, Live}
Rows == DOMAIN invoices
RowsOf(m) == {i \in Rows : invoices[i].ym = m}
\* What the first n elements of g add up to.
Added(g, n) == LET t[k \in 0..n] == IF k = 0 THEN 0 ELSE t[k - 1] + g[k] IN t[n]
\* What the rows of a month add up to in one of their columns.
Total(m, column) == Added([n \in Rows |-> IF invoices[n].ym = m THEN column[n] ELSE 0],
                          Len(invoices))

\* Line items: a key without a row counts as zero everywhere in the code.
NoItems == [k \in Keys |-> [quantity |-> 0, amount |-> 0]]
Invoice(m, st, subtotal, tax, items) == [ym |-> m, status |-> st, subtotal |-> subtotal,
    tax |-> tax, items |-> items, notified |-> FALSE]
Quantity(m, k) == Total(m, [n \in Rows |-> invoices[n].items[k].quantity])
Amount(m, k) == Total(m, [n \in Rows |-> invoices[n].items[k].amount])
Subtotal(m) == Total(m, [n \in Rows |-> invoices[n].subtotal])
Tax(m) == Total(m, [n \in Rows |-> invoices[n].tax])
Finalized(m) == \E i \in RowsOf(m) : invoices[i].status = "finalized"

\* The newest price that took effect in month m or before.
EffectivePrice(k, m) ==
    LET set == {n \in 1..m : prices[k][n] # None}
    IN  IF set = {} THEN 0 ELSE prices[k][Max(set)]

\* Slip for the mutation runs: the count of today for every month.
UsageNow(m, up, kept) == [k \in Keys |-> CASE k = Flow -> IF up THEN data[m] ELSE 0
                                           [] OTHER -> snapshot[k]]
\* A failing InfluxDB counts as zero points; the kept count is overwritten by the caller.
Usage(m, up, kept) == [k \in Keys |-> CASE k = Flow -> IF up THEN data[m] ELSE 0
                                        [] k = Kept -> kept
                                        [] k = Live -> snapshot[Live]]
Calculate(m, usage) ==
    LET items == [k \in Keys |-> [quantity |-> usage[k],
                                  amount |-> (usage[k] * EffectivePrice(k, m)) \div 2]]
        subtotal == items[Flow].amount + items[Kept].amount + items[Live].amount
    IN  [items |-> items, subtotal |-> subtotal, tax |-> (subtotal * rate) \div 2]

\* An InfluxDB call fails: one of the bounded events.
Aggregated(up) == /\ up \in BOOLEAN /\ (up \/ events < MaxEvents)
                  /\ events' = IF up THEN events ELSE events + 1

Idle == [pc |-> "idle", target |-> 0, todo |-> {}, kept |-> 0, row |-> 0, items |-> NoItems]
NoCorrection == [pc |-> "idle", ym |-> 0, subtotal |-> 0, tax |-> 0, items |-> NoItems,
                 goal |-> 0, row |-> 0, clean |-> TRUE]

Init ==
    /\ now = 1 /\ status = "active" /\ data = [m \in Months |-> 0]
    /\ snapshot = [k \in {Kept, Live} |-> 1]
    /\ prices = [k \in Keys |-> [m \in Months |-> IF m = 1 THEN DefaultPrice ELSE None]]
    /\ rate = Min(Rates) /\ threshold = [tenant |-> None, platform |-> None]
    /\ invoices = <<>> /\ batch = Idle /\ correction = [a \in Admins |-> NoCorrection]
    /\ events = 0 /\ torn = {} /\ cut = {} /\ clashed = {}
    /\ agreed = [m \in Months |-> 0] /\ counted = [m \in Months |-> {}]
    /\ mails = [m \in Months |-> 0]

-----------------------------------------------------------------------------
(* What happens around the batch: each of these is a bounded event.        *)
Around == /\ events < MaxEvents /\ events' = events + 1
          /\ UNCHANGED <<now, invoices, batch, correction, history>>

DataArrives(m) ==
    /\ Around /\ m \in 1..now /\ data[m] < MaxData /\ data' = [data EXCEPT ![m] = @ + 1]
    /\ UNCHANGED <<status, snapshot, prices, rate, threshold>>
DevicesChange(k) ==
    /\ Around /\ snapshot' = [snapshot EXCEPT ![k] = 1 - @]
    /\ UNCHANGED <<status, data, prices, rate, threshold>>
SetUnitPrice(k, m, p) ==
    /\ Around /\ m > now /\ p # prices[k][m] /\ prices' = [prices EXCEPT ![k][m] = p]
    /\ UNCHANGED <<status, data, snapshot, rate, threshold>>
SetTaxRate(r) ==
    /\ Around /\ r # rate /\ rate' = r /\ UNCHANGED <<status, data, snapshot, prices, threshold>>
SetThreshold(level, amount) ==
    /\ Around /\ amount # threshold[level] /\ threshold' = [threshold EXCEPT ![level] = amount]
    /\ UNCHANGED <<status, data, snapshot, prices, rate>>
ChangeStatus ==
    /\ Around /\ status' = IF status = "active" THEN "suspended" ELSE "active"
    /\ UNCHANGED <<data, snapshot, prices, rate, threshold>>
NextMonth ==
    /\ now < MaxMonth /\ now' = now + 1
    /\ UNCHANGED <<status, data, snapshot, prices, rate, threshold, invoices, batch,
                   correction, events, history>>
Outside ==
    \/ \E m \in Months : DataArrives(m)
    \/ \E k \in {Kept, Live} : DevicesChange(k)
    \/ \E k \in Repriced, m \in Months, p \in Prices : SetUnitPrice(k, m, p)
    \/ \E r \in Rates : SetTaxRate(r)
    \/ \E level \in {"tenant", "platform"}, t \in Thresholds \cup {None} : SetThreshold(level, t)
    \/ ChangeStatus \/ NextMonth

-----------------------------------------------------------------------------
(* The daily worker on this tenant.                                        *)
MissingMonths == IF Rows = {} THEN {}
                 ELSE {m \in Months : Max({invoices[i].ym : i \in Rows}) < m /\ m < now}
\* The rows of the newest month, any of which the query for the preserved count may return.
NewestRows == {i \in Rows : \A j \in Rows : invoices[j].ym <= invoices[i].ym}

Start ==
    /\ batch.pc = "idle" /\ status = "active"
    /\ \E kept \in IF Rows = {} THEN {0} ELSE {invoices[i].items[Kept].quantity : i \in NewestRows} :
         batch' = [Idle EXCEPT !.pc = "past", !.target = now, !.todo = MissingMonths, !.kept = kept]
    /\ UNCHANGED <<inputs, invoices, correction, events, history>>

Backfill ==
    /\ batch.pc = "past" /\ batch.todo # {}
    /\ \E up \in BOOLEAN :
         LET m == Min(batch.todo)
             calc == Calculate(m, Usage(m, up, batch.kept))
         IN  /\ Aggregated(up)
             /\ invoices' = Append(invoices, Invoice(m, "finalized", calc.subtotal, calc.tax, NoItems))
             /\ batch' = [batch EXCEPT !.pc = "backfillItems", !.row = Len(invoices) + 1,
                                       !.items = calc.items, !.todo = @ \ {m}]
             /\ agreed' = [agreed EXCEPT ![m] = calc.subtotal + calc.tax]
    /\ UNCHANGED <<inputs, correction, torn, cut, clashed, counted, mails>>

\* Slips for the mutation runs: final rows are taken too; only last month's draft is.
StaleInvoices == {i \in Rows : invoices[i].ym < batch.target}
LastMonthsDrafts == {i \in Rows : invoices[i].status = "draft" /\ invoices[i].ym = batch.target - 1}
StaleDrafts == {i \in Rows : invoices[i].status = "draft" /\ invoices[i].ym < batch.target}
Finalize ==
    /\ batch.pc = "past" /\ batch.todo = {} /\ StaleDrafts # {}
    /\ \E up \in BOOLEAN :
         LET i == Min(StaleDrafts)
             m == invoices[i].ym
             calc == Calculate(m, Usage(m, up, invoices[i].items[Kept].quantity))
         IN  /\ Aggregated(up)
             /\ invoices' = [invoices EXCEPT ![i].subtotal = calc.subtotal, ![i].tax = calc.tax,
                                             ![i].status = "finalized"]
             /\ batch' = [batch EXCEPT !.pc = "finalizeItems", !.row = i, !.items = calc.items]
             /\ agreed' = [agreed EXCEPT ![m] = calc.subtotal + calc.tax]
    /\ UNCHANGED <<inputs, correction, torn, cut, clashed, counted, mails>>

\* Delete and insert of the line items, one commit; then on to the next phase.
AfterItems == [backfillItems |-> "past", finalizeItems |-> "past", refreshItems |-> "shock"]
ReplaceItems ==
    /\ batch.pc \in DOMAIN AfterItems
    /\ invoices' = [invoices EXCEPT ![batch.row].items = batch.items]
    /\ batch' = [batch EXCEPT !.pc = AfterItems[@], !.items = NoItems]
    /\ counted' = IF batch.pc # "refreshItems" THEN counted
                  ELSE [counted EXCEPT ![batch.target] = @ \cup {batch.items[Kept].quantity}]
    /\ UNCHANGED <<inputs, correction, events, torn, cut, clashed, agreed, mails>>

Draft ==
    /\ batch.pc = "past" /\ batch.todo = {} /\ StaleDrafts = {}
    /\ \/ /\ RowsOf(batch.target) = {}
          /\ invoices' = Append(invoices, Invoice(batch.target, "draft", 0, 0, NoItems))
          /\ batch' = [batch EXCEPT !.pc = "refresh", !.row = Len(invoices) + 1]
       \/ \E i \in RowsOf(batch.target) :
          /\ batch' = IF invoices[i].status = "draft" THEN [batch EXCEPT !.pc = "refresh", !.row = i]
                                                      ELSE Idle
          /\ UNCHANGED invoices
    /\ UNCHANGED <<inputs, correction, events, history>>

Refresh ==
    /\ batch.pc = "refresh"
    /\ \E up \in BOOLEAN :
         LET calc == Calculate(batch.target, Usage(batch.target, up, snapshot[Kept]))
         IN  /\ Aggregated(up)
             /\ invoices' = [invoices EXCEPT ![batch.row].subtotal = calc.subtotal,
                                             ![batch.row].tax = calc.tax]
             /\ batch' = [batch EXCEPT !.pc = "refreshItems", !.items = calc.items]
    /\ UNCHANGED <<inputs, correction, history>>

EffectiveThreshold == IF threshold.tenant # None THEN threshold.tenant ELSE threshold.platform
\* Slip for the mutation runs: the note of the last mail is not read.
IsShockAgain(row) == EffectiveThreshold # None /\ row.subtotal + row.tax > EffectiveThreshold
IsShock(row) == /\ EffectiveThreshold # None /\ ~row.notified
                /\ row.subtotal + row.tax > EffectiveThreshold
Notify ==
    /\ batch.pc = "shock"
    /\ IF IsShock(invoices[batch.row])
       THEN /\ batch' = [batch EXCEPT !.pc = "mark"]
            /\ mails' = [mails EXCEPT ![batch.target] = @ + 1]
       ELSE batch' = Idle /\ UNCHANGED mails
    /\ UNCHANGED <<inputs, invoices, correction, events, torn, cut, clashed, agreed, counted>>
MarkNotified ==
    /\ batch.pc = "mark" /\ batch' = Idle
    /\ invoices' = [invoices EXCEPT ![batch.row].notified = TRUE]
    /\ UNCHANGED <<inputs, correction, events, history>>

Batch == Start \/ Backfill \/ Finalize \/ ReplaceItems \/ Draft \/ Refresh \/ Notify \/ MarkNotified

-----------------------------------------------------------------------------
(* Correction of a finalized month by an administrator: read and compare,  *)
(* insert the row with the difference, insert its items.  "clean" records  *)
(* that no other writer of the month was under way in between.             *)
InFlight(m) == {a \in Admins : correction[a].pc # "idle" /\ correction[a].ym = m}
ItemsPending(m) == batch.pc \in {"backfillItems", "finalizeItems"} /\ invoices[batch.row].ym = m

\* Slip for the mutation runs: earlier corrections are forgotten.
RunningFinal(m) == LET i == CHOOSE i \in RowsOf(m) : invoices[i].status = "finalized"
                   IN  [subtotal |-> invoices[i].subtotal, tax |-> invoices[i].tax]
\* What the rows of the month add up to now, corrections included.
Running(m) == [subtotal |-> Subtotal(m), tax |-> Tax(m)]

\* Slip for the mutation runs: the quantity is a difference, the amount is not.
ItemDeltaInQuantity(calc, m) == [k \in Keys |-> [
    quantity |-> calc.items[k].quantity - Quantity(m, k), amount |-> calc.items[k].amount]]
ItemDelta(calc, m) == [k \in Keys |-> [quantity |-> calc.items[k].quantity - Quantity(m, k),
                                        amount |-> calc.items[k].amount - Amount(m, k)]]

CorrectRead(a, m) ==
    /\ correction[a].pc = "idle" /\ Finalized(m) /\ events < MaxEvents
    /\ events' = events + 1
    /\ \E up \in BOOLEAN :
         LET calc == Calculate(m, Usage(m, up, Quantity(m, Kept)))
             subtotal == calc.subtotal - Running(m).subtotal
             tax == calc.tax - Running(m).tax
         IN  correction' = [b \in Admins |->
               IF b \in InFlight(m) THEN [correction[b] EXCEPT !.clean = FALSE]
               ELSE IF b # a \/ (subtotal = 0 /\ tax = 0) THEN correction[b]
               ELSE [pc |-> "insert", ym |-> m, subtotal |-> subtotal, tax |-> tax, items |-> ItemDelta(calc, m),
                     goal |-> calc.subtotal + calc.tax, row |-> 0,
                     clean |-> InFlight(m) = {} /\ ~ItemsPending(m)]]
    /\ UNCHANGED <<inputs, invoices, batch, history>>

CorrectInsert(a) ==
    LET c == correction[a] IN
    /\ c.pc = "insert"
    /\ invoices' = Append(invoices, Invoice(c.ym, "corrected", c.subtotal, c.tax, NoItems))
    /\ correction' = [correction EXCEPT ![a].pc = "items", ![a].row = Len(invoices) + 1]
    /\ agreed' = [agreed EXCEPT ![c.ym] = c.goal]
    /\ clashed' = IF c.clean THEN clashed \ {c.ym} ELSE clashed \cup {c.ym}
    /\ UNCHANGED <<inputs, batch, events, torn, cut, counted, mails>>

CorrectItems(a) ==
    LET c == correction[a] IN
    /\ c.pc = "items"
    /\ invoices' = [invoices EXCEPT ![c.row].items = c.items]
    /\ correction' = [correction EXCEPT ![a] = NoCorrection]
    /\ torn' = IF c.clean THEN torn \ {c.ym} ELSE torn \cup {c.ym}
    /\ UNCHANGED <<inputs, batch, events, cut, clashed, agreed, counted, mails>>

\* An exception ends one of them where it stands, a restart all of them.
Interrupt(S) ==
    /\ events < MaxEvents /\ events' = events + 1
    /\ "batch" \in S => batch.pc # "idle"
    /\ S \cap Admins # {} => \E a \in S \cap Admins : correction[a].pc # "idle"
    /\ batch' = IF "batch" \in S THEN Idle ELSE batch
    /\ correction' = [a \in Admins |-> IF a \in S THEN NoCorrection ELSE correction[a]]
    /\ torn' = torn \cup {m \in Months : \/ "batch" \in S /\ ItemsPending(m)
                                         \/ \E a \in S \cap InFlight(m) : correction[a].pc = "items"}
    /\ cut' = IF "batch" \in S /\ batch.pc # "idle"
              THEN cut \cup {batch.target} \cup {m \in Months : ItemsPending(m)} ELSE cut
    /\ mails' = IF "batch" \in S /\ batch.pc = "mark"
                THEN [mails EXCEPT ![batch.target] = @ - 1] ELSE mails
    /\ UNCHANGED <<inputs, invoices, clashed, agreed, counted>>

Next == \/ Outside \/ Batch
        \/ \E a \in Admins : (\E m \in Months : CorrectRead(a, m)) \/ CorrectInsert(a) \/ CorrectItems(a)
        \/ \E S \in {{"batch"}, {"batch"} \cup Admins} \cup {{a} : a \in Admins} : Interrupt(S)

\* The worker thread runs once at every start of the service and once a day.
Spec == Init /\ [][Next]_vars /\ WF_vars(Batch)

-----------------------------------------------------------------------------
(* Properties.                                                             *)
Settled(m) == /\ RowsOf(m) # {} /\ \A i \in RowsOf(m) : invoices[i].status # "draft"
              /\ InFlight(m) = {} /\ ~ItemsPending(m)

\* The line items shown for a past month add up to its subtotal, unless a
\* writer of that month was cut off between its two commits, or two of them
\* overlapped, and no correction has repaired it since (billing_batch.py:135, :185).
ItemsAddUp == \A m \in Months :
    Settled(m) /\ m \notin torn => Amount(m, Flow) + Amount(m, Kept) + Amount(m, Live) = Subtotal(m)

\* After any number of corrections the rows of a month add up to what was
\* computed last, tax and rounding included, unless two corrections of the
\* month overlapped (billing_batch.py:103).
TotalsAgree == \A m \in Months :
    Settled(m) /\ m \notin clashed => Subtotal(m) + Tax(m) = agreed[m]

\* A past month is charged for a number of provisionable devices that was
\* counted in that month or before, never for today's, although it is
\* computed again later; only a batch that was cut off may leave it at zero
\* (billing_batch.py:36, :154).
ProvisionableFromThen == \A m \in Months :
    Settled(m) /\ m < now => \/ Quantity(m, Kept) \in UNION {counted[n] : n \in 1..m}
                             \/ Quantity(m, Kept) = 0 /\ cut \cap (1..now) # {}

\* What an invoice row that is final says is never changed, nor is the row
\* removed; its items are written once, by whoever made it final
\* (docs/superpowers/specs: a correction is a new row, billing_batch.py:85).
FinalRowsStay == [][\A i \in Rows : invoices[i].status # "draft" =>
    /\ i \in DOMAIN invoices'
    /\ [invoices'[i] EXCEPT !.items = NoItems] = [invoices[i] EXCEPT !.items = NoItems]
    /\ invoices'[i].items # invoices[i].items =>
         \/ batch.row = i /\ batch.pc \in {"backfillItems", "finalizeItems"}
         \/ \E a \in Admins : correction[a].row = i]_vars

\* The administrators are told once a month at most that the threshold is
\* exceeded, not counting a mail whose note the service failed to store
\* (bill_shock.py:43).
OneMailPerMonth == \A m \in Months : mails[m] <= 1

\* Every month since the first invoice becomes final once it is over, however
\* often the batch failed or was down for months, if the tenant stays active.
PastMonthsGetFinal == <>[](status = "active") =>
    <>[](\A m \in Months : m < now /\ (\E i \in Rows : invoices[i].ym <= m) => Finalized(m))

=============================================================================
