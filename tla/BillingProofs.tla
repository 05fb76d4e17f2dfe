---------------------------- MODULE BillingProofs ----------------------------
(***************************************************************************)
(* Proofs about the invoices, for every number of administrators and       *)
(* months, all prices, rates and thresholds, and any number of events.     *)
(*                                                                         *)
(* The invariant has four parts.  StructInv says where the batch and the   *)
(* corrections are: every month has at most one row that is not a          *)
(* correction, a correction belongs to a month that is final, and only the *)
(* newest month is a draft.  MoneyInv follows the difference between the   *)
(* items and the subtotals of a month through the two commits that write   *)
(* them; MailInv the note that a mail was sent; KeptInv the preserved      *)
(* number of devices from the draft through backfill and finalization.     *)
(* The sums over rows are recursive functions: AllNumbers gives induction  *)
(* over the numbers, from which SumsExist and SumsAgree define them.       *)
(***************************************************************************)
EXTENDS Billing, WellFoundedInduction, TLAPS

-----------------------------------------------------------------------------
(* The inductive invariant, part by part.                                  *)

ItemsStages == {"backfillItems", "finalizeItems"}
DraftStages == {"refresh", "refreshItems", "shock", "mark"}
Line == [quantity : Int, amount : Int]
Sheet == [Keys -> Line]
Row == [ym : Months, status : {"draft", "finalized", "corrected"}, subtotal : Int, tax : Int,
        items : Sheet, notified : BOOLEAN]
BatchState == [pc : {"idle", "past"} \cup ItemsStages \cup DraftStages, target : Nat,
               todo : SUBSET Months, kept : Int, row : Nat, items : Sheet]
CorrectionState == [pc : {"idle", "insert", "items"}, ym : Nat, subtotal : Int, tax : Int,
                    items : Sheet, goal : Int, row : Nat, clean : BOOLEAN]

BillingTypeOK ==
    /\ now \in Months /\ data \in [Months -> Nat] /\ snapshot \in [{Kept, Live} -> 0..1]
    /\ prices \in [Keys -> [Months -> Nat \cup {None}]] /\ rate \in 0..2
    /\ invoices \in Seq(Row)
    /\ batch \in BatchState /\ correction \in [Admins -> CorrectionState]
    /\ agreed \in [Months -> Int] /\ mails \in [Months -> Int]

\* Where the batch and the corrections are.
BatchAt ==
    /\ batch.pc # "idle" => batch.target \in 1..now
    /\ batch.pc \in ItemsStages => batch.row \in Rows /\ invoices[batch.row].status = "finalized"
    /\ batch.pc \in DraftStages =>
         /\ batch.row \in Rows /\ batch.todo = {}
         /\ invoices[batch.row].status = "draft" /\ invoices[batch.row].ym = batch.target
    /\ \A i \in Rows : invoices[i].ym \notin batch.todo
    /\ batch.pc # "idle" => \A m \in batch.todo : m < batch.target
    /\ batch.pc = "idle" => batch.todo = {}
\* A month that is final in the table s.
FinalIn(s, m) == \E i \in DOMAIN s : s[i].ym = m /\ s[i].status = "finalized"
CorrectionAt == \A a \in Admins :
    /\ correction[a].pc # "idle" => correction[a].ym \in Months /\ FinalIn(invoices, correction[a].ym)
    /\ correction[a].pc = "items" =>
         LET i == correction[a].row
         IN  i \in Rows /\ invoices[i].ym = correction[a].ym /\ invoices[i].status = "corrected"

OneBase == \A i, j \in Rows :
    invoices[i].ym = invoices[j].ym /\ invoices[i].status # "corrected" /\ invoices[j].status # "corrected" => i = j
CorrectedHasBase == \A i \in Rows : invoices[i].status = "corrected" => FinalIn(invoices, invoices[i].ym)
InTime == \A i \in Rows :
    /\ invoices[i].ym <= now
    /\ batch.pc # "idle" => invoices[i].ym <= batch.target
    /\ invoices[i].status # "draft" =>
          invoices[i].ym < now /\ (batch.pc # "idle" => invoices[i].ym < batch.target)

SheetSum(items) == items[Flow].amount + items[Kept].amount + items[Live].amount
Diff(m) == (Amount(m, Flow) + Amount(m, Kept) + Amount(m, Live)) - Subtotal(m)
\* A mail that was sent is noted in a row, or the batch is about to note it.
MailInv == \A m \in Months : mails[m] >= 1 =>
    /\ mails[m] = 1
    /\ (\E i \in RowsOf(m) : invoices[i].notified) \/ (batch.pc = "mark" /\ batch.target = m)

-----------------------------------------------------------------------------
(* Sums: what Added computes, by induction over the number of summands.    *)

\* The least element of a set of numbers, and with it induction as a fact about sets.
LEMMA Least ==
    ASSUME NEW S \in SUBSET Nat, S # {}
    PROVE  \E m \in S : \A n \in S : m <= n
<1>1. IsWellFoundedOn(OpToRel(<, Nat), Nat)
  BY NatLessThanWellFounded
<1>2. PICK m \in S : \A n \in S : <<n, m>> \notin OpToRel(<, Nat)
  BY <1>1, WFMin, Zenon
<1>3. \A n \in S : ~(n < m)
  BY <1>2 DEF OpToRel
<1>. QED  BY <1>3

\* Induction over the numbers: a set with 0 and every successor is Nat.
LEMMA AllNumbers ==
    ASSUME NEW S \in SUBSET Nat, 0 \in S, \A n \in S : n + 1 \in S
    PROVE  S = Nat
<1>. SUFFICES ASSUME Nat \ S # {} PROVE FALSE
  OBVIOUS
<1>1. PICK m \in Nat \ S : \A n \in Nat \ S : m <= n
  BY Least
<1>2. m # 0 /\ m - 1 \in Nat /\ (m - 1) + 1 = m
  BY <1>1
<1>3. m - 1 \in S
  BY <1>1, <1>2
<1>. QED  BY <1>1, <1>2, <1>3

\* Min and Max of the community modules return what their names say.
LEMMA MinIn ==
    ASSUME NEW S \in SUBSET Nat, S # {}
    PROVE  Min(S) \in S /\ \A n \in S : Min(S) <= n
BY Least DEF Min

LEMMA MaxIn ==
    ASSUME NEW n \in Nat, NEW S \in SUBSET (1..n), S # {}
    PROVE  Max(S) \in S /\ \A k \in S : k <= Max(S)
<1>. DEFINE T == {j \in 0..n : n - j \in S}
<1>1. PICK x \in S : x \in 1..n
  OBVIOUS
<1>2. n - x \in 0..n /\ n - (n - x) = x
  BY <1>1
<1>3. T \in SUBSET Nat /\ T # {}
  <2>1. n - x \in T
    BY <1>2
  <2>2. \A j \in T : j \in Nat
    OBVIOUS
  <2>. HIDE DEF T
  <2>. QED  BY <2>1, <2>2
<1>4. PICK d \in T : \A e \in T : d <= e
  BY <1>3, Least
<1>5. ASSUME NEW k \in S PROVE k <= n - d
  <2>1. k \in 1..n /\ n - k \in 0..n /\ n - (n - k) = k
    OBVIOUS
  <2>2. n - k \in T
    BY <2>1
  <2>3. d <= n - k /\ d \in Int
    BY <1>4, <2>2
  <2>. QED  BY <2>1, <2>3
<1>6. n - d \in S
  BY <1>4
<1>. HIDE DEF T
<1>. QED  BY <1>5, <1>6 DEF Max

\* The equation of the recursive function inside Added.
IsSums(t, g, n) == t = [k \in 0..n |-> IF k = 0 THEN 0 ELSE t[k - 1] + g[k]]

\* The recursive function inside Added exists, for every list of summands.
LEMMA SumsExist ==
    ASSUME NEW g, NEW n \in Nat
    PROVE  \E t : IsSums(t, g, n)
<1>. DEFINE S == {k \in Nat : \E t : IsSums(t, g, k)}
<1>1. 0 \in S
  <2>1. IsSums([k \in 0..0 |-> 0], g, 0)
    BY DEF IsSums
  <2>. QED  BY <2>1
<1>2. ASSUME NEW k \in S PROVE k + 1 \in S
  <2>1. PICK t : IsSums(t, g, k)
    OBVIOUS
  <2>. DEFINE u == [j \in 0..k + 1 |-> IF j = k + 1 THEN t[k] + g[k + 1] ELSE t[j]]
  <2>2. IsSums(u, g, k + 1)
    BY <2>1 DEF IsSums
  <2>. QED  BY <2>2
<1>. HIDE DEF S
<1>3. S = Nat
  BY <1>1, <1>2, AllNumbers DEF S
<1>. QED  BY <1>3 DEF S

\* The table of sums is the only one, up to where two of them reach.
LEMMA SumsAgree ==
    ASSUME NEW g, NEW n \in Nat, NEW t, IsSums(t, g, n), NEW p \in Nat, NEW u, IsSums(u, g, p),
           NEW k \in Nat, k <= n, k <= p
    PROVE  t[k] = u[k]
<1>. DEFINE S == {j \in Nat : j <= n /\ j <= p => t[j] = u[j]}
<1>1. 0 \in S
  BY DEF IsSums
<1>2. ASSUME NEW j \in S PROVE j + 1 \in S
  BY DEF IsSums
<1>. HIDE DEF S
<1>3. S = Nat
  BY <1>1, <1>2, AllNumbers DEF S
<1>. QED  BY <1>3 DEF S

\* So Added is its value at n, whichever function CHOOSE takes.
LEMMA AddedIsSum ==
    ASSUME NEW g, NEW n \in Nat, NEW t, IsSums(t, g, n)
    PROVE  Added(g, n) = t[n]
<1>. DEFINE c == CHOOSE u : IsSums(u, g, n)
<1>1. IsSums(c, g, n)
  OBVIOUS
<1>2. Added(g, n) = c[n]
  BY DEF Added, IsSums
<1>. HIDE DEF c
<1>. QED  BY <1>1, <1>2, SumsAgree

\* How the sum grows.
LEMMA AddedStep ==
    ASSUME NEW g, NEW n \in Nat
    PROVE  /\ Added(g, 0) = 0
           /\ Added(g, n + 1) = Added(g, n) + g[n + 1]
<1>1. PICK t : IsSums(t, g, n + 1)
  BY SumsExist
<1>. DEFINE u == [k \in 0..n |-> t[k]]
<1>2. IsSums(u, g, n)
  BY <1>1 DEF IsSums
<1>3. Added(g, n + 1) = t[n + 1] /\ Added(g, n) = t[n]
  BY <1>1, <1>2, AddedIsSum
<1>4. PICK z : IsSums(z, g, 0)
  BY SumsExist
<1>5. z[0] = 0
  BY <1>4 DEF IsSums
<1>6. Added(g, 0) = 0
  BY <1>4, <1>5, AddedIsSum
<1>. QED  BY <1>1, <1>3, <1>6 DEF IsSums

\* Sums of integers are integers; equal summands, equal sums.
LEMMA AddedInt ==
    ASSUME NEW g, NEW n \in Nat, \A i \in 1..n : g[i] \in Int
    PROVE  Added(g, n) \in Int
<1>. DEFINE S == {k \in Nat : k <= n => Added(g, k) \in Int}
<1>1. 0 \in S
  BY AddedStep
<1>2. ASSUME NEW k \in S PROVE k + 1 \in S
  <2>1. Added(g, k + 1) = Added(g, k) + g[k + 1]
    BY AddedStep
  <2>. QED  BY <2>1
<1>. HIDE DEF S
<1>3. S = Nat
  BY <1>1, <1>2, AllNumbers DEF S
<1>. QED  BY <1>3 DEF S

\* Only one element has changed: so has the sum, by as much.
LEMMA AddedChange ==
    ASSUME NEW g, NEW h, NEW n \in Nat, NEW i \in 1..n,
           \A j \in 1..n : g[j] \in Int /\ h[j] \in Int /\ (j # i => h[j] = g[j])
    PROVE  Added(h, n) = Added(g, n) + h[i] - g[i]
<1>. DEFINE S == {k \in Nat : k <= n => Added(h, k) = Added(g, k) + IF i <= k THEN h[i] - g[i] ELSE 0}
<1>1. 0 \in S
  BY AddedStep
<1>2. ASSUME NEW k \in S PROVE k + 1 \in S
  <2>. SUFFICES ASSUME k + 1 <= n PROVE k + 1 \in S
    OBVIOUS
  <2>1. Added(g, k + 1) = Added(g, k) + g[k + 1] /\ Added(h, k + 1) = Added(h, k) + h[k + 1]
    BY AddedStep
  <2>2. Added(g, k) \in Int
    BY AddedInt
  <2>3. Added(h, k) = Added(g, k) + IF i <= k THEN h[i] - g[i] ELSE 0
    OBVIOUS
  <2>4. k \in Nat /\ k + 1 \in 1..n
    OBVIOUS
  <2>. HIDE DEF S
  <2>5. CASE i = k + 1
    BY <2>1, <2>2, <2>3, <2>4, <2>5 DEF S
  <2>6. CASE i # k + 1
    <3>1. h[k + 1] = g[k + 1] /\ (i <= k + 1 <=> i <= k)
      BY <2>4, <2>6
    <3>. QED  BY <2>1, <2>2, <2>3, <2>4, <3>1 DEF S
  <2>. QED  BY <2>5, <2>6
<1>. HIDE DEF S
<1>3. S = Nat
  BY <1>1, <1>2, AllNumbers DEF S
<1>. QED  BY <1>3 DEF S

LEMMA AddedSame ==
    ASSUME NEW g, NEW h, NEW n \in Nat, \A i \in 1..n : g[i] = h[i]
    PROVE  Added(g, n) = Added(h, n)
<1>. DEFINE S == {k \in Nat : k <= n => Added(g, k) = Added(h, k)}
<1>1. 0 \in S
  BY AddedStep
<1>2. ASSUME NEW k \in S PROVE k + 1 \in S
  <2>1. Added(g, k + 1) = Added(g, k) + g[k + 1] /\ Added(h, k + 1) = Added(h, k) + h[k + 1]
    BY AddedStep
  <2>. QED  BY <2>1
<1>. HIDE DEF S
<1>3. S = Nat
  BY <1>1, <1>2, AllNumbers DEF S
<1>. QED  BY <1>3 DEF S

\* Zeros add up to zero.
LEMMA AddedZero ==
    ASSUME NEW g, NEW n \in Nat, \A i \in 1..n : g[i] = 0
    PROVE  Added(g, n) = 0
<1>. DEFINE S == {k \in Nat : k <= n => Added(g, k) = 0}
<1>1. 0 \in S
  BY AddedStep
<1>2. ASSUME NEW k \in S PROVE k + 1 \in S
  <2>1. Added(g, k + 1) = Added(g, k) + g[k + 1]
    BY AddedStep
  <2>. QED  BY <2>1
<1>. HIDE DEF S
<1>3. S = Nat
  BY <1>1, <1>2, AllNumbers DEF S
<1>. QED  BY <1>3 DEF S

\* All but one element are zero.
LEMMA AddedOne ==
    ASSUME NEW g, NEW n \in Nat, NEW i \in 1..n, g[i] \in Int, \A j \in 1..n : j # i => g[j] = 0
    PROVE  Added(g, n) = g[i]
<1>. DEFINE z == [j \in 1..n |-> 0]
<1>1. Added(z, n) = 0
  BY AddedZero
<1>2. \A j \in 1..n : z[j] \in Int /\ g[j] \in Int /\ (j # i => g[j] = z[j])
  OBVIOUS
<1>3. z[i] = 0
  OBVIOUS
<1>. HIDE DEF z
<1>4. Added(g, n) = Added(z, n) + g[i] - z[i]
  BY <1>2, AddedChange
<1>. QED  BY <1>1, <1>3, <1>4

-----------------------------------------------------------------------------
(* What the rows of a month add up to when a row is added or changed.      *)

\* What the rows of a month in the table s add up to, as a function of the table.
SubtotalIn(s, m) == Added([n \in DOMAIN s |-> IF s[n].ym = m THEN s[n].subtotal ELSE 0], Len(s))
TaxIn(s, m) == Added([n \in DOMAIN s |-> IF s[n].ym = m THEN s[n].tax ELSE 0], Len(s))
QuantityIn(s, m, k) == Added([n \in DOMAIN s |-> IF s[n].ym = m THEN s[n].items[k].quantity ELSE 0], Len(s))
AmountIn(s, m, k) == Added([n \in DOMAIN s |-> IF s[n].ym = m THEN s[n].items[k].amount ELSE 0], Len(s))

\* The columns of a row.
LEMMA RowTyped ==
    ASSUME NEW r \in Row
    PROVE  /\ r.subtotal \in Int /\ r.tax \in Int /\ r.ym \in Months /\ r.items \in Sheet
           /\ \A k \in Keys : r.items[k].quantity \in Int /\ r.items[k].amount \in Int
BY DEF Row, Sheet, Line

\* The totals of the model are those of the table invoices.
LEMMA TotalsIn ==
    ASSUME NEW m
    PROVE  /\ Subtotal(m) = SubtotalIn(invoices, m) /\ Subtotal(m)' = SubtotalIn(invoices', m)
           /\ Tax(m) = TaxIn(invoices, m) /\ Tax(m)' = TaxIn(invoices', m)
           /\ \A k : /\ Quantity(m, k) = QuantityIn(invoices, m, k)
                     /\ Quantity(m, k)' = QuantityIn(invoices', m, k)
                     /\ Amount(m, k) = AmountIn(invoices, m, k)
                     /\ Amount(m, k)' = AmountIn(invoices', m, k)
<1>1. Subtotal(m) = SubtotalIn(invoices, m) /\ Subtotal(m)' = SubtotalIn(invoices', m)
  BY DEF Subtotal, Total, SubtotalIn, Rows
<1>2. Tax(m) = TaxIn(invoices, m) /\ Tax(m)' = TaxIn(invoices', m)
  BY DEF Tax, Total, TaxIn, Rows
<1>3. ASSUME NEW k
      PROVE  /\ Quantity(m, k) = QuantityIn(invoices, m, k)
             /\ Quantity(m, k)' = QuantityIn(invoices', m, k)
             /\ Amount(m, k) = AmountIn(invoices, m, k)
             /\ Amount(m, k)' = AmountIn(invoices', m, k)
  BY DEF Quantity, Amount, Total, QuantityIn, AmountIn, Rows
<1>. QED  BY <1>1, <1>2, <1>3

\* One summand more.
LEMMA AddedMore ==
    ASSUME NEW g, NEW h, NEW n \in Nat, \A i \in 1..n : g[i] = h[i]
    PROVE  Added(h, n + 1) = Added(g, n) + h[n + 1]
BY AddedSame, AddedStep

\* Totals are integers.
LEMMA TotalsTyped ==
    ASSUME NEW s \in Seq(Row), NEW m
    PROVE  /\ SubtotalIn(s, m) \in Int /\ TaxIn(s, m) \in Int
           /\ \A k \in Keys : QuantityIn(s, m, k) \in Int /\ AmountIn(s, m, k) \in Int
<1>1. Len(s) \in Nat /\ DOMAIN s = 1..Len(s) /\ \A i \in 1..Len(s) : s[i] \in Row
  OBVIOUS
<1>2. SubtotalIn(s, m) \in Int
  BY <1>1, AddedInt, RowTyped DEF SubtotalIn
<1>3. TaxIn(s, m) \in Int
  BY <1>1, AddedInt, RowTyped DEF TaxIn
<1>4. ASSUME NEW k \in Keys PROVE QuantityIn(s, m, k) \in Int
  <2>. DEFINE g == [j \in DOMAIN s |-> IF s[j].ym = m THEN s[j].items[k].quantity ELSE 0]
  <2>1. \A j \in 1..Len(s) : g[j] \in Int
    BY <1>1, RowTyped
  <2>2. QuantityIn(s, m, k) = Added(g, Len(s))
    BY DEF QuantityIn
  <2>. HIDE DEF g
  <2>. QED  BY <1>1, <2>1, <2>2, AddedInt
<1>5. ASSUME NEW k \in Keys PROVE AmountIn(s, m, k) \in Int
  <2>. DEFINE g == [j \in DOMAIN s |-> IF s[j].ym = m THEN s[j].items[k].amount ELSE 0]
  <2>1. \A j \in 1..Len(s) : g[j] \in Int
    BY <1>1, RowTyped
  <2>2. AmountIn(s, m, k) = Added(g, Len(s))
    BY DEF AmountIn
  <2>. HIDE DEF g
  <2>. QED  BY <1>1, <2>1, <2>2, AddedInt
<1>. QED  BY <1>2, <1>3, <1>4, <1>5

\* A new row adds its columns to its month and nothing to the others.
LEMMA TotalsAppend ==
    ASSUME NEW s \in Seq(Row), NEW r \in Row, NEW m
    PROVE  LET t == Append(s, r) IN
           /\ (r.ym = m => SubtotalIn(t, m) = SubtotalIn(s, m) + r.subtotal) /\ (r.ym # m => SubtotalIn(t, m) = SubtotalIn(s, m))
           /\ (r.ym = m => TaxIn(t, m) = TaxIn(s, m) + r.tax) /\ (r.ym # m => TaxIn(t, m) = TaxIn(s, m))
           /\ \A k \in Keys :
                /\ (r.ym = m => QuantityIn(t, m, k) = QuantityIn(s, m, k) + r.items[k].quantity) /\ (r.ym # m => QuantityIn(t, m, k) = QuantityIn(s, m, k))
                /\ (r.ym = m => AmountIn(t, m, k) = AmountIn(s, m, k) + r.items[k].amount) /\ (r.ym # m => AmountIn(t, m, k) = AmountIn(s, m, k))
<1>. DEFINE t == Append(s, r)
            n == Len(s)
<1>1. /\ n \in Nat /\ DOMAIN s = 1..n /\ DOMAIN t = 1..n + 1 /\ Len(t) = n + 1
      /\ t[n + 1] = r /\ \A j \in 1..n : t[j] = s[j]
  OBVIOUS
<1>t. SubtotalIn(s, m) \in Int /\ TaxIn(s, m) \in Int /\ \A k \in Keys : QuantityIn(s, m, k) \in Int /\ AmountIn(s, m, k) \in Int
  BY TotalsTyped
<1>. HIDE DEF t, n
<1>2. (r.ym = m => SubtotalIn(t, m) = SubtotalIn(s, m) + r.subtotal) /\ (r.ym # m => SubtotalIn(t, m) = SubtotalIn(s, m))
  <2>. DEFINE g == [j \in DOMAIN s |-> IF s[j].ym = m THEN s[j].subtotal ELSE 0]
              h == [j \in DOMAIN t |-> IF t[j].ym = m THEN t[j].subtotal ELSE 0]
  <2>1. (\A j \in 1..n : g[j] = h[j]) /\ h[n + 1] = IF r.ym = m THEN r.subtotal ELSE 0
    BY <1>1
  <2>2. SubtotalIn(s, m) = Added(g, n) /\ SubtotalIn(t, m) = Added(h, n + 1)
    BY <1>1 DEF SubtotalIn, n
  <2>. HIDE DEF g, h
  <2>0. n \in Nat /\ \A j \in 1..n : g[j] = h[j]
    BY <1>1, <2>1
  <2>3. Added(h, n + 1) = Added(g, n) + h[n + 1]
    BY <2>0, AddedMore
  <2>. QED  BY <1>t, <2>1, <2>2, <2>3
<1>3. (r.ym = m => TaxIn(t, m) = TaxIn(s, m) + r.tax) /\ (r.ym # m => TaxIn(t, m) = TaxIn(s, m))
  <2>. DEFINE g == [j \in DOMAIN s |-> IF s[j].ym = m THEN s[j].tax ELSE 0]
              h == [j \in DOMAIN t |-> IF t[j].ym = m THEN t[j].tax ELSE 0]
  <2>1. (\A j \in 1..n : g[j] = h[j]) /\ h[n + 1] = IF r.ym = m THEN r.tax ELSE 0
    BY <1>1
  <2>2. TaxIn(s, m) = Added(g, n) /\ TaxIn(t, m) = Added(h, n + 1)
    BY <1>1 DEF TaxIn, n
  <2>. HIDE DEF g, h
  <2>0. n \in Nat /\ \A j \in 1..n : g[j] = h[j]
    BY <1>1, <2>1
  <2>3. Added(h, n + 1) = Added(g, n) + h[n + 1]
    BY <2>0, AddedMore
  <2>. QED  BY <1>t, <2>1, <2>2, <2>3
<1>4. ASSUME NEW k \in Keys PROVE (r.ym = m => QuantityIn(t, m, k) = QuantityIn(s, m, k) + r.items[k].quantity) /\ (r.ym # m => QuantityIn(t, m, k) = QuantityIn(s, m, k))
  <2>. DEFINE g == [j \in DOMAIN s |-> IF s[j].ym = m THEN s[j].items[k].quantity ELSE 0]
              h == [j \in DOMAIN t |-> IF t[j].ym = m THEN t[j].items[k].quantity ELSE 0]
  <2>1. (\A j \in 1..n : g[j] = h[j]) /\ h[n + 1] = IF r.ym = m THEN r.items[k].quantity ELSE 0
    BY <1>1
  <2>2. QuantityIn(s, m, k) = Added(g, n) /\ QuantityIn(t, m, k) = Added(h, n + 1)
    BY <1>1 DEF QuantityIn, n
  <2>. HIDE DEF g, h
  <2>0. n \in Nat /\ \A j \in 1..n : g[j] = h[j]
    BY <1>1, <2>1
  <2>3. Added(h, n + 1) = Added(g, n) + h[n + 1]
    BY <2>0, AddedMore
  <2>. QED  BY <1>t, <2>1, <2>2, <2>3
<1>5. ASSUME NEW k \in Keys PROVE (r.ym = m => AmountIn(t, m, k) = AmountIn(s, m, k) + r.items[k].amount) /\ (r.ym # m => AmountIn(t, m, k) = AmountIn(s, m, k))
  <2>. DEFINE g == [j \in DOMAIN s |-> IF s[j].ym = m THEN s[j].items[k].amount ELSE 0]
              h == [j \in DOMAIN t |-> IF t[j].ym = m THEN t[j].items[k].amount ELSE 0]
  <2>1. (\A j \in 1..n : g[j] = h[j]) /\ h[n + 1] = IF r.ym = m THEN r.items[k].amount ELSE 0
    BY <1>1
  <2>2. AmountIn(s, m, k) = Added(g, n) /\ AmountIn(t, m, k) = Added(h, n + 1)
    BY <1>1 DEF AmountIn, n
  <2>. HIDE DEF g, h
  <2>0. n \in Nat /\ \A j \in 1..n : g[j] = h[j]
    BY <1>1, <2>1
  <2>3. Added(h, n + 1) = Added(g, n) + h[n + 1]
    BY <2>0, AddedMore
  <2>. QED  BY <1>t, <2>1, <2>2, <2>3
<1>. QED  BY <1>2, <1>3, <1>4, <1>5 DEF t

\* The table with another row in place of its row i.
Put(s, i, r) == [s EXCEPT ![i] = r]

\* A changed row adds the difference.
LEMMA TotalsUpdate ==
    ASSUME NEW s \in Seq(Row), NEW i \in DOMAIN s, NEW r \in Row, r.ym = s[i].ym, NEW m
    PROVE  /\ (r.ym = m => SubtotalIn(Put(s, i, r), m) = SubtotalIn(s, m) + (r.subtotal - s[i].subtotal)) /\ (r.ym # m => SubtotalIn(Put(s, i, r), m) = SubtotalIn(s, m))
           /\ (r.ym = m => TaxIn(Put(s, i, r), m) = TaxIn(s, m) + (r.tax - s[i].tax)) /\ (r.ym # m => TaxIn(Put(s, i, r), m) = TaxIn(s, m))
           /\ \A k \in Keys :
                /\ (r.ym = m => QuantityIn(Put(s, i, r), m, k) = QuantityIn(s, m, k) + (r.items[k].quantity - s[i].items[k].quantity)) /\ (r.ym # m => QuantityIn(Put(s, i, r), m, k) = QuantityIn(s, m, k))
                /\ (r.ym = m => AmountIn(Put(s, i, r), m, k) = AmountIn(s, m, k) + (r.items[k].amount - s[i].items[k].amount)) /\ (r.ym # m => AmountIn(Put(s, i, r), m, k) = AmountIn(s, m, k))
<1>. DEFINE t == Put(s, i, r)
            n == Len(s)
<1>1. /\ n \in Nat /\ DOMAIN s = 1..n /\ DOMAIN t = 1..n /\ Len(t) = n /\ i \in 1..n
      /\ t[i] = r /\ \A j \in 1..n : t[j] \in Row /\ s[j] \in Row /\ (j # i => t[j] = s[j])
  BY DEF Put
<1>. HIDE DEF t, n
<1>t. s[i] \in Row /\ s[i].ym = r.ym
  BY <1>1
<1>2. (r.ym = m => SubtotalIn(t, m) = SubtotalIn(s, m) + (r.subtotal - s[i].subtotal)) /\ (r.ym # m => SubtotalIn(t, m) = SubtotalIn(s, m))
  <2>. DEFINE g == [j \in DOMAIN s |-> IF s[j].ym = m THEN s[j].subtotal ELSE 0]
              h == [j \in DOMAIN t |-> IF t[j].ym = m THEN t[j].subtotal ELSE 0]
  <2>1. \A j \in 1..n : g[j] \in Int /\ h[j] \in Int /\ (j # i => h[j] = g[j])
    BY <1>1, RowTyped
  <2>2. /\ h[i] = (IF r.ym = m THEN r.subtotal ELSE 0)
        /\ g[i] = (IF r.ym = m THEN s[i].subtotal ELSE 0)
    BY <1>1
  <2>3. SubtotalIn(s, m) = Added(g, n) /\ SubtotalIn(t, m) = Added(h, n)
    BY <1>1 DEF SubtotalIn, n
  <2>4. r.subtotal \in Int /\ s[i].subtotal \in Int
    BY <1>t, RowTyped
  <2>. HIDE DEF g, h
  <2>5. Added(h, n) = Added(g, n) + h[i] - g[i] /\ Added(g, n) \in Int
    BY <1>1, <2>1, AddedChange, AddedInt
  <2>. QED  BY <2>2, <2>3, <2>4, <2>5
<1>3. (r.ym = m => TaxIn(t, m) = TaxIn(s, m) + (r.tax - s[i].tax)) /\ (r.ym # m => TaxIn(t, m) = TaxIn(s, m))
  <2>. DEFINE g == [j \in DOMAIN s |-> IF s[j].ym = m THEN s[j].tax ELSE 0]
              h == [j \in DOMAIN t |-> IF t[j].ym = m THEN t[j].tax ELSE 0]
  <2>1. \A j \in 1..n : g[j] \in Int /\ h[j] \in Int /\ (j # i => h[j] = g[j])
    BY <1>1, RowTyped
  <2>2. /\ h[i] = (IF r.ym = m THEN r.tax ELSE 0)
        /\ g[i] = (IF r.ym = m THEN s[i].tax ELSE 0)
    BY <1>1
  <2>3. TaxIn(s, m) = Added(g, n) /\ TaxIn(t, m) = Added(h, n)
    BY <1>1 DEF TaxIn, n
  <2>4. r.tax \in Int /\ s[i].tax \in Int
    BY <1>t, RowTyped
  <2>. HIDE DEF g, h
  <2>5. Added(h, n) = Added(g, n) + h[i] - g[i] /\ Added(g, n) \in Int
    BY <1>1, <2>1, AddedChange, AddedInt
  <2>. QED  BY <2>2, <2>3, <2>4, <2>5
<1>4. ASSUME NEW k \in Keys PROVE (r.ym = m => QuantityIn(t, m, k) = QuantityIn(s, m, k) + (r.items[k].quantity - s[i].items[k].quantity)) /\ (r.ym # m => QuantityIn(t, m, k) = QuantityIn(s, m, k))
  <2>. DEFINE g == [j \in DOMAIN s |-> IF s[j].ym = m THEN s[j].items[k].quantity ELSE 0]
              h == [j \in DOMAIN t |-> IF t[j].ym = m THEN t[j].items[k].quantity ELSE 0]
  <2>1. \A j \in 1..n : g[j] \in Int /\ h[j] \in Int /\ (j # i => h[j] = g[j])
    BY <1>1, RowTyped
  <2>2. /\ h[i] = (IF r.ym = m THEN r.items[k].quantity ELSE 0)
        /\ g[i] = (IF r.ym = m THEN s[i].items[k].quantity ELSE 0)
    BY <1>1
  <2>3. QuantityIn(s, m, k) = Added(g, n) /\ QuantityIn(t, m, k) = Added(h, n)
    BY <1>1 DEF QuantityIn, n
  <2>4. r.items[k].quantity \in Int /\ s[i].items[k].quantity \in Int
    BY <1>t, RowTyped
  <2>. HIDE DEF g, h
  <2>5. Added(h, n) = Added(g, n) + h[i] - g[i] /\ Added(g, n) \in Int
    BY <1>1, <2>1, AddedChange, AddedInt
  <2>. QED  BY <2>2, <2>3, <2>4, <2>5
<1>5. ASSUME NEW k \in Keys PROVE (r.ym = m => AmountIn(t, m, k) = AmountIn(s, m, k) + (r.items[k].amount - s[i].items[k].amount)) /\ (r.ym # m => AmountIn(t, m, k) = AmountIn(s, m, k))
  <2>. DEFINE g == [j \in DOMAIN s |-> IF s[j].ym = m THEN s[j].items[k].amount ELSE 0]
              h == [j \in DOMAIN t |-> IF t[j].ym = m THEN t[j].items[k].amount ELSE 0]
  <2>1. \A j \in 1..n : g[j] \in Int /\ h[j] \in Int /\ (j # i => h[j] = g[j])
    BY <1>1, RowTyped
  <2>2. /\ h[i] = (IF r.ym = m THEN r.items[k].amount ELSE 0)
        /\ g[i] = (IF r.ym = m THEN s[i].items[k].amount ELSE 0)
    BY <1>1
  <2>3. AmountIn(s, m, k) = Added(g, n) /\ AmountIn(t, m, k) = Added(h, n)
    BY <1>1 DEF AmountIn, n
  <2>4. r.items[k].amount \in Int /\ s[i].items[k].amount \in Int
    BY <1>t, RowTyped
  <2>. HIDE DEF g, h
  <2>5. Added(h, n) = Added(g, n) + h[i] - g[i] /\ Added(g, n) \in Int
    BY <1>1, <2>1, AddedChange, AddedInt
  <2>. QED  BY <2>2, <2>3, <2>4, <2>5
<1>. QED  BY <1>2, <1>3, <1>4, <1>5 DEF t

\* A month with one row only, and one without any.
LEMMA TotalsOne ==
    ASSUME NEW s \in Seq(Row), NEW m, NEW i \in DOMAIN s, s[i].ym = m,
           \A j \in DOMAIN s : s[j].ym = m => j = i
    PROVE  /\ SubtotalIn(s, m) = s[i].subtotal /\ TaxIn(s, m) = s[i].tax
           /\ \A k \in Keys : AmountIn(s, m, k) = s[i].items[k].amount
<1>. DEFINE n == Len(s)
<1>1. n \in Nat /\ DOMAIN s = 1..n /\ i \in 1..n /\ s[i] \in Row
  OBVIOUS
<1>. HIDE DEF n
<1>2. SubtotalIn(s, m) = s[i].subtotal
  <2>. DEFINE g == [j \in DOMAIN s |-> IF s[j].ym = m THEN s[j].subtotal ELSE 0]
  <2>1. g[i] = s[i].subtotal /\ g[i] \in Int /\ \A j \in 1..n : j # i => g[j] = 0
    BY <1>1, RowTyped
  <2>2. SubtotalIn(s, m) = Added(g, n)
    BY <1>1 DEF SubtotalIn, n
  <2>. HIDE DEF g
  <2>. QED  BY <1>1, <2>1, <2>2, AddedOne
<1>3. TaxIn(s, m) = s[i].tax
  <2>. DEFINE g == [j \in DOMAIN s |-> IF s[j].ym = m THEN s[j].tax ELSE 0]
  <2>1. g[i] = s[i].tax /\ g[i] \in Int /\ \A j \in 1..n : j # i => g[j] = 0
    BY <1>1, RowTyped
  <2>2. TaxIn(s, m) = Added(g, n)
    BY <1>1 DEF TaxIn, n
  <2>. HIDE DEF g
  <2>. QED  BY <1>1, <2>1, <2>2, AddedOne
<1>4. ASSUME NEW k \in Keys PROVE AmountIn(s, m, k) = s[i].items[k].amount
  <2>. DEFINE g == [j \in DOMAIN s |-> IF s[j].ym = m THEN s[j].items[k].amount ELSE 0]
  <2>1. g[i] = s[i].items[k].amount /\ g[i] \in Int /\ \A j \in 1..n : j # i => g[j] = 0
    BY <1>1, RowTyped
  <2>2. AmountIn(s, m, k) = Added(g, n)
    BY <1>1 DEF AmountIn, n
  <2>. HIDE DEF g
  <2>. QED  BY <1>1, <2>1, <2>2, AddedOne
<1>. QED  BY <1>2, <1>3, <1>4

\* A month without rows adds up to zero.
LEMMA TotalsNone ==
    ASSUME NEW s \in Seq(Row), NEW m, \A j \in DOMAIN s : s[j].ym # m
    PROVE  /\ SubtotalIn(s, m) = 0 /\ TaxIn(s, m) = 0
           /\ \A k \in Keys : AmountIn(s, m, k) = 0
<1>1. Len(s) \in Nat /\ DOMAIN s = 1..Len(s)
  OBVIOUS
<1>2. SubtotalIn(s, m) = 0 /\ TaxIn(s, m) = 0
  BY <1>1, AddedZero DEF SubtotalIn, TaxIn
<1>3. ASSUME NEW k \in Keys PROVE AmountIn(s, m, k) = 0
  BY <1>1, AddedZero DEF AmountIn
<1>. QED  BY <1>2, <1>3

\* Only one row of the month counts devices.
LEMMA QuantityOne ==
    ASSUME NEW s \in Seq(Row), NEW m, NEW k \in Keys, NEW i \in DOMAIN s, s[i].ym = m,
           \A j \in DOMAIN s : s[j].ym = m /\ j # i => s[j].items[k].quantity = 0
    PROVE  QuantityIn(s, m, k) = s[i].items[k].quantity
<1>. DEFINE n == Len(s)
            g == [j \in DOMAIN s |-> IF s[j].ym = m THEN s[j].items[k].quantity ELSE 0]
<1>1. n \in Nat /\ DOMAIN s = 1..n /\ i \in 1..n /\ s[i] \in Row
  OBVIOUS
<1>2. g[i] = s[i].items[k].quantity /\ g[i] \in Int /\ \A j \in 1..n : j # i => g[j] = 0
  BY <1>1, RowTyped
<1>3. QuantityIn(s, m, k) = Added(g, n)
  BY <1>1 DEF QuantityIn
<1>. HIDE DEF g, n
<1>. QED  BY <1>1, <1>2, <1>3, AddedOne

-----------------------------------------------------------------------------
(* Types: the calculation and the steps around the batch.                  *)

\* An effective price is a number.
LEMMA PriceTyped ==
    ASSUME BillingTypeOK, NEW k \in Keys, NEW m \in Months
    PROVE  EffectivePrice(k, m) \in Nat
<1>. DEFINE S == {n \in 1..m : prices[k][n] # None}
<1>1. EffectivePrice(k, m) = IF S = {} THEN 0 ELSE prices[k][Max(S)]
  BY DEF EffectivePrice
<1>2. S \in SUBSET (1..m) /\ m \in Nat /\ \A n \in S : n \in Months /\ prices[k][n] \in Nat
  BY BillingAssumption DEF BillingTypeOK, Months
<1>. HIDE DEF S
<1>3. CASE S = {}
  BY <1>1, <1>3
<1>4. CASE S # {}
  <2>1. Max(S) \in S
    BY <1>2, <1>4, MaxIn
  <2>. QED  BY <1>1, <1>2, <1>4, <2>1
<1>. QED  BY <1>3, <1>4

\* The subtotal of a calculation is the sum of its items (billing.py).
LEMMA CalculateTyped ==
    ASSUME BillingTypeOK, NEW m \in Months, NEW usage \in [Keys -> Int]
    PROVE  LET calc == Calculate(m, usage) IN
           /\ calc.items \in Sheet /\ calc.subtotal \in Int /\ calc.tax \in Int
           /\ SheetSum(calc.items) = calc.subtotal
           /\ \A k \in Keys : calc.items[k].quantity = usage[k]
<1>. DEFINE items == [k \in Keys |-> [quantity |-> usage[k],
                                      amount |-> (usage[k] * EffectivePrice(k, m)) \div 2]]
            subtotal == items[Flow].amount + items[Kept].amount + items[Live].amount
<1>1. \A k \in Keys : EffectivePrice(k, m) \in Nat
  BY PriceTyped
<1>2. ASSUME NEW k \in Keys PROVE (usage[k] * EffectivePrice(k, m)) \div 2 \in Int
  <2>1. \A x \in Int : x \div 2 \in Int
    OBVIOUS
  <2>2. usage[k] * EffectivePrice(k, m) \in Int
    BY <1>1
  <2>. QED  BY <2>1, <2>2
<1>3. items \in Sheet
  BY <1>2 DEF Sheet, Line
<1>4. subtotal \in Int
  BY <1>2 DEF Keys
<1>5. rate \in Int /\ \A x \in Int : (x * rate) \div 2 \in Int
  BY DEF BillingTypeOK
<1>6. Calculate(m, usage) = [items |-> items, subtotal |-> subtotal, tax |-> (subtotal * rate) \div 2]
  BY DEF Calculate
<1>. QED  BY <1>3, <1>4, <1>5, <1>6 DEF SheetSum, Keys

\* Usage gives every key a number, the preserved one as passed in.
LEMMA UsageTyped ==
    ASSUME BillingTypeOK, NEW m \in Months, NEW up \in BOOLEAN, NEW kept \in Int
    PROVE  Usage(m, up, kept) \in [Keys -> Int] /\ Usage(m, up, kept)[Kept] = kept
BY DEF Usage, BillingTypeOK, Keys, Flow, Kept, Live

\* What the aggregation of a month yields.
LEMMA Aggregation ==
    ASSUME BillingTypeOK, NEW m \in Months, NEW up \in BOOLEAN, NEW kept \in Int
    PROVE  LET calc == Calculate(m, Usage(m, up, kept)) IN
           /\ calc.items \in Sheet /\ calc.subtotal \in Int /\ calc.tax \in Int
           /\ SheetSum(calc.items) = calc.subtotal
           /\ calc.items[Kept].quantity = kept
<1>1. Usage(m, up, kept) \in [Keys -> Int] /\ Usage(m, up, kept)[Kept] = kept
  BY UsageTyped
<1>2. Kept \in Keys
  BY DEF Keys
<1>. QED  BY <1>1, <1>2, CalculateTyped

\* What the world around the batch changes.
LEMMA OutsideKeeps ==
    ASSUME BillingTypeOK, Outside
    PROVE  BillingTypeOK' /\ UNCHANGED <<invoices, batch, correction, history>> /\ now <= now'
<1>. USE DEF BillingTypeOK, Around
<1>1. ASSUME NEW m \in Months, DataArrives(m) PROVE BillingTypeOK'
  BY <1>1 DEF DataArrives, history
<1>2. ASSUME NEW k \in {Kept, Live}, DevicesChange(k) PROVE BillingTypeOK'
  BY <1>2 DEF DevicesChange, history
<1>3. ASSUME NEW k \in Repriced, NEW m \in Months, NEW p \in Prices, SetUnitPrice(k, m, p)
      PROVE  BillingTypeOK'
  <2>1. p \in Nat
    BY BillingAssumption
  <2>2. prices' \in [Keys -> [Months -> Nat \cup {None}]]
    BY <1>3, <2>1 DEF SetUnitPrice
  <2>. QED  BY <1>3, <2>2 DEF SetUnitPrice, history
<1>4. ASSUME NEW r \in Rates, SetTaxRate(r) PROVE BillingTypeOK'
  BY <1>4, BillingAssumption DEF SetTaxRate, history
<1>5. ASSUME NEW l, NEW t, SetThreshold(l, t) PROVE BillingTypeOK'
  BY <1>5 DEF SetThreshold, history
<1>6. ChangeStatus => BillingTypeOK'
  BY DEF ChangeStatus, history
<1>7. NextMonth => BillingTypeOK'
  BY BillingAssumption DEF NextMonth, history, Months
<1>8. BillingTypeOK'
  BY <1>1, <1>2, <1>3, <1>4, <1>5, <1>6, <1>7 DEF Outside
<1>9. UNCHANGED <<invoices, batch, correction, history>> /\ (now' = now \/ now' = now + 1)
  BY DEF Outside, DataArrives, DevicesChange, SetUnitPrice, SetTaxRate, SetThreshold, ChangeStatus, NextMonth, history
<1>. QED  BY <1>8, <1>9 DEF Months

\* The empty sheet.
LEMMA NoItemsTyped == NoItems \in Sheet /\ SheetSum(NoItems) = 0 /\ \A k \in Keys : NoItems[k].quantity = 0 /\ NoItems[k].amount = 0
BY DEF NoItems, Sheet, Line, SheetSum, Keys

\* A new row is a row.
LEMMA InvoiceTyped ==
    ASSUME NEW m \in Months, NEW st \in {"draft", "finalized", "corrected"}, NEW x \in Int, NEW y \in Int, NEW z \in Sheet
    PROVE  Invoice(m, st, x, y, z) \in Row
BY DEF Invoice, Row

\* The initial state is typed.
LEMMA InitTyped == Init => BillingTypeOK
<1>. SUFFICES ASSUME Init PROVE BillingTypeOK
  OBVIOUS
<1>1. Rates \in SUBSET Nat /\ Rates # {} /\ Rates \subseteq 0..2
  BY BillingAssumption
<1>2. rate \in 0..2
  BY <1>1, MinIn DEF Init
<1>3. now \in Months
  BY BillingAssumption DEF Init, Months
<1>4. Idle \in BatchState
  BY NoItemsTyped DEF Idle, BatchState
<1>5. NoCorrection \in CorrectionState
  BY NoItemsTyped DEF NoCorrection, CorrectionState
<1>6. prices \in [Keys -> [Months -> Nat \cup {None}]]
  BY BillingAssumption DEF Init
<1>. QED  BY <1>2, <1>3, <1>4, <1>5, <1>6 DEF Init, BillingTypeOK

-----------------------------------------------------------------------------
(* What each step writes, without the calculation behind it.               *)

\* What a writer makes of a row; the month of the row stays.
LEMMA SumsUpdate ==
    ASSUME NEW s \in Seq(Row), NEW i \in DOMAIN s, NEW a \in Int, NEW b \in Int
    PROVE  /\ [s EXCEPT ![i].subtotal = a, ![i].tax = b, ![i].status = "finalized"]
                = [s EXCEPT ![i] = [s[i] EXCEPT !.subtotal = a, !.tax = b, !.status = "finalized"]]
           /\ [s EXCEPT ![i].subtotal = a, ![i].tax = b]
                = [s EXCEPT ![i] = [s[i] EXCEPT !.subtotal = a, !.tax = b]]
           /\ [s[i] EXCEPT !.subtotal = a, !.tax = b, !.status = "finalized"] \in Row
           /\ [s[i] EXCEPT !.subtotal = a, !.tax = b] \in Row
<1>1. s[i] \in Row
  OBVIOUS
<1>. QED  BY <1>1 DEF Row

\* Rewriting the items, and the note of a mail, as replacing a row.
LEMMA ItemsUpdate ==
    ASSUME NEW s \in Seq(Row), NEW i \in DOMAIN s, NEW z \in Sheet
    PROVE  /\ [s EXCEPT ![i].items = z] = [s EXCEPT ![i] = [s[i] EXCEPT !.items = z]]
           /\ [s[i] EXCEPT !.items = z] \in Row
<1>1. s[i] \in Row
  OBVIOUS
<1>. QED  BY <1>1 DEF Row

LEMMA NotifiedUpdate ==
    ASSUME NEW s \in Seq(Row), NEW i \in DOMAIN s
    PROVE  /\ [s EXCEPT ![i].notified = TRUE] = [s EXCEPT ![i] = [s[i] EXCEPT !.notified = TRUE]]
           /\ [s[i] EXCEPT !.notified = TRUE] \in Row
<1>1. s[i] \in Row
  OBVIOUS
<1>. QED  BY <1>1 DEF Row

\* A table after one row was added or replaced.
LEMMA TableAppend ==
    ASSUME NEW s \in Seq(Row), NEW r \in Row
    PROVE  LET t == Append(s, r) IN
           /\ t \in Seq(Row) /\ Len(t) = Len(s) + 1 /\ DOMAIN t = DOMAIN s \cup {Len(s) + 1}
           /\ Len(s) + 1 \notin DOMAIN s /\ Len(s) + 1 \in Nat /\ t[Len(s) + 1] = r /\ \A i \in DOMAIN s : t[i] = s[i]
OBVIOUS

\* A table with one row replaced.
LEMMA TableUpdate ==
    ASSUME NEW s \in Seq(Row), NEW i \in DOMAIN s, NEW r \in Row
    PROVE  LET t == [s EXCEPT ![i] = r] IN
           /\ t \in Seq(Row) /\ Len(t) = Len(s) /\ DOMAIN t = DOMAIN s
           /\ t[i] = r /\ \A j \in DOMAIN s : j # i => t[j] = s[j]
OBVIOUS

-----------------------------------------------------------------------------
(* What the steps that compute something do, without the computation.      *)

\* What Backfill, Finalize and Refresh write: items that add up to the subtotal.
LEMMA BackfillDoes ==
    ASSUME BillingTypeOK, Backfill
    PROVE  \E m \in batch.todo, a \in Int, b \in Int, z \in Sheet :
           /\ SheetSum(z) = a /\ z[Kept].quantity = batch.kept
           /\ invoices' = Append(invoices, Invoice(m, "finalized", a, b, NoItems))
           /\ batch.pc = "past"
           /\ batch' = [batch EXCEPT !.pc = "backfillItems", !.row = Len(invoices) + 1,
                                     !.items = z, !.todo = @ \ {m}]
           /\ agreed' = [agreed EXCEPT ![m] = a + b]
           /\ UNCHANGED <<inputs, correction, torn, cut, clashed, counted, mails>>
<1>1. batch.todo \in SUBSET Months /\ batch.kept \in Int /\ batch.todo # {}
  BY DEF BillingTypeOK, BatchState, Backfill
<1>2. Min(batch.todo) \in batch.todo
  BY <1>1, MinIn DEF Months
<1>. DEFINE m == Min(batch.todo)
<1>3. PICK up \in BOOLEAN :
         LET calc == Calculate(m, Usage(m, up, batch.kept))
         IN  /\ invoices' = Append(invoices, Invoice(m, "finalized", calc.subtotal, calc.tax, NoItems))
             /\ batch' = [batch EXCEPT !.pc = "backfillItems", !.row = Len(invoices) + 1,
                                       !.items = calc.items, !.todo = @ \ {m}]
             /\ agreed' = [agreed EXCEPT ![m] = calc.subtotal + calc.tax]
  BY DEF Backfill
<1>. DEFINE calc == Calculate(m, Usage(m, up, batch.kept))
<1>4. /\ calc.items \in Sheet /\ calc.subtotal \in Int /\ calc.tax \in Int
      /\ SheetSum(calc.items) = calc.subtotal /\ calc.items[Kept].quantity = batch.kept
  BY <1>1, <1>2, Aggregation
<1>5. batch.pc = "past" /\ UNCHANGED <<inputs, correction, torn, cut, clashed, counted, mails>>
  BY DEF Backfill
<1>. HIDE DEF calc, m
<1>6. m \in batch.todo
  BY <1>2 DEF m
<1>. QED  BY <1>3, <1>4, <1>5, <1>6 DEF calc

LEMMA FinalizeDoes ==
    ASSUME BillingTypeOK, Finalize
    PROVE  \E i \in StaleDrafts, a \in Int, b \in Int, z \in Sheet :
           /\ SheetSum(z) = a /\ z[Kept].quantity = invoices[i].items[Kept].quantity
           /\ invoices' = [invoices EXCEPT ![i] = [invoices[i] EXCEPT !.subtotal = a, !.tax = b, !.status = "finalized"]]
           /\ [invoices[i] EXCEPT !.subtotal = a, !.tax = b, !.status = "finalized"] \in Row
           /\ batch.pc = "past" /\ batch.todo = {}
           /\ batch' = [batch EXCEPT !.pc = "finalizeItems", !.row = i, !.items = z]
           /\ agreed' = [agreed EXCEPT ![invoices[i].ym] = a + b]
           /\ UNCHANGED <<inputs, correction, torn, cut, clashed, counted, mails>>
<1>1. StaleDrafts \in SUBSET Nat /\ StaleDrafts # {}
  <2>1. StaleDrafts # {}
    BY DEF Finalize
  <2>2. DOMAIN invoices \subseteq Nat
    BY DEF BillingTypeOK
  <2>. QED  BY <2>1, <2>2 DEF StaleDrafts, Rows
<1>. DEFINE i == Min(StaleDrafts)
            m == invoices[i].ym
<1>2. i \in StaleDrafts
  BY <1>1, MinIn
<1>3. i \in DOMAIN invoices /\ invoices[i] \in Row
  BY <1>2 DEF BillingTypeOK, StaleDrafts, Rows
<1>4. m \in Months /\ invoices[i].items[Kept].quantity \in Int
  BY <1>3, RowTyped DEF Keys
<1>5. PICK up \in BOOLEAN :
         LET calc == Calculate(m, Usage(m, up, invoices[i].items[Kept].quantity))
         IN  /\ invoices' = [invoices EXCEPT ![i].subtotal = calc.subtotal, ![i].tax = calc.tax,
                                             ![i].status = "finalized"]
             /\ batch' = [batch EXCEPT !.pc = "finalizeItems", !.row = i, !.items = calc.items]
             /\ agreed' = [agreed EXCEPT ![m] = calc.subtotal + calc.tax]
  BY DEF Finalize
<1>. DEFINE calc == Calculate(m, Usage(m, up, invoices[i].items[Kept].quantity))
<1>6. /\ calc.items \in Sheet /\ calc.subtotal \in Int /\ calc.tax \in Int
      /\ SheetSum(calc.items) = calc.subtotal
      /\ calc.items[Kept].quantity = invoices[i].items[Kept].quantity
  BY <1>4, Aggregation
<1>7. /\ batch.pc = "past" /\ batch.todo = {}
      /\ UNCHANGED <<inputs, correction, torn, cut, clashed, counted, mails>>
  BY DEF Finalize
<1>8. invoices \in Seq(Row)
  BY DEF BillingTypeOK
<1>. DEFINE a == calc.subtotal
            b == calc.tax
            z == calc.items
<1>9. /\ invoices' = [invoices EXCEPT ![i].subtotal = a, ![i].tax = b, ![i].status = "finalized"]
       /\ batch' = [batch EXCEPT !.pc = "finalizeItems", !.row = i, !.items = z]
       /\ agreed' = [agreed EXCEPT ![invoices[i].ym] = a + b]
  BY <1>5
<1>10. a \in Int /\ b \in Int /\ z \in Sheet /\ SheetSum(z) = a /\ z[Kept].quantity = invoices[i].items[Kept].quantity
  BY <1>6
<1>. HIDE DEF calc, i, a, b, z
<1>11. /\ [invoices EXCEPT ![i].subtotal = a, ![i].tax = b, ![i].status = "finalized"]
            = [invoices EXCEPT ![i] = [invoices[i] EXCEPT !.subtotal = a, !.tax = b, !.status = "finalized"]]
       /\ [invoices[i] EXCEPT !.subtotal = a, !.tax = b, !.status = "finalized"] \in Row
  BY <1>3, <1>8, <1>10, SumsUpdate
<1>. QED  BY <1>2, <1>7, <1>9, <1>10, <1>11

LEMMA RefreshDoes ==
    ASSUME BillingTypeOK, Refresh, batch.row \in Rows, batch.target \in Months
    PROVE  \E a \in Int, b \in Int, z \in Sheet :
           /\ SheetSum(z) = a
           /\ invoices' = [invoices EXCEPT ![batch.row] = [invoices[batch.row] EXCEPT !.subtotal = a, !.tax = b]]
           /\ [invoices[batch.row] EXCEPT !.subtotal = a, !.tax = b] \in Row
           /\ batch.pc = "refresh"
           /\ batch' = [batch EXCEPT !.pc = "refreshItems", !.items = z]
           /\ UNCHANGED <<inputs, correction, history>>
<1>. DEFINE m == batch.target
<1>1. PICK up \in BOOLEAN :
         LET calc == Calculate(m, Usage(m, up, snapshot[Kept]))
         IN  /\ invoices' = [invoices EXCEPT ![batch.row].subtotal = calc.subtotal,
                                             ![batch.row].tax = calc.tax]
             /\ batch' = [batch EXCEPT !.pc = "refreshItems", !.items = calc.items]
  BY DEF Refresh
<1>2. snapshot[Kept] \in Int /\ invoices \in Seq(Row) /\ batch.row \in DOMAIN invoices
  BY DEF BillingTypeOK, Rows
<1>. DEFINE calc == Calculate(m, Usage(m, up, snapshot[Kept]))
<1>3. /\ calc.items \in Sheet /\ calc.subtotal \in Int /\ calc.tax \in Int
      /\ SheetSum(calc.items) = calc.subtotal
  BY <1>2, Aggregation
<1>4. batch.pc = "refresh" /\ UNCHANGED <<inputs, correction, history>>
  BY DEF Refresh
<1>. DEFINE a == calc.subtotal
            b == calc.tax
            z == calc.items
            i == batch.row
<1>5. /\ [invoices EXCEPT ![i].subtotal = a, ![i].tax = b]
           = [invoices EXCEPT ![i] = [invoices[i] EXCEPT !.subtotal = a, !.tax = b]]
      /\ [invoices[i] EXCEPT !.subtotal = a, !.tax = b] \in Row
  BY <1>2, <1>3, SumsUpdate
<1>6. /\ invoices' = [invoices EXCEPT ![i].subtotal = a, ![i].tax = b]
      /\ batch' = [batch EXCEPT !.pc = "refreshItems", !.items = z]
  BY <1>1
<1>7. a \in Int /\ b \in Int /\ z \in Sheet /\ SheetSum(z) = a
  BY <1>3
<1>. HIDE DEF calc, a, b, z
<1>. QED  BY <1>4, <1>5, <1>6, <1>7

\* The totals of a month are integers.
LEMMA MonthTotalsTyped ==
    ASSUME BillingTypeOK, NEW m
    PROVE  /\ Subtotal(m) \in Int /\ Tax(m) \in Int
           /\ \A k \in Keys : Quantity(m, k) \in Int /\ Amount(m, k) \in Int
           /\ Diff(m) \in Int
<1>1. invoices \in Seq(Row)
  BY DEF BillingTypeOK
<1>2. /\ Subtotal(m) \in Int /\ Tax(m) \in Int
      /\ \A k \in Keys : Quantity(m, k) \in Int /\ Amount(m, k) \in Int
  BY <1>1, TotalsIn, TotalsTyped
<1>. QED  BY <1>2 DEF Diff, Keys

\* What the other writing steps do to the table.
LEMMA ReplaceItemsDoes ==
    ASSUME BillingTypeOK, BatchAt, ReplaceItems
    PROVE  /\ batch.row \in Rows /\ batch.items \in Sheet
           /\ invoices' = [invoices EXCEPT ![batch.row] = [invoices[batch.row] EXCEPT !.items = batch.items]]
           /\ [invoices[batch.row] EXCEPT !.items = batch.items] \in Row
           /\ \/ batch.pc \in ItemsStages /\ batch' = [batch EXCEPT !.pc = "past", !.items = NoItems] /\ counted' = counted
              \/ /\ batch.pc = "refreshItems" /\ batch' = [batch EXCEPT !.pc = "shock", !.items = NoItems]
                 /\ counted' = [counted EXCEPT ![batch.target] = @ \cup {batch.items[Kept].quantity}]
           /\ UNCHANGED <<inputs, correction, events, torn, cut, clashed, agreed, mails>>
<1>1. batch.pc \in ItemsStages \/ batch.pc = "refreshItems"
  BY DEF ReplaceItems, AfterItems, ItemsStages
<1>2. batch.row \in DOMAIN invoices /\ invoices \in Seq(Row) /\ batch.items \in Sheet
  BY <1>1 DEF BatchAt, DraftStages, BillingTypeOK, BatchState, Rows
<1>3. invoices' = [invoices EXCEPT ![batch.row].items = batch.items]
  BY DEF ReplaceItems
<1>4. /\ [invoices EXCEPT ![batch.row].items = batch.items]
           = [invoices EXCEPT ![batch.row] = [invoices[batch.row] EXCEPT !.items = batch.items]]
      /\ [invoices[batch.row] EXCEPT !.items = batch.items] \in Row
  BY <1>2, ItemsUpdate
<1>5. batch' = [batch EXCEPT !.pc = AfterItems[batch.pc], !.items = NoItems]
  BY DEF ReplaceItems, BillingTypeOK, BatchState
<1>6. /\ batch.pc \in ItemsStages => AfterItems[batch.pc] = "past" /\ batch.pc # "refreshItems"
      /\ batch.pc = "refreshItems" => AfterItems[batch.pc] = "shock"
  BY DEF AfterItems, ItemsStages
<1>. QED  BY <1>1, <1>2, <1>3, <1>4, <1>5, <1>6 DEF ReplaceItems, Rows

LEMMA MarkNotifiedDoes ==
    ASSUME BillingTypeOK, BatchAt, MarkNotified
    PROVE  /\ batch.row \in Rows
           /\ invoices' = [invoices EXCEPT ![batch.row] = [invoices[batch.row] EXCEPT !.notified = TRUE]]
           /\ [invoices[batch.row] EXCEPT !.notified = TRUE] \in Row
<1>1. batch.row \in DOMAIN invoices /\ invoices \in Seq(Row)
  BY DEF MarkNotified, BatchAt, DraftStages, BillingTypeOK, Rows
<1>2. /\ [invoices EXCEPT ![batch.row].notified = TRUE]
           = [invoices EXCEPT ![batch.row] = [invoices[batch.row] EXCEPT !.notified = TRUE]]
      /\ [invoices[batch.row] EXCEPT !.notified = TRUE] \in Row
  BY <1>1, NotifiedUpdate
<1>. QED  BY <1>1, <1>2 DEF MarkNotified, Rows

LEMMA CorrectInsertDoes ==
    ASSUME BillingTypeOK, CorrectionAt, NEW a \in Admins, CorrectInsert(a)
    PROVE  LET c == correction[a]
               r == Invoice(c.ym, "corrected", c.subtotal, c.tax, NoItems)
           IN  /\ c \in CorrectionState /\ c.pc = "insert" /\ c.ym \in Months /\ r \in Row
               /\ invoices' = Append(invoices, r)
               /\ correction' = [correction EXCEPT ![a] = [c EXCEPT !.pc = "items", !.row = Len(invoices) + 1]]
<1>1. correction[a] \in CorrectionState /\ correction[a].ym \in Months
  BY DEF BillingTypeOK, CorrectInsert, CorrectionAt
<1>2. Invoice(correction[a].ym, "corrected", correction[a].subtotal, correction[a].tax, NoItems) \in Row
  BY <1>1, InvoiceTyped, NoItemsTyped DEF CorrectionState
<1>3. correction' = [correction EXCEPT ![a] = [correction[a] EXCEPT !.pc = "items", !.row = Len(invoices) + 1]]
  BY DEF CorrectInsert, BillingTypeOK
<1>. QED  BY <1>1, <1>2, <1>3 DEF CorrectInsert

LEMMA CorrectItemsDoes ==
    ASSUME BillingTypeOK, CorrectionAt, NEW a \in Admins, CorrectItems(a)
    PROVE  LET c == correction[a] IN
           /\ c \in CorrectionState /\ c.pc = "items" /\ c.row \in Rows
           /\ invoices' = [invoices EXCEPT ![c.row] = [invoices[c.row] EXCEPT !.items = c.items]]
           /\ [invoices[c.row] EXCEPT !.items = c.items] \in Row
<1>. DEFINE c == correction[a]
<1>1. c \in CorrectionState /\ c.pc = "items" /\ c.row \in DOMAIN invoices /\ invoices \in Seq(Row)
  BY DEF BillingTypeOK, CorrectItems, CorrectionAt, Rows
<1>2. c.items \in Sheet
  BY <1>1 DEF CorrectionState
<1>3. invoices' = [invoices EXCEPT ![c.row].items = c.items]
  BY DEF CorrectItems
<1>. HIDE DEF c
<1>4. /\ [invoices EXCEPT ![c.row].items = c.items] = [invoices EXCEPT ![c.row] = [invoices[c.row] EXCEPT !.items = c.items]]
      /\ [invoices[c.row] EXCEPT !.items = c.items] \in Row
  BY <1>1, <1>2, ItemsUpdate
<1>. QED  BY <1>1, <1>3, <1>4 DEF c, Rows

\* A running batch works on a month that has begun.
LEMMA TargetInTime ==
    ASSUME BillingTypeOK, BatchAt, batch.pc # "idle"
    PROVE  batch.target \in Months /\ batch.target <= now
BY BillingAssumption DEF BillingTypeOK, BatchAt, Months

\* What CorrectRead computes: items and sums that close the gap to the new goal.
LEMMA CorrectReadDoes ==
    ASSUME BillingTypeOK, NEW a \in Admins, NEW m \in Months, CorrectRead(a, m)
    PROVE  \E x \in Int, y \in Int, z \in Sheet, goal \in Int :
           /\ SheetSum(z) - x + Diff(m) = 0 /\ Subtotal(m) + Tax(m) + x + y = goal
           /\ z[Kept].quantity = 0
           /\ correction[a].pc = "idle" /\ Finalized(m)
           /\ correction' = [b \in Admins |->
               IF b \in InFlight(m) THEN [correction[b] EXCEPT !.clean = FALSE]
               ELSE IF b # a \/ (x = 0 /\ y = 0) THEN correction[b]
               ELSE [pc |-> "insert", ym |-> m, subtotal |-> x, tax |-> y, items |-> z,
                     goal |-> goal, row |-> 0, clean |-> InFlight(m) = {} /\ ~ItemsPending(m)]]
           /\ UNCHANGED <<inputs, invoices, batch, history>>
<1>1. /\ Subtotal(m) \in Int /\ Tax(m) \in Int
      /\ \A k \in Keys : Quantity(m, k) \in Int /\ Amount(m, k) \in Int
      /\ Diff(m) \in Int
  BY MonthTotalsTyped
<1>2. PICK up \in BOOLEAN :
         LET calc == Calculate(m, Usage(m, up, Quantity(m, Kept)))
             subtotal == calc.subtotal - Running(m).subtotal
             tax == calc.tax - Running(m).tax
         IN  correction' = [b \in Admins |->
               IF b \in InFlight(m) THEN [correction[b] EXCEPT !.clean = FALSE]
               ELSE IF b # a \/ (subtotal = 0 /\ tax = 0) THEN correction[b]
               ELSE [pc |-> "insert", ym |-> m, subtotal |-> subtotal, tax |-> tax, items |-> ItemDelta(calc, m),
                     goal |-> calc.subtotal + calc.tax, row |-> 0,
                     clean |-> InFlight(m) = {} /\ ~ItemsPending(m)]]
  BY DEF CorrectRead
<1>. DEFINE calc == Calculate(m, Usage(m, up, Quantity(m, Kept)))
<1>3. /\ calc.items \in Sheet /\ calc.subtotal \in Int /\ calc.tax \in Int
      /\ SheetSum(calc.items) = calc.subtotal /\ calc.items[Kept].quantity = Quantity(m, Kept)
  BY <1>1, Aggregation DEF Keys
<1>. HIDE DEF calc
<1>. DEFINE x == calc.subtotal - Running(m).subtotal
            y == calc.tax - Running(m).tax
            z == ItemDelta(calc, m)
            goal == calc.subtotal + calc.tax
<1>4. x = calc.subtotal - Subtotal(m) /\ y = calc.tax - Tax(m)
  BY DEF Running
<1>5. \A k \in Keys : /\ z[k].quantity = calc.items[k].quantity - Quantity(m, k)
                      /\ z[k].amount = calc.items[k].amount - Amount(m, k)
                      /\ calc.items[k].quantity \in Int /\ calc.items[k].amount \in Int
  BY <1>3 DEF ItemDelta, Sheet, Line
<1>6. z \in Sheet
  <2>1. \A k \in Keys : /\ calc.items[k].quantity - Quantity(m, k) \in Int
                        /\ calc.items[k].amount - Amount(m, k) \in Int
    BY <1>1, <1>5
  <2>. QED  BY <2>1 DEF ItemDelta, Sheet, Line
<1>7. z[Kept].quantity = 0
  BY <1>1, <1>3, <1>5 DEF Keys
<1>8. SheetSum(z) - x + Diff(m) = 0
  <2>1. \A k \in {Flow, Kept, Live} : z[k].amount = calc.items[k].amount - Amount(m, k)
            /\ calc.items[k].amount \in Int /\ Amount(m, k) \in Int
    BY <1>1, <1>5 DEF Keys
  <2>. HIDE DEF z, x
  <2>2. calc.items[Flow].amount + calc.items[Kept].amount + calc.items[Live].amount = calc.subtotal
    BY <1>3 DEF SheetSum
  <2>. QED  BY <1>1, <1>3, <1>4, <2>1, <2>2 DEF SheetSum, Diff
<1>9. Subtotal(m) + Tax(m) + x + y = goal /\ x \in Int /\ y \in Int /\ goal \in Int
  BY <1>1, <1>3, <1>4
<1>10. /\ correction[a].pc = "idle" /\ Finalized(m)
       /\ UNCHANGED <<inputs, invoices, batch, history>>
  BY DEF CorrectRead
<1>11. correction' = [b \in Admins |->
               IF b \in InFlight(m) THEN [correction[b] EXCEPT !.clean = FALSE]
               ELSE IF b # a \/ (x = 0 /\ y = 0) THEN correction[b]
               ELSE [pc |-> "insert", ym |-> m, subtotal |-> x, tax |-> y, items |-> z,
                     goal |-> goal, row |-> 0, clean |-> InFlight(m) = {} /\ ~ItemsPending(m)]]
  BY <1>2 DEF calc
<1>. HIDE DEF x, y, z, goal
<1>. QED  BY <1>6, <1>7, <1>8, <1>9, <1>10, <1>11

-----------------------------------------------------------------------------
(* The tables and the locals of the writers keep their shape.              *)

\* Every step preserves the types.
LEMMA BatchTyped ==
    ASSUME BillingTypeOK, BatchAt, Batch
    PROVE  BillingTypeOK'
<1>. USE DEF inputs, history
<1>1. CASE Start
  <2>1. PICK kept \in IF Rows = {} THEN {0} ELSE {invoices[i].items[Kept].quantity : i \in NewestRows} :
         batch' = [Idle EXCEPT !.pc = "past", !.target = now, !.todo = MissingMonths, !.kept = kept]
    BY <1>1 DEF Start
  <2>2. kept \in Int
    BY RowTyped DEF NewestRows, Rows, BillingTypeOK, Keys
  <2>3. MissingMonths \in SUBSET Months
    BY DEF MissingMonths
  <2>4. now \in Nat
    BY DEF BillingTypeOK, Months
  <2>5. batch' \in BatchState
    BY <2>1, <2>2, <2>3, <2>4, NoItemsTyped DEF Idle, BatchState
  <2>. QED  BY <1>1, <2>5 DEF Start, BillingTypeOK
<1>2. CASE Backfill
  <2>1. PICK m \in batch.todo, x \in Int, y \in Int, z \in Sheet :
           /\ invoices' = Append(invoices, Invoice(m, "finalized", x, y, NoItems))
           /\ batch' = [batch EXCEPT !.pc = "backfillItems", !.row = Len(invoices) + 1,
                                     !.items = z, !.todo = @ \ {m}]
           /\ agreed' = [agreed EXCEPT ![m] = x + y]
           /\ UNCHANGED <<inputs, correction, torn, cut, clashed, counted, mails>>
    BY <1>2, BackfillDoes
  <2>2. m \in Months
    BY DEF BillingTypeOK, BatchState
  <2>3. Invoice(m, "finalized", x, y, NoItems) \in Row /\ invoices \in Seq(Row)
    BY <2>2, InvoiceTyped, NoItemsTyped DEF BillingTypeOK
  <2>4. invoices' \in Seq(Row) /\ Len(invoices) + 1 \in Nat
    BY <2>1, <2>3, TableAppend
  <2>5. batch' \in BatchState
    BY <2>1, <2>4 DEF BillingTypeOK, BatchState, ItemsStages
  <2>6. agreed' \in [Months -> Int]
    BY <2>1, <2>2 DEF BillingTypeOK
  <2>. QED  BY <2>1, <2>4, <2>5, <2>6 DEF BillingTypeOK
<1>3. CASE Finalize
  <2>1. PICK i \in StaleDrafts, x \in Int, y \in Int, z \in Sheet :
           /\ SheetSum(z) = x /\ z[Kept].quantity = invoices[i].items[Kept].quantity
           /\ invoices' = [invoices EXCEPT ![i] = [invoices[i] EXCEPT !.subtotal = x, !.tax = y, !.status = "finalized"]]
           /\ [invoices[i] EXCEPT !.subtotal = x, !.tax = y, !.status = "finalized"] \in Row
           /\ batch.pc = "past" /\ batch.todo = {}
           /\ batch' = [batch EXCEPT !.pc = "finalizeItems", !.row = i, !.items = z]
           /\ agreed' = [agreed EXCEPT ![invoices[i].ym] = x + y]
           /\ UNCHANGED <<inputs, correction, torn, cut, clashed, counted, mails>>
    BY <1>3, FinalizeDoes
  <2>2. i \in DOMAIN invoices /\ i \in Nat /\ invoices \in Seq(Row)
    BY DEF BillingTypeOK, StaleDrafts, Rows
  <2>3. invoices' \in Seq(Row)
    BY <2>1, <2>2, TableUpdate
  <2>4. batch' \in BatchState
    BY <2>1, <2>2 DEF BillingTypeOK, BatchState, ItemsStages
  <2>5. agreed' \in [Months -> Int]
    <3>1. x + y \in Int
      OBVIOUS
    <3>. QED  BY <2>1, <3>1 DEF BillingTypeOK
  <2>. QED  BY <2>1, <2>3, <2>4, <2>5 DEF BillingTypeOK
<1>4. CASE ReplaceItems
  <2>1. /\ batch.row \in DOMAIN invoices /\ invoices \in Seq(Row)
        /\ invoices' = [invoices EXCEPT ![batch.row] = [invoices[batch.row] EXCEPT !.items = batch.items]]
        /\ [invoices[batch.row] EXCEPT !.items = batch.items] \in Row
        /\ \E at \in {"past", "shock"} : batch' = [batch EXCEPT !.pc = at, !.items = NoItems]
    BY <1>4, ReplaceItemsDoes DEF BillingTypeOK, Rows
  <2>2. invoices' \in Seq(Row)
    BY <2>1, TableUpdate
  <2>3. batch' \in BatchState
    BY <2>1, NoItemsTyped DEF BillingTypeOK, BatchState, DraftStages
  <2>. QED  BY <1>4, <2>2, <2>3 DEF ReplaceItems, BillingTypeOK
<1>5. CASE Draft
  <2>1. batch.target \in Months
    BY <1>5, TargetInTime DEF Draft
  <2>2. Invoice(batch.target, "draft", 0, 0, NoItems) \in Row /\ invoices \in Seq(Row)
    BY <2>1, InvoiceTyped, NoItemsTyped DEF BillingTypeOK
  <2>3. Append(invoices, Invoice(batch.target, "draft", 0, 0, NoItems)) \in Seq(Row) /\ Len(invoices) + 1 \in Nat
    BY <2>2, TableAppend
  <2>4. invoices' \in Seq(Row)
    BY <1>5, <2>2, <2>3 DEF Draft
  <2>5. \A i \in RowsOf(batch.target) : i \in Nat
    BY DEF RowsOf, Rows, BillingTypeOK
  <2>6. Idle \in BatchState
    BY NoItemsTyped DEF Idle, BatchState
  <2>7. \A i \in Nat : [batch EXCEPT !.pc = "refresh", !.row = i] \in BatchState
    BY DEF BillingTypeOK, BatchState, DraftStages
  <2>8. batch' \in BatchState
    BY <1>5, <2>3, <2>5, <2>6, <2>7 DEF Draft
  <2>. QED  BY <1>5, <2>4, <2>8 DEF Draft, BillingTypeOK
<1>6. CASE Refresh
  <2>1. batch.row \in Rows /\ batch.target \in Months /\ batch.row \in DOMAIN invoices /\ invoices \in Seq(Row)
    BY <1>6, TargetInTime DEF Refresh, BatchAt, DraftStages, BillingTypeOK, Rows
  <2>2. PICK x \in Int, y \in Int, z \in Sheet :
           /\ invoices' = [invoices EXCEPT ![batch.row] = [invoices[batch.row] EXCEPT !.subtotal = x, !.tax = y]]
           /\ [invoices[batch.row] EXCEPT !.subtotal = x, !.tax = y] \in Row
           /\ batch' = [batch EXCEPT !.pc = "refreshItems", !.items = z]
           /\ UNCHANGED <<inputs, correction, history>>
    BY <1>6, <2>1, RefreshDoes
  <2>3. invoices' \in Seq(Row)
    BY <2>1, <2>2, TableUpdate
  <2>4. batch' \in BatchState
    BY <2>2 DEF BillingTypeOK, BatchState, DraftStages
  <2>. QED  BY <2>2, <2>3, <2>4 DEF BillingTypeOK
<1>7. CASE Notify
  <2>1. batch' \in BatchState
    <3>1. [batch EXCEPT !.pc = "mark"] \in BatchState
      BY DEF BillingTypeOK, BatchState, DraftStages
    <3>2. Idle \in BatchState
      BY NoItemsTyped DEF Idle, BatchState
    <3>. QED  BY <1>7, <3>1, <3>2 DEF Notify
  <2>2. mails' \in [Months -> Int]
    BY <1>7 DEF Notify, BillingTypeOK
  <2>. QED  BY <1>7, <2>1, <2>2 DEF Notify, BillingTypeOK
<1>8. CASE MarkNotified
  <2>1. invoices \in Seq(Row)
    BY DEF BillingTypeOK
  <2>2. invoices' \in Seq(Row)
    BY <1>8, <2>1, MarkNotifiedDoes, TableUpdate DEF Rows
  <2>3. batch' \in BatchState
    BY <1>8, NoItemsTyped DEF MarkNotified, Idle, BatchState
  <2>. QED  BY <1>8, <2>2, <2>3 DEF MarkNotified, BillingTypeOK
<1>. QED  BY <1>1, <1>2, <1>3, <1>4, <1>5, <1>6, <1>7, <1>8 DEF Batch

LEMMA CorrectionTyped ==
    ASSUME BillingTypeOK, CorrectionAt, NEW a \in Admins
    PROVE  /\ \A m \in Months : CorrectRead(a, m) => BillingTypeOK'
           /\ CorrectInsert(a) => BillingTypeOK'
           /\ CorrectItems(a) => BillingTypeOK'
<1>. USE DEF inputs, history
<1>1. ASSUME NEW m \in Months, CorrectRead(a, m) PROVE BillingTypeOK'
  <2>1. PICK x \in Int, y \in Int, z \in Sheet, goal \in Int :
           /\ correction' = [b \in Admins |->
               IF b \in InFlight(m) THEN [correction[b] EXCEPT !.clean = FALSE]
               ELSE IF b # a \/ (x = 0 /\ y = 0) THEN correction[b]
               ELSE [pc |-> "insert", ym |-> m, subtotal |-> x, tax |-> y, items |-> z,
                     goal |-> goal, row |-> 0, clean |-> InFlight(m) = {} /\ ~ItemsPending(m)]]
           /\ UNCHANGED <<inputs, invoices, batch, history>>
    BY <1>1, CorrectReadDoes
  <2>2. \A b \in Admins : [correction[b] EXCEPT !.clean = FALSE] \in CorrectionState
    BY DEF BillingTypeOK, CorrectionState
  <2>3. \A cl \in BOOLEAN : [pc |-> "insert", ym |-> m, subtotal |-> x, tax |-> y, items |-> z,
                     goal |-> goal, row |-> 0, clean |-> cl] \in CorrectionState
    BY DEF CorrectionState, Months
  <2>4. correction' \in [Admins -> CorrectionState]
    <3>1. (InFlight(m) = {} /\ ~ItemsPending(m)) \in BOOLEAN
      OBVIOUS
    <3>. QED  BY <2>1, <2>2, <2>3, <3>1 DEF BillingTypeOK
  <2>. QED  BY <2>1, <2>4 DEF BillingTypeOK
<1>2. ASSUME CorrectInsert(a) PROVE BillingTypeOK'
  <2>1. correction[a] \in CorrectionState /\ correction[a].ym \in Months /\ invoices \in Seq(Row)
    BY <1>2, CorrectInsertDoes DEF BillingTypeOK
  <2>2. invoices' \in Seq(Row) /\ Len(invoices) + 1 \in Nat
    <3>. DEFINE r == Invoice(correction[a].ym, "corrected", correction[a].subtotal, correction[a].tax, NoItems)
    <3>1. r \in Row /\ invoices' = Append(invoices, r)
      BY <1>2, CorrectInsertDoes
    <3>. HIDE DEF r
    <3>. QED  BY <2>1, <3>1, TableAppend
  <2>5. [correction[a] EXCEPT !.pc = "items", !.row = Len(invoices) + 1] \in CorrectionState
    BY <2>1, <2>2 DEF CorrectionState
  <2>6. correction' \in [Admins -> CorrectionState]
    BY <1>2, <2>5, CorrectInsertDoes DEF BillingTypeOK
  <2>7. agreed' \in [Months -> Int]
    BY <1>2, <2>1 DEF CorrectInsert, BillingTypeOK, CorrectionState
  <2>. QED  BY <1>2, <2>2, <2>6, <2>7 DEF CorrectInsert, BillingTypeOK
<1>3. ASSUME CorrectItems(a) PROVE BillingTypeOK'
  <2>1. invoices \in Seq(Row)
    BY DEF BillingTypeOK
  <2>3. invoices' \in Seq(Row)
    <3>. DEFINE i == correction[a].row
                r == [invoices[i] EXCEPT !.items = correction[a].items]
    <3>1. i \in DOMAIN invoices /\ r \in Row /\ invoices' = [invoices EXCEPT ![i] = r]
      BY <1>3, CorrectItemsDoes DEF Rows
    <3>. HIDE DEF i, r
    <3>. QED  BY <2>1, <3>1, TableUpdate
  <2>4. NoCorrection \in CorrectionState
    BY NoItemsTyped DEF NoCorrection, CorrectionState
  <2>5. correction' \in [Admins -> CorrectionState]
    BY <1>3, <2>4 DEF CorrectItems, BillingTypeOK
  <2>. QED  BY <1>3, <2>3, <2>5 DEF CorrectItems, BillingTypeOK
<1>. QED  BY <1>1, <1>2, <1>3

LEMMA InterruptTyped ==
    ASSUME BillingTypeOK, NEW S, Interrupt(S)
    PROVE  BillingTypeOK'
<1>1. Idle \in BatchState /\ NoCorrection \in CorrectionState
  BY NoItemsTyped DEF Idle, BatchState, NoCorrection, CorrectionState
<1>2. batch' \in BatchState /\ correction' \in [Admins -> CorrectionState]
  BY <1>1 DEF Interrupt, BillingTypeOK
<1>3. mails' \in [Months -> Int]
  <2>1. ASSUME NEW t PROVE [mails EXCEPT ![t] = @ - 1] \in [Months -> Int]
    <3>1. CASE t \in Months
      BY <3>1 DEF BillingTypeOK
    <3>2. CASE t \notin Months
      BY <3>2 DEF BillingTypeOK
    <3>. QED  BY <3>1, <3>2
  <2>. QED  BY <2>1 DEF Interrupt, BillingTypeOK
<1>. QED  BY <1>2, <1>3 DEF Interrupt, BillingTypeOK, inputs

LEMMA NextTyped ==
    ASSUME BillingTypeOK, BatchAt, CorrectionAt, [Next]_vars
    PROVE  BillingTypeOK'
<1>1. CASE UNCHANGED vars
  BY <1>1 DEF vars, inputs, history, BillingTypeOK
<1>2. CASE Next
  BY <1>2, OutsideKeeps, BatchTyped, CorrectionTyped, InterruptTyped DEF Next
<1>. QED  BY <1>1, <1>2

-----------------------------------------------------------------------------
(* Rows, batch and corrections fit together.                               *)

\* Which rows there can be, and with them where the batch and the corrections are.
RowsInv == OneBase /\ CorrectedHasBase /\ InTime
StructInv == BillingTypeOK /\ BatchAt /\ CorrectionAt /\ RowsInv

\* Finalized as a statement about a table.
LEMMA FinalizedIn == ASSUME NEW m PROVE (Finalized(m) <=> FinalIn(invoices, m)) /\ (Finalized(m)' <=> FinalIn(invoices', m))
BY DEF Finalized, FinalIn, RowsOf, Rows

\* What the types say about months and rows.
LEMMA Numbers ==
    ASSUME BillingTypeOK
    PROVE  /\ now \in Months /\ now \in Nat /\ batch.target \in Nat
           /\ \A i \in Rows : invoices[i] \in Row /\ invoices[i].ym \in Months /\ invoices[i].ym \in Nat
<1>1. \A m \in Months : m \in Nat
  BY DEF Months
<1>2. \A i \in Rows : invoices[i] \in Row
  BY DEF BillingTypeOK, Rows
<1>3. \A r \in Row : r.ym \in Months
  BY DEF Row
<1>. QED  BY <1>1, <1>2, <1>3 DEF BillingTypeOK, BatchState

\* A step that leaves alone which rows there are, of which month and of which kind.
SameRows ==
    /\ invoices \in Seq(Row) /\ Rows' = Rows
    /\ \A i \in Rows : invoices'[i].ym = invoices[i].ym /\ invoices'[i].status = invoices[i].status

\* Such a step keeps the parts of RowsInv that do not depend on time.
LEMMA SameRowsKeep ==
    ASSUME SameRows
    PROVE  /\ OneBase => OneBase'
           /\ CorrectedHasBase => CorrectedHasBase'
           /\ \A m : FinalIn(invoices', m) <=> FinalIn(invoices, m)
<1>1. \A m : FinalIn(invoices', m) <=> FinalIn(invoices, m)
  BY DEF SameRows, FinalIn, Rows
<1>2. OneBase => OneBase'
  BY DEF SameRows, OneBase
<1>3. CorrectedHasBase => CorrectedHasBase'
  BY <1>1 DEF SameRows, CorrectedHasBase
<1>. QED  BY <1>1, <1>2, <1>3

LEMMA UpdateIsSame ==
    ASSUME BillingTypeOK, NEW i \in Rows, NEW r \in Row, invoices' = [invoices EXCEPT ![i] = r],
           r.ym = invoices[i].ym, r.status = invoices[i].status
    PROVE  SameRows /\ invoices'[i] = r /\ \A j \in Rows : j # i => invoices'[j] = invoices[j]
<1>1. invoices \in Seq(Row) /\ i \in DOMAIN invoices
  BY DEF BillingTypeOK, Rows
<1>2. DOMAIN invoices' = DOMAIN invoices /\ invoices'[i] = r /\ \A j \in DOMAIN invoices : j # i => invoices'[j] = invoices[j]
  BY <1>1, TableUpdate
<1>. QED  BY <1>1, <1>2 DEF SameRows, Rows

\* A draft is the only row of its month.
LEMMA DraftIsAlone ==
    ASSUME OneBase, CorrectedHasBase, BillingTypeOK, NEW i \in Rows, invoices[i].status = "draft",
           NEW j \in Rows, invoices[j].ym = invoices[i].ym
    PROVE  j = i
<1>1. invoices[j].status # "corrected"
  BY DEF OneBase, CorrectedHasBase, FinalIn, Rows
<1>. QED  BY <1>1 DEF OneBase

\* A new row that belongs to its month.
LEMMA AppendStruct ==
    ASSUME BillingTypeOK, RowsInv, NEW r \in Row, invoices' = Append(invoices, r),
           \/ r.status = "corrected" /\ FinalIn(invoices, r.ym)
           \/ r.status # "corrected" /\ \A i \in Rows : invoices[i].ym # r.ym
    PROVE  /\ OneBase' /\ CorrectedHasBase'
           /\ Rows' = Rows \cup {Len(invoices) + 1} /\ Len(invoices) + 1 \notin Rows
           /\ invoices'[Len(invoices) + 1] = r /\ \A i \in Rows : invoices'[i] = invoices[i]
           /\ \A m : FinalIn(invoices, m) => FinalIn(invoices', m)
<1>. DEFINE n == Len(invoices) + 1
<1>1. /\ Rows' = Rows \cup {n} /\ n \notin Rows
      /\ invoices'[n] = r /\ \A i \in Rows : invoices'[i] = invoices[i]
  BY TableAppend DEF BillingTypeOK, Rows
<1>. HIDE DEF n
<1>2. \A m : FinalIn(invoices, m) => FinalIn(invoices', m)
  BY <1>1 DEF FinalIn, Rows
<1>3. OneBase'
  <2>1. ASSUME NEW i \in Rows', NEW j \in Rows', invoices'[i].ym = invoices'[j].ym,
               invoices'[i].status # "corrected", invoices'[j].status # "corrected"
        PROVE  i = j
    <3>1. CASE i \in Rows /\ j \in Rows
      BY <1>1, <2>1, <3>1 DEF OneBase, RowsInv
    <3>2. CASE i = n \/ j = n
      BY <1>1, <2>1, <3>2
    <3>. QED  BY <1>1, <3>1, <3>2
  <2>. QED  BY <2>1 DEF OneBase
<1>4. CorrectedHasBase'
  <2>1. ASSUME NEW i \in Rows', invoices'[i].status = "corrected" PROVE FinalIn(invoices', invoices'[i].ym)
    <3>1. CASE i = n
      BY <1>1, <1>2, <2>1, <3>1
    <3>2. CASE i # n
      <4>1. i \in Rows /\ invoices'[i] = invoices[i]
        BY <1>1, <3>2
      <4>2. FinalIn(invoices, invoices[i].ym)
        BY <2>1, <4>1 DEF RowsInv, CorrectedHasBase
      <4>. QED  BY <1>2, <4>1, <4>2
    <3>. QED  BY <3>1, <3>2
  <2>. QED  BY <2>1 DEF CorrectedHasBase
<1>. QED  BY <1>1, <1>2, <1>3, <1>4 DEF n

\* Nothing but the kinds of rows decides about InTime, given where the batch is.
LEMMA OutsideStruct ==
    ASSUME StructInv, Outside
    PROVE  StructInv'
<1>1. BillingTypeOK' /\ UNCHANGED <<invoices, batch, correction>> /\ now <= now'
  BY OutsideKeeps DEF StructInv, history
<1>2. now \in Int /\ now' \in Int /\ batch.target \in Int /\ \A i \in Rows : invoices[i].ym \in Int
  <2>1. BillingTypeOK /\ now' \in Months
    BY <1>1 DEF StructInv, BillingTypeOK
  <2>. QED  BY <2>1, Numbers DEF Months
<1>3. BatchAt'
  BY <1>1, <1>2 DEF StructInv, BatchAt, Rows
<1>4. CorrectionAt'
  BY <1>1 DEF StructInv, CorrectionAt, Rows
<1>5. RowsInv'
  BY <1>1, <1>2 DEF StructInv, RowsInv, OneBase, CorrectedHasBase, InTime, Rows
<1>. QED  BY <1>1, <1>3, <1>4, <1>5 DEF StructInv

\* StructInv is inductive: one lemma for each action.
LEMMA StartStruct ==
    ASSUME StructInv, Start
    PROVE  StructInv'
<1>1. BillingTypeOK'
  BY BatchTyped DEF StructInv, Batch
<1>2. PICK kept \in IF Rows = {} THEN {0} ELSE {invoices[i].items[Kept].quantity : i \in NewestRows} :
         batch' = [Idle EXCEPT !.pc = "past", !.target = now, !.todo = MissingMonths, !.kept = kept]
  BY DEF Start
<1>3. /\ batch'.pc = "past" /\ batch'.target = now /\ batch'.todo = MissingMonths
      /\ now' = now /\ invoices' = invoices /\ correction' = correction
  BY <1>2 DEF Start, Idle, inputs
<1>4. now \in Months /\ now \in Nat /\ \A i \in Rows : invoices[i].ym \in Months
  BY Numbers DEF StructInv
<1>5. \A i \in Rows : invoices[i].ym \notin MissingMonths
  <2>. SUFFICES ASSUME NEW i \in Rows, invoices[i].ym \in MissingMonths PROVE FALSE
    OBVIOUS
  <2>. DEFINE S == {invoices[j].ym : j \in Rows}
  <2>1. S \in SUBSET (1..MaxMonth) /\ MaxMonth \in Nat /\ invoices[i].ym \in S
    BY <1>4, BillingAssumption DEF Months
  <2>2. Max(S) < invoices[i].ym
    <3>1. Rows # {} /\ S = {invoices[j].ym : j \in Rows}
      OBVIOUS
    <3>. HIDE DEF S
    <3>. QED  BY <3>1 DEF MissingMonths
  <2>3. Max(S) \in S /\ \A k \in S : k <= Max(S)
    BY <2>1, MaxIn
  <2>. HIDE DEF S
  <2>4. invoices[i].ym <= Max(S)
    BY <2>1, <2>3
  <2>5. Max(S) \in 1..MaxMonth /\ invoices[i].ym \in 1..MaxMonth
    BY <2>1, <2>3
  <2>. QED  BY <2>1, <2>2, <2>4, <2>5
<1>6. \A m \in MissingMonths : m < now
  BY DEF MissingMonths
<1>7. BatchAt'
  BY <1>3, <1>4, <1>5, <1>6 DEF StructInv, BatchAt, ItemsStages, DraftStages, Rows, Months
<1>8. CorrectionAt'
  BY <1>3 DEF StructInv, CorrectionAt, Rows
<1>9. RowsInv'
  BY <1>3, <1>4 DEF StructInv, RowsInv, OneBase, CorrectedHasBase, InTime, Rows
<1>. QED  BY <1>1, <1>7, <1>8, <1>9 DEF StructInv

LEMMA BackfillStruct ==
    ASSUME StructInv, Backfill
    PROVE  StructInv'
<1>1. BillingTypeOK'
  BY BatchTyped DEF StructInv, Batch
<1>2. PICK m \in batch.todo, x \in Int, y \in Int, z \in Sheet :
           /\ SheetSum(z) = x /\ z[Kept].quantity = batch.kept
           /\ invoices' = Append(invoices, Invoice(m, "finalized", x, y, NoItems))
           /\ batch.pc = "past"
           /\ batch' = [batch EXCEPT !.pc = "backfillItems", !.row = Len(invoices) + 1,
                                     !.items = z, !.todo = @ \ {m}]
           /\ agreed' = [agreed EXCEPT ![m] = x + y]
           /\ UNCHANGED <<inputs, correction, torn, cut, clashed, counted, mails>>
  BY BackfillDoes DEF StructInv
<1>. DEFINE r == Invoice(m, "finalized", x, y, NoItems)
            n == Len(invoices) + 1
<1>3. /\ m \in Months /\ batch.todo \in SUBSET Months /\ batch.pc = "past"
      /\ batch'.pc = "backfillItems" /\ batch'.row = n /\ batch'.todo = batch.todo \ {m}
      /\ batch'.target = batch.target /\ now' = now /\ correction' = correction
  BY <1>2 DEF StructInv, BillingTypeOK, BatchState, inputs
<1>4. r \in Row /\ r.ym = m /\ r.status = "finalized"
  BY <1>3, InvoiceTyped, NoItemsTyped DEF Invoice
<1>5. \A i \in Rows : invoices[i].ym # m
  BY <1>2 DEF StructInv, BatchAt
<1>6. m < batch.target /\ batch.target \in Months /\ batch.target <= now /\ now \in Months /\ batch.target \in 1..now
  BY <1>2, <1>3, TargetInTime DEF StructInv, BatchAt, BillingTypeOK
<1>7. /\ OneBase' /\ CorrectedHasBase'
      /\ Rows' = Rows \cup {n} /\ n \notin Rows
      /\ invoices'[n] = r /\ \A i \in Rows : invoices'[i] = invoices[i]
      /\ \A k : FinalIn(invoices, k) => FinalIn(invoices', k)
  BY <1>2, <1>4, <1>5, AppendStruct DEF StructInv, Rows
<1>. HIDE DEF r, n
<1>8. BatchAt'
  BY <1>3, <1>4, <1>6, <1>7 DEF StructInv, BatchAt, ItemsStages, DraftStages
<1>9. CorrectionAt'
  BY <1>3, <1>7 DEF StructInv, CorrectionAt
<1>10. InTime'
  BY <1>3, <1>4, <1>6, <1>7 DEF StructInv, RowsInv, InTime, Months
<1>. QED  BY <1>1, <1>7, <1>8, <1>9, <1>10 DEF StructInv, RowsInv

LEMMA FinalizeStruct ==
    ASSUME StructInv, Finalize
    PROVE  StructInv'
<1>1. BillingTypeOK'
  BY BatchTyped DEF StructInv, Batch
<1>2. PICK i \in StaleDrafts, x \in Int, y \in Int, z \in Sheet :
           /\ SheetSum(z) = x /\ z[Kept].quantity = invoices[i].items[Kept].quantity
           /\ invoices' = [invoices EXCEPT ![i] = [invoices[i] EXCEPT !.subtotal = x, !.tax = y, !.status = "finalized"]]
           /\ [invoices[i] EXCEPT !.subtotal = x, !.tax = y, !.status = "finalized"] \in Row
           /\ batch.pc = "past" /\ batch.todo = {}
           /\ batch' = [batch EXCEPT !.pc = "finalizeItems", !.row = i, !.items = z]
           /\ agreed' = [agreed EXCEPT ![invoices[i].ym] = x + y]
           /\ UNCHANGED <<inputs, correction, torn, cut, clashed, counted, mails>>
  BY FinalizeDoes DEF StructInv
<1>. DEFINE r == [invoices[i] EXCEPT !.subtotal = x, !.tax = y, !.status = "finalized"]
<1>3. /\ batch'.pc = "finalizeItems" /\ batch'.row = i /\ batch'.todo = {}
      /\ batch'.target = batch.target /\ now' = now /\ correction' = correction
  BY <1>2 DEF StructInv, BillingTypeOK, BatchState, inputs
<1>4. i \in Rows /\ invoices[i] \in Row /\ invoices[i].status = "draft" /\ invoices[i].ym < batch.target
  BY DEF StaleDrafts, StructInv, BillingTypeOK, Rows
<1>5. r.ym = invoices[i].ym /\ r.status = "finalized" /\ r \in Row
  BY <1>2, <1>4 DEF Row
<1>6. Rows' = Rows /\ invoices'[i] = r /\ \A j \in Rows : j # i => invoices'[j] = invoices[j]
  BY <1>2, <1>4, TableUpdate DEF StructInv, BillingTypeOK, Rows
<1>7. batch.target \in Months /\ batch.target <= now /\ now \in Months /\ batch.target \in 1..now
  BY <1>2, TargetInTime DEF StructInv, BatchAt, BillingTypeOK
<1>. HIDE DEF r
<1>8. \A m : FinalIn(invoices, m) => FinalIn(invoices', m)
  BY <1>4, <1>5, <1>6 DEF FinalIn, Rows
<1>9. OneBase'
  <2>1. \A j \in Rows : invoices'[j].ym = invoices[j].ym /\ (invoices'[j].status = "corrected" <=> invoices[j].status = "corrected")
    BY <1>4, <1>5, <1>6
  <2>. QED  BY <1>6, <2>1 DEF StructInv, RowsInv, OneBase
<1>10. CorrectedHasBase'
  BY <1>4, <1>5, <1>6, <1>8 DEF StructInv, RowsInv, CorrectedHasBase
<1>11. InTime'
  BY <1>2, <1>3, <1>4, <1>5, <1>6, <1>7 DEF StructInv, RowsInv, InTime, Months, Row
<1>12. BatchAt'
  BY <1>2, <1>3, <1>4, <1>5, <1>6, <1>7 DEF StructInv, BatchAt, ItemsStages, DraftStages
<1>13. CorrectionAt'
  BY <1>3, <1>4, <1>5, <1>6, <1>8 DEF StructInv, CorrectionAt
<1>. QED  BY <1>1, <1>9, <1>10, <1>11, <1>12, <1>13 DEF StructInv, RowsInv

\* Steps after which there are the same rows, of the same months and kinds.
LEMMA SameStruct ==
    ASSUME StructInv, BillingTypeOK', SameRows, now' = now, correction' = correction,
           batch'.pc # "idle" => batch.pc # "idle" /\ batch'.target = batch.target /\ batch'.todo = batch.todo,
           batch'.pc = "idle" => batch'.todo = {},
           batch'.pc \in ItemsStages \cup DraftStages => batch.pc \in DraftStages /\ batch'.row = batch.row,
           batch'.pc \notin ItemsStages
    PROVE  StructInv'
<1>1. \A m : FinalIn(invoices', m) <=> FinalIn(invoices, m)
  BY SameRowsKeep
<1>2. OneBase' /\ CorrectedHasBase'
  BY SameRowsKeep DEF StructInv, RowsInv
<1>3. InTime'
  BY DEF StructInv, RowsInv, InTime, SameRows
<1>4. CorrectionAt'
  BY <1>1 DEF StructInv, CorrectionAt, SameRows
<1>5. BatchAt'
  BY DEF StructInv, BatchAt, SameRows, ItemsStages, DraftStages
<1>. QED  BY <1>2, <1>3, <1>4, <1>5 DEF StructInv, RowsInv

LEMMA ReplaceItemsStruct ==
    ASSUME StructInv, ReplaceItems
    PROVE  StructInv' /\ SameRows
<1>1. BillingTypeOK'
  BY BatchTyped DEF StructInv, Batch
<1>2. /\ batch.row \in Rows /\ batch.items \in Sheet
      /\ invoices' = [invoices EXCEPT ![batch.row] = [invoices[batch.row] EXCEPT !.items = batch.items]]
      /\ [invoices[batch.row] EXCEPT !.items = batch.items] \in Row
      /\ \/ batch.pc \in ItemsStages /\ batch' = [batch EXCEPT !.pc = "past", !.items = NoItems]
         \/ batch.pc = "refreshItems" /\ batch' = [batch EXCEPT !.pc = "shock", !.items = NoItems]
      /\ UNCHANGED <<inputs, correction>>
  BY ReplaceItemsDoes DEF StructInv
<1>3. batch.pc # "idle" /\ (batch.pc = "refreshItems" => batch.pc \in DraftStages)
  BY <1>2 DEF ItemsStages, DraftStages
<1>4. /\ batch'.pc # "idle" /\ batch'.target = batch.target /\ batch'.todo = batch.todo /\ batch'.row = batch.row
      /\ batch'.pc \notin ItemsStages /\ (batch'.pc \in DraftStages => batch.pc \in DraftStages)
      /\ now' = now /\ correction' = correction
  BY <1>2, <1>3 DEF StructInv, BillingTypeOK, BatchState, inputs, ItemsStages, DraftStages
<1>5. invoices[batch.row] \in Row
  BY <1>2, Numbers DEF StructInv
<1>6. SameRows
  <2>. DEFINE r == [invoices[batch.row] EXCEPT !.items = batch.items]
  <2>1. r.ym = invoices[batch.row].ym /\ r.status = invoices[batch.row].status
    BY <1>5 DEF Row
  <2>. HIDE DEF r
  <2>. QED  BY <1>2, <2>1, UpdateIsSame DEF r, StructInv
<1>. QED  BY <1>1, <1>3, <1>4, <1>6, SameStruct

LEMMA RefreshStruct ==
    ASSUME StructInv, Refresh
    PROVE  StructInv' /\ SameRows
<1>1. BillingTypeOK'
  BY BatchTyped DEF StructInv, Batch
<1>2. batch.pc = "refresh" /\ batch.row \in Rows /\ batch.target \in Months
  BY TargetInTime DEF Refresh, StructInv, BatchAt, DraftStages
<1>3. PICK x \in Int, y \in Int, z \in Sheet :
           /\ SheetSum(z) = x
           /\ invoices' = [invoices EXCEPT ![batch.row] = [invoices[batch.row] EXCEPT !.subtotal = x, !.tax = y]]
           /\ [invoices[batch.row] EXCEPT !.subtotal = x, !.tax = y] \in Row
           /\ batch.pc = "refresh"
           /\ batch' = [batch EXCEPT !.pc = "refreshItems", !.items = z]
           /\ UNCHANGED <<inputs, correction, history>>
  BY <1>2, RefreshDoes DEF StructInv
<1>4. /\ batch'.pc = "refreshItems" /\ batch'.target = batch.target /\ batch'.todo = batch.todo /\ batch'.row = batch.row
      /\ now' = now /\ correction' = correction
  BY <1>3 DEF StructInv, BillingTypeOK, BatchState, inputs
<1>5. invoices[batch.row] \in Row
  BY <1>2, Numbers DEF StructInv
<1>6. SameRows
  <2>. DEFINE r == [invoices[batch.row] EXCEPT !.subtotal = x, !.tax = y]
  <2>1. r.ym = invoices[batch.row].ym /\ r.status = invoices[batch.row].status
    BY <1>5 DEF Row
  <2>. HIDE DEF r
  <2>. QED  BY <1>2, <1>3, <2>1, UpdateIsSame DEF r, StructInv
<1>. QED  BY <1>1, <1>2, <1>4, <1>6, SameStruct DEF DraftStages, ItemsStages

LEMMA MarkNotifiedStruct ==
    ASSUME StructInv, MarkNotified
    PROVE  StructInv' /\ SameRows
<1>1. BillingTypeOK'
  BY BatchTyped DEF StructInv, Batch
<1>2. /\ batch.row \in Rows
      /\ invoices' = [invoices EXCEPT ![batch.row] = [invoices[batch.row] EXCEPT !.notified = TRUE]]
      /\ [invoices[batch.row] EXCEPT !.notified = TRUE] \in Row
  BY MarkNotifiedDoes DEF StructInv
<1>3. batch'.pc = "idle" /\ batch'.todo = {} /\ now' = now /\ correction' = correction
  BY DEF MarkNotified, Idle, inputs
<1>4. invoices[batch.row] \in Row
  BY <1>2, Numbers DEF StructInv
<1>5. SameRows
  <2>. DEFINE r == [invoices[batch.row] EXCEPT !.notified = TRUE]
  <2>1. r.ym = invoices[batch.row].ym /\ r.status = invoices[batch.row].status
    BY <1>4 DEF Row
  <2>. HIDE DEF r
  <2>. QED  BY <1>2, <2>1, UpdateIsSame DEF r, StructInv
<1>. QED  BY <1>1, <1>3, <1>5, SameStruct DEF DraftStages, ItemsStages

LEMMA NotifyStruct ==
    ASSUME StructInv, Notify
    PROVE  StructInv' /\ SameRows
<1>1. BillingTypeOK'
  BY BatchTyped DEF StructInv, Batch
<1>2. invoices' = invoices /\ now' = now /\ correction' = correction
  BY DEF Notify, inputs
<1>3. SameRows
  BY <1>2 DEF SameRows, StructInv, BillingTypeOK, Rows
<1>4. \/ /\ batch.pc = "shock" /\ batch'.pc = "mark" /\ batch'.target = batch.target
         /\ batch'.todo = batch.todo /\ batch'.row = batch.row
      \/ batch'.pc = "idle" /\ batch'.todo = {}
  BY DEF Notify, Idle, StructInv, BillingTypeOK, BatchState
<1>. QED  BY <1>1, <1>2, <1>3, <1>4, SameStruct DEF DraftStages, ItemsStages

LEMMA DraftStruct ==
    ASSUME StructInv, Draft
    PROVE  StructInv'
<1>1. BillingTypeOK'
  BY BatchTyped DEF StructInv, Batch
<1>2. /\ batch.target \in Months /\ batch.target <= now /\ batch.pc = "past" /\ batch.todo = {}
      /\ now' = now /\ correction' = correction
  BY TargetInTime DEF Draft, StructInv, inputs
<1>3. CASE /\ RowsOf(batch.target) = {}
           /\ invoices' = Append(invoices, Invoice(batch.target, "draft", 0, 0, NoItems))
           /\ batch' = [batch EXCEPT !.pc = "refresh", !.row = Len(invoices) + 1]
  <2>. DEFINE r == Invoice(batch.target, "draft", 0, 0, NoItems)
              n == Len(invoices) + 1
  <2>1. r \in Row /\ r.ym = batch.target /\ r.status = "draft"
    BY <1>2, InvoiceTyped, NoItemsTyped DEF Invoice
  <2>2. \A i \in Rows : invoices[i].ym # batch.target
    BY <1>3 DEF RowsOf
  <2>3. /\ batch'.pc = "refresh" /\ batch'.row = n /\ batch'.todo = batch.todo /\ batch'.target = batch.target
    BY <1>3 DEF StructInv, BillingTypeOK, BatchState
  <2>4. /\ OneBase' /\ CorrectedHasBase'
        /\ Rows' = Rows \cup {n} /\ n \notin Rows
        /\ invoices'[n] = r /\ \A i \in Rows : invoices'[i] = invoices[i]
        /\ \A k : FinalIn(invoices, k) => FinalIn(invoices', k)
    BY <1>3, <2>1, <2>2, AppendStruct DEF StructInv
  <2>5. batch.target \in 1..now /\ now \in Nat /\ batch.target \in Nat
    BY <1>2, Numbers DEF StructInv, BatchAt
  <2>. HIDE DEF r, n
  <2>6. BatchAt'
    BY <1>2, <2>1, <2>3, <2>4, <2>5 DEF StructInv, BatchAt, ItemsStages, DraftStages
  <2>7. CorrectionAt'
    BY <1>2, <2>4 DEF StructInv, CorrectionAt
  <2>8. InTime'
    BY <1>2, <2>1, <2>3, <2>4, <2>5 DEF StructInv, RowsInv, InTime
  <2>. QED  BY <1>1, <2>4, <2>6, <2>7, <2>8 DEF StructInv, RowsInv
<1>4. ASSUME NEW i \in RowsOf(batch.target), UNCHANGED invoices,
             batch' = IF invoices[i].status = "draft" THEN [batch EXCEPT !.pc = "refresh", !.row = i] ELSE Idle
      PROVE  StructInv'
  <2>1. i \in Rows /\ invoices[i].ym = batch.target /\ batch.target \in Nat /\ invoices' = invoices
    BY <1>4, Numbers DEF RowsOf, StructInv
  <2>2. invoices[i].status = "draft"
    BY <1>2, <2>1 DEF StructInv, RowsInv, InTime
  <2>3. batch'.pc = "refresh" /\ batch'.row = i /\ batch'.todo = batch.todo /\ batch'.target = batch.target
    BY <1>4, <2>2 DEF StructInv, BillingTypeOK, BatchState
  <2>4. BatchAt'
    BY <1>2, <2>1, <2>2, <2>3 DEF StructInv, BatchAt, ItemsStages, DraftStages, Rows
  <2>5. CorrectionAt'
    BY <1>2, <2>1 DEF StructInv, CorrectionAt, Rows
  <2>6. RowsInv'
    BY <1>2, <2>1, <2>3 DEF StructInv, RowsInv, OneBase, CorrectedHasBase, InTime, Rows
  <2>. QED  BY <1>1, <2>4, <2>5, <2>6 DEF StructInv
<1>. QED  BY <1>3, <1>4 DEF Draft

LEMMA CorrectReadStruct ==
    ASSUME StructInv, NEW a \in Admins, NEW m \in Months, CorrectRead(a, m)
    PROVE  StructInv'
<1>1. BillingTypeOK'
  BY CorrectionTyped DEF StructInv
<1>2. /\ invoices' = invoices /\ batch' = batch /\ now' = now /\ Finalized(m)
  BY DEF CorrectRead, inputs
<1>3. PICK x \in Int, y \in Int, z \in Sheet, goal \in Int :
           correction' = [b \in Admins |->
               IF b \in InFlight(m) THEN [correction[b] EXCEPT !.clean = FALSE]
               ELSE IF b # a \/ (x = 0 /\ y = 0) THEN correction[b]
               ELSE [pc |-> "insert", ym |-> m, subtotal |-> x, tax |-> y, items |-> z,
                     goal |-> goal, row |-> 0, clean |-> InFlight(m) = {} /\ ~ItemsPending(m)]]
  BY CorrectReadDoes DEF StructInv
<1>4. \A b \in Admins :
         \/ correction'[b].pc = correction[b].pc /\ correction'[b].ym = correction[b].ym /\ correction'[b].row = correction[b].row
         \/ correction'[b].pc = "insert" /\ correction'[b].ym = m
  BY <1>3 DEF StructInv, BillingTypeOK, CorrectionState
<1>5. FinalIn(invoices, m)
  BY <1>2, FinalizedIn
<1>6. CorrectionAt'
  BY <1>2, <1>4, <1>5 DEF StructInv, CorrectionAt, Rows
<1>. QED  BY <1>1, <1>2, <1>6 DEF StructInv, BatchAt, RowsInv, OneBase, CorrectedHasBase, InTime, Rows

LEMMA CorrectInsertStruct ==
    ASSUME StructInv, NEW a \in Admins, CorrectInsert(a)
    PROVE  StructInv'
<1>1. BillingTypeOK'
  BY CorrectionTyped DEF StructInv
<1>. DEFINE c == correction[a]
            r == Invoice(c.ym, "corrected", c.subtotal, c.tax, NoItems)
            n == Len(invoices) + 1
<1>2. /\ c \in CorrectionState /\ c.pc = "insert" /\ c.ym \in Months /\ r \in Row
      /\ invoices' = Append(invoices, r)
      /\ correction' = [correction EXCEPT ![a] = [c EXCEPT !.pc = "items", !.row = n]]
  BY CorrectInsertDoes DEF StructInv
<1>3. batch' = batch /\ now' = now
  BY DEF CorrectInsert, inputs
<1>4. r.ym = c.ym /\ r.status = "corrected"
  BY DEF Invoice
<1>5. FinalIn(invoices, c.ym)
  BY <1>2 DEF StructInv, CorrectionAt
<1>6. PICK f \in Rows : invoices[f].ym = c.ym /\ invoices[f].status = "finalized"
  BY <1>5 DEF FinalIn, Rows
<1>7. /\ OneBase' /\ CorrectedHasBase'
      /\ Rows' = Rows \cup {n} /\ n \notin Rows
      /\ invoices'[n] = r /\ \A i \in Rows : invoices'[i] = invoices[i]
      /\ \A k : FinalIn(invoices, k) => FinalIn(invoices', k)
  BY <1>2, <1>4, <1>5, AppendStruct DEF StructInv
<1>8. /\ correction'[a].pc = "items" /\ correction'[a].ym = c.ym /\ correction'[a].row = n
      /\ \A b \in Admins : b # a => correction'[b] = correction[b]
  BY <1>2 DEF StructInv, BillingTypeOK, CorrectionState
<1>. HIDE DEF c, r, n
<1>9. CorrectionAt'
  <2>1. ASSUME NEW b \in Admins, correction'[b].pc # "idle"
        PROVE  /\ correction'[b].ym \in Months /\ FinalIn(invoices', correction'[b].ym)
               /\ correction'[b].pc = "items" => LET i == correction'[b].row
                    IN  i \in Rows' /\ invoices'[i].ym = correction'[b].ym /\ invoices'[i].status = "corrected"
    <3>1. CASE b = a
      <4>1. FinalIn(invoices', c.ym) /\ c.ym \in Months
        BY <1>2, <1>5, <1>7
      <4>2. correction'[b].ym = c.ym /\ correction'[b].row = n
        BY <1>8, <3>1
      <4>3. n \in Rows' /\ invoices'[n].ym = c.ym /\ invoices'[n].status = "corrected"
        BY <1>4, <1>7
      <4>. QED  BY <4>1, <4>2, <4>3
    <3>2. CASE b # a
      <4>1. correction'[b] = correction[b]
        BY <1>8, <3>2
      <4>. QED  BY <1>7, <2>1, <4>1 DEF StructInv, CorrectionAt
    <3>. QED  BY <3>1, <3>2
  <2>. QED  BY <2>1 DEF CorrectionAt
<1>10. BatchAt'
  <2>1. c.ym \notin batch.todo
    BY <1>6 DEF StructInv, BatchAt
  <2>. QED  BY <1>3, <1>4, <1>7, <2>1 DEF StructInv, BatchAt, ItemsStages, DraftStages
<1>11. InTime'
  BY <1>3, <1>4, <1>6, <1>7 DEF StructInv, RowsInv, InTime
<1>. QED  BY <1>1, <1>7, <1>9, <1>10, <1>11 DEF StructInv, RowsInv

LEMMA CorrectItemsStruct ==
    ASSUME StructInv, NEW a \in Admins, CorrectItems(a)
    PROVE  StructInv' /\ SameRows
<1>1. BillingTypeOK'
  BY CorrectionTyped DEF StructInv
<1>. DEFINE c == correction[a]
            r == [invoices[c.row] EXCEPT !.items = c.items]
<1>2. /\ c \in CorrectionState /\ c.pc = "items" /\ c.row \in Rows
      /\ invoices' = [invoices EXCEPT ![c.row] = r] /\ r \in Row
  BY CorrectItemsDoes DEF StructInv
<1>3. batch' = batch /\ now' = now /\ correction' = [correction EXCEPT ![a] = NoCorrection]
  BY DEF CorrectItems, inputs
<1>4. r.ym = invoices[c.row].ym /\ r.status = invoices[c.row].status
  BY <1>2, Numbers DEF Row, StructInv
<1>5. SameRows
  BY <1>2, <1>4, UpdateIsSame DEF StructInv
<1>. HIDE DEF c, r
<1>6. \A m : FinalIn(invoices', m) <=> FinalIn(invoices, m)
  BY <1>5, SameRowsKeep
<1>7. OneBase' /\ CorrectedHasBase'
  BY <1>5, SameRowsKeep DEF StructInv, RowsInv
<1>8. \A b \in Admins : correction'[b].pc = "idle" \/ correction'[b] = correction[b]
  BY <1>3 DEF NoCorrection, StructInv, BillingTypeOK
<1>9. CorrectionAt'
  <2>1. ASSUME NEW b \in Admins, correction'[b].pc # "idle"
        PROVE  /\ correction'[b].ym \in Months /\ FinalIn(invoices', correction'[b].ym)
               /\ correction'[b].pc = "items" => LET i == correction'[b].row
                    IN  i \in Rows' /\ invoices'[i].ym = correction'[b].ym /\ invoices'[i].status = "corrected"
    <3>1. correction'[b] = correction[b]
      BY <1>8, <2>1
    <3>. QED  BY <1>5, <1>6, <2>1, <3>1 DEF StructInv, CorrectionAt, SameRows
  <2>. QED  BY <2>1 DEF CorrectionAt
<1>10. BatchAt' /\ InTime'
  BY <1>3, <1>5 DEF StructInv, RowsInv, BatchAt, InTime, SameRows
<1>. QED  BY <1>1, <1>5, <1>7, <1>9, <1>10 DEF StructInv, RowsInv

LEMMA InterruptStruct ==
    ASSUME StructInv, NEW S, Interrupt(S)
    PROVE  StructInv'
<1>1. BillingTypeOK'
  BY InterruptTyped DEF StructInv
<1>2. /\ invoices' = invoices /\ now' = now /\ (batch' = batch \/ batch' = Idle)
      /\ \A b \in Admins : correction'[b] = NoCorrection \/ correction'[b] = correction[b]
  BY DEF Interrupt, inputs
<1>3. BatchAt'
  BY <1>2 DEF StructInv, BatchAt, Idle, ItemsStages, DraftStages, Rows
<1>4. CorrectionAt'
  BY <1>2 DEF StructInv, CorrectionAt, NoCorrection, Rows
<1>5. RowsInv'
  BY <1>2 DEF StructInv, RowsInv, OneBase, CorrectedHasBase, InTime, Idle, Rows
<1>. QED  BY <1>1, <1>3, <1>4, <1>5 DEF StructInv

LEMMA StructInit == Init => StructInv
<1>. SUFFICES ASSUME Init PROVE StructInv
  OBVIOUS
<1>1. BillingTypeOK
  BY InitTyped
<1>2. Rows = {} /\ batch = Idle /\ \A a \in Admins : correction[a].pc = "idle"
  BY DEF Init, Rows, NoCorrection
<1>. QED  BY <1>1, <1>2 DEF StructInv, BatchAt, CorrectionAt, RowsInv, OneBase, CorrectedHasBase, InTime,
                          Idle, ItemsStages, DraftStages

\* All of them together.
LEMMA StructNext == StructInv /\ [Next]_vars => StructInv'
<1>. SUFFICES ASSUME StructInv, [Next]_vars PROVE StructInv'
  OBVIOUS
<1>1. CASE UNCHANGED vars
  BY <1>1 DEF vars, inputs, history, StructInv, BillingTypeOK, BatchAt, CorrectionAt, RowsInv, OneBase,
              CorrectedHasBase, InTime, Rows
<1>2. CASE Next
  BY <1>2, OutsideStruct, StartStruct, BackfillStruct, FinalizeStruct, ReplaceItemsStruct, DraftStruct,
     RefreshStruct, NotifyStruct, MarkNotifiedStruct, CorrectReadStruct, CorrectInsertStruct,
     CorrectItemsStruct, InterruptStruct DEF Next, Batch
<1>. QED  BY <1>1, <1>2

-----------------------------------------------------------------------------
(* Money: sums of rows against items and against what was computed last.   *)

\* What the rows of a month add up to in the table s, and how far the items are off.
SumIn(s, m) == SubtotalIn(s, m) + TaxIn(s, m)
DiffIn(s, m) == (AmountIn(s, m, Flow) + AmountIn(s, m, Kept) + AmountIn(s, m, Live)) - SubtotalIn(s, m)
RowDiff(r) == SheetSum(r.items) - r.subtotal
FinalMonth(s, m) == /\ \E i \in DOMAIN s : s[i].ym = m
                    /\ \A i \in DOMAIN s : s[i].ym = m => s[i].status # "draft"
Due(m) == \E a \in Admins : correction[a].pc = "items" /\ correction[a].ym = m

\* What the rows of the month are still short of while its items are being written.
Gap(m) == IF ItemsPending(m) THEN SheetSum(invoices[batch.row].items) - SheetSum(batch.items) ELSE 0
\* A clean correction is the only writer of its month, and what it writes fits.
CorrectionFits(a) ==
    LET c == correction[a] IN
    c.clean =>
      /\ ~ItemsPending(c.ym)
      /\ \A b \in Admins : correction[b].pc # "idle" /\ correction[b].ym = c.ym => b = a
      /\ c.pc = "insert" => /\ SheetSum(c.items) - c.subtotal + DiffIn(invoices, c.ym) = 0
                            /\ SumIn(invoices, c.ym) + c.subtotal + c.tax = c.goal
      /\ c.pc = "items" => /\ SheetSum(c.items) + DiffIn(invoices, c.ym) = 0
                           /\ SheetSum(invoices[c.row].items) = 0
MonthMoney(m) ==
    /\ FinalMonth(invoices, m) /\ m \notin torn /\ ~Due(m) => DiffIn(invoices, m) = Gap(m)
    /\ FinalMonth(invoices, m) /\ m \notin clashed => SumIn(invoices, m) = agreed[m]
    /\ \A a \in Admins : correction[a].pc # "idle" /\ correction[a].ym = m => CorrectionFits(a)
MoneyInv == \A m \in Months : MonthMoney(m)

\* Sums, differences and what a row contributes to them are integers.
LEMMA SheetSumTyped == ASSUME NEW z \in Sheet PROVE SheetSum(z) \in Int
BY DEF SheetSum, Sheet, Line, Keys

LEMMA RowDiffTyped == ASSUME NEW r \in Row PROVE RowDiff(r) \in Int /\ SheetSum(r.items) \in Int /\ r.subtotal \in Int /\ r.tax \in Int
BY SheetSumTyped, RowTyped DEF RowDiff

LEMMA DiffTyped == ASSUME NEW s \in Seq(Row), NEW m PROVE DiffIn(s, m) \in Int /\ SumIn(s, m) \in Int
BY TotalsTyped DEF DiffIn, SumIn, Keys

\* What an added row changes for its month, and nothing for the others.
LEMMA DiffAppend ==
    ASSUME NEW s \in Seq(Row), NEW r \in Row, NEW m
    PROVE  /\ r.ym = m => /\ DiffIn(Append(s, r), m) = DiffIn(s, m) + RowDiff(r)
                          /\ SumIn(Append(s, r), m) = SumIn(s, m) + r.subtotal + r.tax
           /\ r.ym # m => DiffIn(Append(s, r), m) = DiffIn(s, m) /\ SumIn(Append(s, r), m) = SumIn(s, m)
<1>. DEFINE t == Append(s, r)
<1>1. ASSUME r.ym = m
      PROVE  DiffIn(t, m) = DiffIn(s, m) + RowDiff(r) /\ SumIn(t, m) = SumIn(s, m) + r.subtotal + r.tax
  <2>. DEFINE a(k) == AmountIn(s, m, k)
              x(k) == r.items[k].amount
  <2>1. SubtotalIn(t, m) = SubtotalIn(s, m) + r.subtotal /\ TaxIn(t, m) = TaxIn(s, m) + r.tax
    BY <1>1, TotalsAppend
  <2>2. \A k \in Keys : AmountIn(t, m, k) = a(k) + x(k)
    BY <1>1, TotalsAppend
  <2>3. SubtotalIn(s, m) \in Int /\ TaxIn(s, m) \in Int /\ r.subtotal \in Int /\ r.tax \in Int
    BY TotalsTyped, RowTyped
  <2>4. \A k \in Keys : a(k) \in Int /\ x(k) \in Int
    BY TotalsTyped, RowTyped
  <2>5. RowDiff(r) = (x(Flow) + x(Kept) + x(Live)) - r.subtotal
    BY DEF RowDiff, SheetSum
  <2>6. DiffIn(s, m) = (a(Flow) + a(Kept) + a(Live)) - SubtotalIn(s, m)
    BY DEF DiffIn
  <2>. HIDE DEF t, a, x
  <2>7. DiffIn(t, m) = ((a(Flow) + x(Flow)) + (a(Kept) + x(Kept)) + (a(Live) + x(Live))) - (SubtotalIn(s, m) + r.subtotal)
    BY <2>1, <2>2 DEF DiffIn, Keys
  <2>8. DiffIn(t, m) = DiffIn(s, m) + RowDiff(r)
    <3>1. /\ a(Flow) \in Int /\ a(Kept) \in Int /\ a(Live) \in Int
          /\ x(Flow) \in Int /\ x(Kept) \in Int /\ x(Live) \in Int
      BY <2>4 DEF Keys
    <3>2. SubtotalIn(s, m) \in Int /\ r.subtotal \in Int
      BY <2>3
    <3>3. PICK a1, a2, a3, b1, b2, b3, p, q :
             /\ a1 = a(Flow) /\ a2 = a(Kept) /\ a3 = a(Live) /\ b1 = x(Flow) /\ b2 = x(Kept) /\ b3 = x(Live)
             /\ p = SubtotalIn(s, m) /\ q = r.subtotal
      OBVIOUS
    <3>4. /\ a1 \in Int /\ a2 \in Int /\ a3 \in Int /\ b1 \in Int /\ b2 \in Int /\ b3 \in Int
          /\ p \in Int /\ q \in Int
      BY <3>1, <3>2, <3>3
    <3>5. /\ DiffIn(t, m) = ((a1 + b1) + (a2 + b2) + (a3 + b3)) - (p + q)
          /\ DiffIn(s, m) = (a1 + a2 + a3) - p /\ RowDiff(r) = (b1 + b2 + b3) - q
      BY <2>5, <2>6, <2>7, <3>3
    <3>6. ((a1 + b1) + (a2 + b2) + (a3 + b3)) - (p + q) = ((a1 + a2 + a3) - p) + ((b1 + b2 + b3) - q)
      BY <3>4
    <3>. QED  BY <3>5, <3>6
  <2>9. SumIn(t, m) = SumIn(s, m) + r.subtotal + r.tax
    BY <2>1, <2>3 DEF SumIn
  <2>. QED  BY <2>8, <2>9
<1>2. ASSUME r.ym # m PROVE DiffIn(t, m) = DiffIn(s, m) /\ SumIn(t, m) = SumIn(s, m)
  <2>1. SubtotalIn(t, m) = SubtotalIn(s, m) /\ TaxIn(t, m) = TaxIn(s, m)
    BY <1>2, TotalsAppend
  <2>2. \A k \in Keys : AmountIn(t, m, k) = AmountIn(s, m, k)
    BY <1>2, TotalsAppend
  <2>. HIDE DEF t
  <2>. QED  BY <2>1, <2>2 DEF DiffIn, SumIn, Keys
<1>. QED  BY <1>1, <1>2

\* What a replaced row changes.
LEMMA DiffUpdate ==
    ASSUME NEW s \in Seq(Row), NEW i \in DOMAIN s, NEW r \in Row, r.ym = s[i].ym, NEW m
    PROVE  /\ r.ym = m => /\ DiffIn(Put(s, i, r), m) = DiffIn(s, m) + RowDiff(r) - RowDiff(s[i])
                          /\ SumIn(Put(s, i, r), m)
                               = SumIn(s, m) + r.subtotal + r.tax - s[i].subtotal - s[i].tax
           /\ r.ym # m => /\ DiffIn(Put(s, i, r), m) = DiffIn(s, m)
                          /\ SumIn(Put(s, i, r), m) = SumIn(s, m)
<1>. DEFINE t == Put(s, i, r)
            o == s[i]
<1>1. ASSUME r.ym = m
      PROVE  /\ DiffIn(t, m) = DiffIn(s, m) + RowDiff(r) - RowDiff(o)
             /\ SumIn(t, m) = SumIn(s, m) + r.subtotal + r.tax - o.subtotal - o.tax
  <2>. DEFINE a(k) == AmountIn(s, m, k)
              x(k) == r.items[k].amount
              y(k) == s[i].items[k].amount
  <2>1. /\ SubtotalIn(t, m) = SubtotalIn(s, m) + (r.subtotal - o.subtotal)
        /\ TaxIn(t, m) = TaxIn(s, m) + (r.tax - o.tax)
    <3>1. SubtotalIn(t, m) = SubtotalIn(s, m) + (r.subtotal - s[i].subtotal)
      BY <1>1, TotalsUpdate
    <3>2. TaxIn(t, m) = TaxIn(s, m) + (r.tax - s[i].tax)
      BY <1>1, TotalsUpdate
    <3>. QED  BY <3>1, <3>2
  <2>2. \A k \in Keys : AmountIn(t, m, k) = a(k) + (x(k) - y(k))
    BY <1>1, TotalsUpdate
  <2>3. /\ SubtotalIn(s, m) \in Int /\ TaxIn(s, m) \in Int /\ r.subtotal \in Int /\ r.tax \in Int
        /\ o.subtotal \in Int /\ o.tax \in Int /\ \A k \in Keys : a(k) \in Int /\ x(k) \in Int /\ y(k) \in Int
    <3>1. o \in Row
      OBVIOUS
    <3>. QED  BY <3>1, TotalsTyped, RowTyped
  <2>4. RowDiff(r) = (x(Flow) + x(Kept) + x(Live)) - r.subtotal /\ RowDiff(o) = (y(Flow) + y(Kept) + y(Live)) - o.subtotal
    BY DEF RowDiff, SheetSum
  <2>5. DiffIn(s, m) = (a(Flow) + a(Kept) + a(Live)) - SubtotalIn(s, m)
    BY DEF DiffIn
  <2>. HIDE DEF t, o, a, x, y
  <2>6. DiffIn(t, m) = ((a(Flow) + (x(Flow) - y(Flow))) + (a(Kept) + (x(Kept) - y(Kept))) + (a(Live) + (x(Live) - y(Live))))
                         - (SubtotalIn(s, m) + (r.subtotal - o.subtotal))
    BY <2>1, <2>2 DEF DiffIn, Keys
  <2>7. DiffIn(t, m) = DiffIn(s, m) + RowDiff(r) - RowDiff(o)
    <3>1. /\ a(Flow) \in Int /\ a(Kept) \in Int /\ a(Live) \in Int
          /\ x(Flow) \in Int /\ x(Kept) \in Int /\ x(Live) \in Int
          /\ y(Flow) \in Int /\ y(Kept) \in Int /\ y(Live) \in Int
      BY <2>3 DEF Keys
    <3>2. SubtotalIn(s, m) \in Int /\ r.subtotal \in Int /\ o.subtotal \in Int
      BY <2>3
    <3>. DEFINE p == SubtotalIn(s, m)
                q == r.subtotal
                u == o.subtotal
                c == (a(Flow) + a(Kept) + a(Live)) - p
                d == (x(Flow) + x(Kept) + x(Live)) - q
                e == (y(Flow) + y(Kept) + y(Live)) - u
    <3>3. DiffIn(s, m) = c /\ RowDiff(r) = d /\ RowDiff(o) = e
      BY <2>4, <2>5
    <3>4. ((a(Flow) + (x(Flow) - y(Flow))) + (a(Kept) + (x(Kept) - y(Kept))) + (a(Live) + (x(Live) - y(Live))))
                         - (p + (q - u)) = c + (d - e)
      <4>. DEFINE a1 == a(Flow)
                  a2 == a(Kept)
                  a3 == a(Live)
                  x1 == x(Flow)
                  x2 == x(Kept)
                  x3 == x(Live)
                  y1 == y(Flow)
                  y2 == y(Kept)
                  y3 == y(Live)
      <4>1. /\ a1 \in Int /\ a2 \in Int /\ a3 \in Int /\ x1 \in Int /\ x2 \in Int /\ x3 \in Int
            /\ y1 \in Int /\ y2 \in Int /\ y3 \in Int /\ p \in Int /\ q \in Int /\ u \in Int
        BY <3>1, <3>2
      <4>. HIDE DEF p, q, u, a1, a2, a3, x1, x2, x3, y1, y2, y3
      <4>2. ((a1 + (x1 - y1)) + (a2 + (x2 - y2)) + (a3 + (x3 - y3))) - (p + (q - u))
             = ((a1 + a2 + a3) - p) + (((x1 + x2 + x3) - q) - ((y1 + y2 + y3) - u))
        BY <4>1
      <4>. QED  BY <4>2 DEF p, q, u, a1, a2, a3, x1, x2, x3, y1, y2, y3
    <3>. HIDE DEF c, d, e
    <3>. QED  BY <2>6, <3>3, <3>4
  <2>8. SumIn(t, m) = SumIn(s, m) + r.subtotal + r.tax - o.subtotal - o.tax
    BY <2>1, <2>3 DEF SumIn
  <2>. QED  BY <2>7, <2>8
<1>2. ASSUME r.ym # m PROVE DiffIn(t, m) = DiffIn(s, m) /\ SumIn(t, m) = SumIn(s, m)
  <2>1. SubtotalIn(t, m) = SubtotalIn(s, m) /\ TaxIn(t, m) = TaxIn(s, m)
    BY <1>2, TotalsUpdate
  <2>2. \A k \in Keys : AmountIn(t, m, k) = AmountIn(s, m, k)
    BY <1>2, TotalsUpdate
  <2>. HIDE DEF t
  <2>. QED  BY <2>1, <2>2 DEF DiffIn, SumIn, Keys
<1>. QED  BY <1>1, <1>2

\* A month with one row, and one with none.
LEMMA DiffOne ==
    ASSUME NEW s \in Seq(Row), NEW m, NEW i \in DOMAIN s, s[i].ym = m,
           \A j \in DOMAIN s : s[j].ym = m => j = i
    PROVE  DiffIn(s, m) = RowDiff(s[i]) /\ SumIn(s, m) = s[i].subtotal + s[i].tax
<1>1. SubtotalIn(s, m) = s[i].subtotal /\ TaxIn(s, m) = s[i].tax
  BY TotalsOne
<1>2. \A k \in Keys : AmountIn(s, m, k) = s[i].items[k].amount
  BY TotalsOne
<1>. DEFINE y(k) == s[i].items[k].amount
            z == s[i].subtotal
<1>3. RowDiff(s[i]) = (y(Flow) + y(Kept) + y(Live)) - z
  BY DEF RowDiff, SheetSum
<1>4. DiffIn(s, m) = (y(Flow) + y(Kept) + y(Live)) - z
  <2>1. SubtotalIn(s, m) = z /\ \A k \in Keys : AmountIn(s, m, k) = y(k)
    BY <1>1, <1>2
  <2>. HIDE DEF y, z
  <2>. QED  BY <2>1 DEF DiffIn, Keys
<1>. HIDE DEF y, z
<1>5. SumIn(s, m) = s[i].subtotal + s[i].tax
  BY <1>1 DEF SumIn
<1>. QED  BY <1>3, <1>4, <1>5

LEMMA DiffNone ==
    ASSUME NEW s \in Seq(Row), NEW m, \A j \in DOMAIN s : s[j].ym # m
    PROVE  DiffIn(s, m) = 0 /\ SumIn(s, m) = 0
BY TotalsNone DEF DiffIn, SumIn, Keys

\* A month none of whose rows is written.
LEMMA OtherMonth ==
    ASSUME NEW s \in Seq(Row), NEW r \in Row, NEW m, r.ym # m
    PROVE  /\ DiffIn(Append(s, r), m) = DiffIn(s, m) /\ SumIn(Append(s, r), m) = SumIn(s, m)
           /\ FinalMonth(Append(s, r), m) <=> FinalMonth(s, m)
           /\ \A i \in DOMAIN s : r.ym = s[i].ym =>
                /\ DiffIn(Put(s, i, r), m) = DiffIn(s, m) /\ SumIn(Put(s, i, r), m) = SumIn(s, m)
                /\ FinalMonth(Put(s, i, r), m) <=> FinalMonth(s, m)
<1>1. DiffIn(s, m) \in Int /\ SumIn(s, m) \in Int
  BY DiffTyped
<1>2. DiffIn(Append(s, r), m) = DiffIn(s, m) /\ SumIn(Append(s, r), m) = SumIn(s, m)
  BY <1>1, DiffAppend
<1>3. FinalMonth(Append(s, r), m) <=> FinalMonth(s, m)
  <2>. DEFINE t == Append(s, r)
              n == Len(s) + 1
  <2>1. DOMAIN t = DOMAIN s \cup {n} /\ t[n] = r /\ \A i \in DOMAIN s : t[i] = s[i]
    BY TableAppend
  <2>. HIDE DEF t, n
  <2>2. FinalMonth(t, m) <=> FinalMonth(s, m)
    BY <2>1 DEF FinalMonth
  <2>. QED  BY <2>2 DEF t
<1>4. ASSUME NEW i \in DOMAIN s, r.ym = s[i].ym
      PROVE  /\ DiffIn(Put(s, i, r), m) = DiffIn(s, m) /\ SumIn(Put(s, i, r), m) = SumIn(s, m)
             /\ FinalMonth(Put(s, i, r), m) <=> FinalMonth(s, m)
  <2>. DEFINE t == Put(s, i, r)
  <2>1. DOMAIN t = DOMAIN s /\ t[i] = r /\ \A j \in DOMAIN s : j # i => t[j] = s[j]
    BY TableUpdate DEF Put
  <2>2. DiffIn(t, m) = DiffIn(s, m) /\ SumIn(t, m) = SumIn(s, m)
    BY <1>4, DiffUpdate
  <2>. HIDE DEF t
  <2>3. FinalMonth(t, m) <=> FinalMonth(s, m)
    BY <1>4, <2>1 DEF FinalMonth
  <2>. QED  BY <2>2, <2>3 DEF t
<1>. QED  BY <1>2, <1>3, <1>4

\* A step that writes no row of the month, nor decides anything about its money.
Untouched(m) ==
    /\ DiffIn(invoices', m) = DiffIn(invoices, m) /\ SumIn(invoices', m) = SumIn(invoices, m)
    /\ FinalMonth(invoices', m) <=> FinalMonth(invoices, m)
    /\ \A i \in Rows : invoices[i].ym = m => i \in Rows' /\ invoices'[i] = invoices[i]
    /\ agreed'[m] = agreed[m] /\ (m \in clashed => m \in clashed') /\ (m \in torn => m \in torn')
    /\ Due(m) => Due(m)' \/ m \in torn'
    /\ ItemsPending(m)' => ItemsPending(m)
    /\ m \in torn' \/ Gap(m)' = Gap(m)
    /\ \A a \in Admins : correction'[a].pc # "idle" => correction'[a] = correction[a] \/ correction'[a].ym # m

\* Such a step preserves what MoneyInv says of the month.
LEMMA UntouchedKeeps ==
    ASSUME CorrectionAt, NEW m, Untouched(m), MonthMoney(m)
    PROVE  MonthMoney(m)'
<1>1. FinalMonth(invoices', m) /\ m \notin torn' /\ ~Due(m)' => DiffIn(invoices', m) = Gap(m)'
  BY DEF Untouched, MonthMoney
<1>2. FinalMonth(invoices', m) /\ m \notin clashed' => SumIn(invoices', m) = agreed'[m]
  BY DEF Untouched, MonthMoney
<1>3. ASSUME NEW a \in Admins, correction'[a].pc # "idle", correction'[a].ym = m
      PROVE  CorrectionFits(a)'
  <2>1. correction'[a] = correction[a]
    BY <1>3 DEF Untouched
  <2>2. CorrectionFits(a)
    BY <1>3, <2>1 DEF MonthMoney
  <2>3. \A b \in Admins : correction'[b].pc # "idle" /\ correction'[b].ym = m => correction[b].pc # "idle" /\ correction[b].ym = m
    BY DEF Untouched
  <2>4. correction[a].pc = "items" => invoices'[correction[a].row] = invoices[correction[a].row]
    BY <1>3, <2>1 DEF CorrectionAt, Untouched
  <2>5. /\ DiffIn(invoices', m) = DiffIn(invoices, m) /\ SumIn(invoices', m) = SumIn(invoices, m)
        /\ ItemsPending(m)' => ItemsPending(m)
    BY DEF Untouched
  <2>. QED  BY <1>3, <2>1, <2>2, <2>3, <2>4, <2>5 DEF CorrectionFits
<1>. QED  BY <1>1, <1>2, <1>3 DEF MonthMoney

\* The money of a month that is still a draft is not decided.
LEMMA DraftMonth ==
    ASSUME StructInv', NEW m, NEW i \in Rows', invoices'[i].status = "draft", invoices'[i].ym = m
    PROVE  MonthMoney(m)'
<1>1. ~FinalMonth(invoices', m)
  BY DEF FinalMonth, Rows
<1>2. \A a \in Admins : correction'[a].pc # "idle" => correction'[a].ym # m
  BY DEF StructInv, CorrectionAt, RowsInv, OneBase, FinalIn, Rows
<1>. QED  BY <1>1, <1>2 DEF MonthMoney

\* Steps that leave the rows and what is decided about them alone.
LEMMA SameTableKeeps ==
    ASSUME StructInv, MoneyInv, invoices' = invoices, agreed' = agreed, clashed' = clashed, torn \subseteq torn',
           \A a \in Admins : correction'[a] = correction[a] \/ correction'[a].pc = "idle",
           \A m \in Months : Due(m) => Due(m)' \/ m \in torn',
           \A m \in Months : ItemsPending(m)' => ItemsPending(m) /\ batch' = batch,
           \A m \in Months : ItemsPending(m) => ItemsPending(m)' \/ m \in torn'
    PROVE  MoneyInv'
<1>1. ASSUME NEW m \in Months PROVE MonthMoney(m)'
  <2>1. m \in torn' \/ Gap(m)' = Gap(m)
    BY DEF Gap
  <2>2. Untouched(m)
    BY <2>1 DEF Untouched, Rows
  <2>. QED  BY <2>2, UntouchedKeeps DEF StructInv, MoneyInv
<1>. QED  BY <1>1 DEF MoneyInv

\* A step of the batch that adds a row of month k, or replaces one, is no
\* business of the other months.
LEMMA BatchElsewhere ==
    ASSUME StructInv, MoneyInv, NEW r \in Row, NEW m \in Months, r.ym # m,
           \/ invoices' = Append(invoices, r)
           \/ \E i \in Rows : invoices' = Put(invoices, i, r) /\ r.ym = invoices[i].ym,
           correction' = correction, torn' = torn, clashed' = clashed, agreed'[m] = agreed[m],
           ~ItemsPending(m), ~ItemsPending(m)'
    PROVE  MonthMoney(m)'
<1>1. invoices \in Seq(Row)
  BY DEF StructInv, BillingTypeOK
<1>2. /\ DiffIn(invoices', m) = DiffIn(invoices, m) /\ SumIn(invoices', m) = SumIn(invoices, m)
      /\ FinalMonth(invoices', m) <=> FinalMonth(invoices, m)
  <2>1. CASE invoices' = Append(invoices, r)
    BY <1>1, <2>1, OtherMonth
  <2>2. ASSUME NEW i \in Rows, invoices' = Put(invoices, i, r), r.ym = invoices[i].ym
        PROVE  /\ DiffIn(invoices', m) = DiffIn(invoices, m) /\ SumIn(invoices', m) = SumIn(invoices, m)
               /\ FinalMonth(invoices', m) <=> FinalMonth(invoices, m)
    BY <1>1, <2>2, OtherMonth DEF Rows
  <2>. QED  BY <2>1, <2>2
<1>3. \A i \in Rows : invoices[i].ym = m => i \in Rows' /\ invoices'[i] = invoices[i]
  <2>1. CASE invoices' = Append(invoices, r)
    BY <1>1, <2>1, TableAppend DEF Rows
  <2>2. CASE \E i \in Rows : invoices' = Put(invoices, i, r) /\ r.ym = invoices[i].ym
    BY <1>1, <2>2, TableUpdate DEF Rows, Put
  <2>. QED  BY <2>1, <2>2
<1>4. Due(m)' <=> Due(m)
  BY DEF Due
<1>5. Gap(m)' = Gap(m)
  BY DEF Gap
<1>6. Untouched(m)
  BY <1>2, <1>3, <1>4, <1>5 DEF Untouched
<1>. QED  BY <1>6, UntouchedKeeps DEF StructInv, MoneyInv

\* Writing a row, or a field of it, in terms of the table.
LEMMA DraftRowMoney ==
    ASSUME StructInv, StructInv', MoneyInv, SameRows, NEW i \in Rows, invoices[i].status = "draft",
           NEW r \in Row, r.ym = invoices[i].ym, invoices' = [invoices EXCEPT ![i] = r],
           correction' = correction, torn' = torn, clashed' = clashed, agreed' = agreed,
           batch.pc \notin ItemsStages, batch'.pc \notin ItemsStages
    PROVE  MoneyInv'
<1>1. ASSUME NEW m \in Months PROVE MonthMoney(m)'
  <2>1. CASE m = r.ym
    BY <2>1, DraftMonth DEF SameRows
  <2>2. CASE m # r.ym
    <3>1. invoices' = Put(invoices, i, r)
      BY DEF Put
    <3>2. ~ItemsPending(m) /\ ~ItemsPending(m)'
      BY DEF ItemsPending, ItemsStages
    <3>. QED  BY <2>2, <3>1, <3>2, BatchElsewhere
  <2>. QED  BY <2>1, <2>2
<1>. QED  BY <1>1 DEF MoneyInv

\* MoneyInv is inductive: one lemma for each action.
LEMMA OutsideMoney == ASSUME StructInv, MoneyInv, Outside PROVE MoneyInv'
<1>1. UNCHANGED <<invoices, batch, correction, history>>
  BY OutsideKeeps DEF StructInv
<1>. QED  BY <1>1, SameTableKeeps DEF history, Due, ItemsPending

LEMMA StartMoney == ASSUME StructInv, MoneyInv, Start PROVE MoneyInv'
<1>1. /\ invoices' = invoices /\ UNCHANGED <<correction, history>>
      /\ batch.pc = "idle" /\ batch'.pc = "past"
  BY DEF Start, Idle
<1>. QED  BY <1>1, SameTableKeeps DEF history, Due, ItemsPending

LEMMA NotifyMoney == ASSUME StructInv, MoneyInv, Notify PROVE MoneyInv'
<1>1. /\ invoices' = invoices /\ UNCHANGED <<correction, torn, clashed, agreed>>
      /\ batch.pc = "shock" /\ (batch'.pc = "idle" \/ batch'.pc = "mark")
  BY DEF Notify, Idle, StructInv, BillingTypeOK, BatchState
<1>. QED  BY <1>1, SameTableKeeps DEF Due, ItemsPending

LEMMA RefreshMoney == ASSUME StructInv, MoneyInv, Refresh PROVE MoneyInv'
<1>1. StructInv' /\ SameRows
  BY RefreshStruct
<1>2. batch.pc = "refresh" /\ batch.row \in Rows /\ batch.target \in Months /\ invoices[batch.row].status = "draft"
  BY TargetInTime DEF Refresh, StructInv, BatchAt, DraftStages
<1>3. PICK x \in Int, y \in Int, z \in Sheet :
           /\ SheetSum(z) = x
           /\ invoices' = [invoices EXCEPT ![batch.row] = [invoices[batch.row] EXCEPT !.subtotal = x, !.tax = y]]
           /\ [invoices[batch.row] EXCEPT !.subtotal = x, !.tax = y] \in Row
           /\ batch.pc = "refresh"
           /\ batch' = [batch EXCEPT !.pc = "refreshItems", !.items = z]
           /\ UNCHANGED <<inputs, correction, history>>
  BY <1>2, RefreshDoes DEF StructInv
<1>. DEFINE r == [invoices[batch.row] EXCEPT !.subtotal = x, !.tax = y]
<1>4. r.ym = invoices[batch.row].ym
  BY <1>2, Numbers DEF StructInv, Row
<1>5. batch'.pc = "refreshItems"
  BY <1>3 DEF StructInv, BillingTypeOK, BatchState
<1>6. invoices' = [invoices EXCEPT ![batch.row] = r] /\ r \in Row
  BY <1>3
<1>. HIDE DEF r
<1>. QED  BY <1>1, <1>2, <1>3, <1>4, <1>5, <1>6, DraftRowMoney DEF ItemsStages, history

LEMMA MarkNotifiedMoney == ASSUME StructInv, MoneyInv, MarkNotified PROVE MoneyInv'
<1>1. StructInv' /\ SameRows
  BY MarkNotifiedStruct
<1>. DEFINE r == [invoices[batch.row] EXCEPT !.notified = TRUE]
<1>2. batch.row \in Rows /\ invoices' = [invoices EXCEPT ![batch.row] = r] /\ r \in Row
  BY MarkNotifiedDoes DEF StructInv
<1>3. invoices[batch.row].status = "draft"
  BY DEF MarkNotified, StructInv, BatchAt, DraftStages
<1>4. r.ym = invoices[batch.row].ym
  BY <1>2, Numbers DEF StructInv, Row
<1>5. batch.pc = "mark" /\ batch'.pc = "idle" /\ UNCHANGED <<correction, torn, clashed, agreed>>
  BY DEF MarkNotified, Idle, history
<1>. HIDE DEF r
<1>. QED  BY <1>1, <1>2, <1>3, <1>4, <1>5, DraftRowMoney DEF ItemsStages

\* The items commit closes the gap that the row commit opened.
LEMMA ReplaceItemsMoney == ASSUME StructInv, MoneyInv, ReplaceItems PROVE MoneyInv'
<1>1. StructInv' /\ SameRows
  BY ReplaceItemsStruct
<1>. DEFINE i == batch.row
            o == invoices[batch.row]
            r == [invoices[batch.row] EXCEPT !.items = batch.items]
<1>2. /\ i \in Rows /\ batch.items \in Sheet /\ invoices' = [invoices EXCEPT ![i] = r] /\ r \in Row
      /\ \/ batch.pc \in ItemsStages /\ batch' = [batch EXCEPT !.pc = "past", !.items = NoItems]
         \/ batch.pc = "refreshItems" /\ batch' = [batch EXCEPT !.pc = "shock", !.items = NoItems]
      /\ UNCHANGED <<correction, torn, clashed, agreed>>
  BY ReplaceItemsDoes DEF StructInv
<1>3. o \in Row
  BY <1>2, Numbers DEF StructInv
<1>4. r.ym = o.ym /\ r.status = o.status /\ r.subtotal = o.subtotal /\ r.tax = o.tax /\ r.items = batch.items
  BY <1>3 DEF Row
<1>5. /\ batch.pc \in ItemsStages => batch'.pc = "past"
      /\ batch.pc \notin ItemsStages => batch.pc = "refreshItems" /\ batch'.pc = "shock"
  BY <1>2 DEF StructInv, BillingTypeOK, BatchState, ItemsStages
<1>6. CASE batch.pc = "refreshItems"
  <2>1. invoices[i].status = "draft"
    BY <1>6 DEF StructInv, BatchAt, DraftStages
  <2>. HIDE DEF i, r
  <2>. QED  BY <1>1, <1>2, <1>4, <1>5, <1>6, <2>1, DraftRowMoney DEF ItemsStages, i
<1>7. CASE batch.pc \in ItemsStages
  <2>1. ASSUME NEW m \in Months PROVE MonthMoney(m)'
    <3>1. ~ItemsPending(m)' /\ Gap(m)' = 0
      BY <1>5, <1>7 DEF ItemsPending, ItemsStages, Gap
    <3>2. CASE m # r.ym
      <4>1. ~ItemsPending(m)
        BY <1>4, <3>2 DEF ItemsPending
      <4>2. invoices' = Put(invoices, i, r) /\ i \in Rows /\ r \in Row /\ r.ym = invoices[i].ym
        BY <1>2, <1>4 DEF Put
      <4>. HIDE DEF i, r
      <4>. QED  BY <1>2, <3>1, <3>2, <4>1, <4>2, BatchElsewhere
    <3>3. CASE m = r.ym
      <4>1. ItemsPending(m) /\ Gap(m) = SheetSum(o.items) - SheetSum(batch.items)
        BY <1>4, <1>7, <3>3 DEF ItemsPending, ItemsStages, Gap
      <4>2. \A a \in Admins : correction[a].pc # "idle" /\ correction[a].ym = m => ~correction[a].clean
        BY <4>1 DEF MoneyInv, MonthMoney, CorrectionFits
      <4>3. /\ DiffIn(invoices', m) = DiffIn(invoices, m) + RowDiff(r) - RowDiff(o)
            /\ SumIn(invoices', m) = SumIn(invoices, m) + r.subtotal + r.tax - o.subtotal - o.tax
        <5>1. invoices \in Seq(Row) /\ i \in DOMAIN invoices
          BY <1>2 DEF StructInv, BillingTypeOK, Rows
        <5>2. invoices' = Put(invoices, i, r) /\ r.ym = invoices[i].ym
          BY <1>2, <1>4 DEF Put
        <5>3. r \in Row
          BY <1>2
        <5>. HIDE DEF r, i
        <5>4. /\ DiffIn(invoices', m) = DiffIn(invoices, m) + RowDiff(r) - RowDiff(invoices[i])
              /\ SumIn(invoices', m) = SumIn(invoices, m) + r.subtotal + r.tax - invoices[i].subtotal - invoices[i].tax
          BY <3>3, <5>1, <5>2, <5>3, DiffUpdate
        <5>. QED  BY <5>4 DEF i
      <4>4. /\ DiffIn(invoices, m) \in Int /\ SumIn(invoices, m) \in Int
            /\ SheetSum(batch.items) \in Int /\ SheetSum(o.items) \in Int /\ o.subtotal \in Int /\ o.tax \in Int
        BY <1>2, <1>3, DiffTyped, SheetSumTyped, RowDiffTyped DEF StructInv, BillingTypeOK
      <4>5. RowDiff(r) = SheetSum(batch.items) - o.subtotal /\ RowDiff(o) = SheetSum(o.items) - o.subtotal
        BY <1>4 DEF RowDiff
      <4>6. SumIn(invoices', m) = SumIn(invoices, m)
        <5>. HIDE DEF r, o
        <5>. QED  BY <1>4, <4>3, <4>4
      <4>7. DiffIn(invoices', m) = DiffIn(invoices, m) - Gap(m)
        <5>. HIDE DEF r, o
        <5>. QED  BY <4>1, <4>3, <4>4, <4>5
      <4>8. FinalMonth(invoices', m) <=> FinalMonth(invoices, m)
        BY <1>1 DEF SameRows, FinalMonth, Rows
      <4>9. Due(m)' <=> Due(m)
        BY <1>2 DEF Due
      <4>10. FinalMonth(invoices, m) /\ m \notin torn /\ ~Due(m) => DiffIn(invoices, m) = Gap(m)
        BY DEF MoneyInv, MonthMoney
      <4>11. FinalMonth(invoices', m) /\ m \notin torn' /\ ~Due(m)' => DiffIn(invoices', m) = Gap(m)'
        <5>1. DiffIn(invoices, m) = Gap(m) => DiffIn(invoices', m) = 0
          BY <4>4, <4>7
        <5>. QED  BY <1>2, <3>1, <4>8, <4>9, <4>10, <5>1
      <4>12. \A a \in Admins : correction'[a].pc # "idle" /\ correction'[a].ym = m => CorrectionFits(a)'
        BY <1>2, <4>2 DEF CorrectionFits
      <4>13. FinalMonth(invoices', m) /\ m \notin clashed' => SumIn(invoices', m) = agreed'[m]
        BY <1>2, <4>6, <4>8 DEF MoneyInv, MonthMoney
      <4>. QED  BY <4>11, <4>12, <4>13 DEF MonthMoney
    <3>. QED  BY <3>2, <3>3
  <2>. QED  BY <2>1 DEF MoneyInv
<1>. QED  BY <1>2, <1>6, <1>7

LEMMA DraftMoney == ASSUME StructInv, MoneyInv, Draft PROVE MoneyInv'
<1>1. StructInv'
  BY DraftStruct
<1>2. /\ batch.target \in Months /\ batch.pc = "past" /\ UNCHANGED <<correction, torn, clashed, agreed>>
  BY TargetInTime DEF Draft, StructInv, history
<1>3. CASE /\ RowsOf(batch.target) = {}
           /\ invoices' = Append(invoices, Invoice(batch.target, "draft", 0, 0, NoItems))
           /\ batch' = [batch EXCEPT !.pc = "refresh", !.row = Len(invoices) + 1]
  <2>. DEFINE r == Invoice(batch.target, "draft", 0, 0, NoItems)
              n == Len(invoices) + 1
  <2>t. r \in Row /\ r.ym = batch.target /\ r.status = "draft"
    BY <1>2, InvoiceTyped, NoItemsTyped DEF Invoice
  <2>1. r \in Row /\ r.ym = batch.target /\ r.status = "draft" /\ invoices' = Append(invoices, r)
    BY <1>3, <2>t
  <2>2. batch'.pc = "refresh"
    BY <1>3 DEF StructInv, BillingTypeOK, BatchState
  <2>. HIDE DEF r, n
  <2>3. n \in Rows' /\ invoices'[n] = r
    BY <2>1, TableAppend DEF StructInv, BillingTypeOK, Rows, n
  <2>4. ASSUME NEW m \in Months PROVE MonthMoney(m)'
    <3>1. CASE m = r.ym
      BY <1>1, <2>1, <2>3, <3>1, DraftMonth
    <3>2. CASE m # r.ym
      <4>1. ~ItemsPending(m) /\ ~ItemsPending(m)'
        BY <1>2, <2>2 DEF ItemsPending
      <4>. QED  BY <1>2, <2>1, <3>2, <4>1, BatchElsewhere
    <3>. QED  BY <3>1, <3>2
  <2>. QED  BY <2>4 DEF MoneyInv
<1>4. ASSUME NEW i \in RowsOf(batch.target), UNCHANGED invoices,
             batch' = IF invoices[i].status = "draft" THEN [batch EXCEPT !.pc = "refresh", !.row = i] ELSE Idle
      PROVE  MoneyInv'
  <2>1. batch'.pc = "refresh" \/ batch'.pc = "idle"
    BY <1>4 DEF Idle, StructInv, BillingTypeOK, BatchState
  <2>. QED  BY <1>2, <1>4, <2>1, SameTableKeeps DEF Due, ItemsPending
<1>. QED  BY <1>3, <1>4 DEF Draft

LEMMA BackfillMoney == ASSUME StructInv, MoneyInv, Backfill PROVE MoneyInv'
<1>1. StructInv'
  BY BackfillStruct
<1>2. PICK m \in batch.todo, x \in Int, y \in Int, z \in Sheet :
           /\ SheetSum(z) = x /\ z[Kept].quantity = batch.kept
           /\ invoices' = Append(invoices, Invoice(m, "finalized", x, y, NoItems))
           /\ batch.pc = "past"
           /\ batch' = [batch EXCEPT !.pc = "backfillItems", !.row = Len(invoices) + 1,
                                     !.items = z, !.todo = @ \ {m}]
           /\ agreed' = [agreed EXCEPT ![m] = x + y]
           /\ UNCHANGED <<inputs, correction, torn, cut, clashed, counted, mails>>
  BY BackfillDoes DEF StructInv
<1>. DEFINE r == Invoice(m, "finalized", x, y, NoItems)
            n == Len(invoices) + 1
<1>3. /\ m \in Months /\ batch'.pc = "backfillItems" /\ batch'.row = n /\ batch'.items = z
      /\ UNCHANGED <<correction, torn, clashed>>
  BY <1>2 DEF StructInv, BillingTypeOK, BatchState
<1>4. r \in Row /\ r.ym = m /\ r.subtotal = x /\ r.tax = y /\ r.items = NoItems /\ invoices' = Append(invoices, r)
  BY <1>2, <1>3, InvoiceTyped, NoItemsTyped DEF Invoice
<1>5. \A i \in DOMAIN invoices : invoices[i].ym # m
  BY <1>2 DEF StructInv, BatchAt, Rows
<1>6. invoices \in Seq(Row)
  BY DEF StructInv, BillingTypeOK
<1>7. agreed'[m] = x + y /\ \A k \in Months : k # m => agreed'[k] = agreed[k]
  BY <1>2, <1>3 DEF StructInv, BillingTypeOK
<1>. HIDE DEF r, n
<1>8. invoices'[n] = r /\ n \in Rows'
  BY <1>4, <1>6, TableAppend DEF n, Rows
<1>9. ASSUME NEW k \in Months, k # m PROVE MonthMoney(k)'
  <2>1. ~ItemsPending(k) /\ ~ItemsPending(k)'
    BY <1>2, <1>3, <1>4, <1>8, <1>9 DEF ItemsPending
  <2>. QED  BY <1>3, <1>4, <1>7, <1>9, <2>1, BatchElsewhere
<1>10. MonthMoney(m)'
  <2>1. DiffIn(invoices, m) = 0 /\ SumIn(invoices, m) = 0
    BY <1>5, <1>6, DiffNone
  <2>2. DiffIn(invoices', m) = DiffIn(invoices, m) + RowDiff(r) /\ SumIn(invoices', m) = SumIn(invoices, m) + r.subtotal + r.tax
    BY <1>4, <1>6, DiffAppend
  <2>3. RowDiff(r) = 0 - x
    BY <1>4, NoItemsTyped DEF RowDiff
  <2>4. DiffIn(invoices', m) = 0 - x /\ SumIn(invoices', m) = x + y
    BY <1>4, <2>1, <2>2, <2>3
  <2>5. Gap(m)' = 0 - x
    <3>1. ItemsPending(m)'
      BY <1>3, <1>4, <1>8 DEF ItemsPending
    <3>2. Gap(m)' = SheetSum(r.items) - SheetSum(z)
      BY <1>3, <1>8, <3>1 DEF Gap
    <3>. QED  BY <1>2, <1>4, <3>2, NoItemsTyped
  <2>6. \A a \in Admins : correction'[a].pc # "idle" => correction'[a].ym # m
    BY <1>3, <1>5 DEF StructInv, CorrectionAt, FinalIn
  <2>. QED  BY <1>7, <2>4, <2>5, <2>6 DEF MonthMoney
<1>. QED  BY <1>9, <1>10 DEF MoneyInv

LEMMA FinalizeMoney == ASSUME StructInv, MoneyInv, Finalize PROVE MoneyInv'
<1>1. StructInv'
  BY FinalizeStruct
<1>2. PICK i \in StaleDrafts, x \in Int, y \in Int, z \in Sheet :
           /\ SheetSum(z) = x /\ z[Kept].quantity = invoices[i].items[Kept].quantity
           /\ invoices' = [invoices EXCEPT ![i] = [invoices[i] EXCEPT !.subtotal = x, !.tax = y, !.status = "finalized"]]
           /\ [invoices[i] EXCEPT !.subtotal = x, !.tax = y, !.status = "finalized"] \in Row
           /\ batch.pc = "past" /\ batch.todo = {}
           /\ batch' = [batch EXCEPT !.pc = "finalizeItems", !.row = i, !.items = z]
           /\ agreed' = [agreed EXCEPT ![invoices[i].ym] = x + y]
           /\ UNCHANGED <<inputs, correction, torn, cut, clashed, counted, mails>>
  BY FinalizeDoes DEF StructInv
<1>. DEFINE r == [invoices[i] EXCEPT !.subtotal = x, !.tax = y, !.status = "finalized"]
<1>t. i \in Rows /\ invoices[i] \in Row /\ invoices[i].status = "draft" /\ invoices[i].ym \in Months
  BY Numbers DEF StaleDrafts, StructInv
<1>m. PICK m \in Months : m = invoices[i].ym
  BY <1>t
<1>3. i \in Rows /\ invoices[i] \in Row /\ invoices[i].status = "draft" /\ m \in Months
  BY <1>t
<1>4. /\ r.ym = m /\ r.subtotal = x /\ r.tax = y /\ r.items = invoices[i].items /\ r \in Row
      /\ invoices' = Put(invoices, i, r)
  BY <1>m, <1>2, <1>3 DEF Row, Put
<1>5. /\ batch'.pc = "finalizeItems" /\ batch'.row = i /\ batch'.items = z
      /\ UNCHANGED <<correction, torn, clashed>>
  BY <1>2 DEF StructInv, BillingTypeOK, BatchState
<1>6. invoices \in Seq(Row) /\ i \in DOMAIN invoices
  BY <1>3 DEF StructInv, BillingTypeOK, Rows
<1>7. agreed'[m] = x + y /\ \A k \in Months : k # m => agreed'[k] = agreed[k]
  BY <1>m, <1>2, <1>3 DEF StructInv, BillingTypeOK
<1>8. \A j \in DOMAIN invoices : invoices[j].ym = m => j = i
  BY <1>m, <1>3, DraftIsAlone DEF StructInv, RowsInv, Rows
<1>. HIDE DEF r
<1>9. /\ invoices'[i] = r /\ i \in DOMAIN invoices' /\ invoices' \in Seq(Row)
      /\ \A j \in DOMAIN invoices' : invoices'[j].ym = m => j = i
  <2>1. /\ DOMAIN invoices' = DOMAIN invoices /\ invoices'[i] = r /\ invoices' \in Seq(Row)
        /\ \A j \in DOMAIN invoices : j # i => invoices'[j] = invoices[j]
    BY <1>4, <1>6, TableUpdate DEF Put
  <2>. QED  BY <1>6, <1>8, <2>1
<1>10. ASSUME NEW k \in Months, k # m PROVE MonthMoney(k)'
  <2>1. ~ItemsPending(k) /\ ~ItemsPending(k)'
    BY <1>2, <1>4, <1>5, <1>9, <1>10 DEF ItemsPending
  <2>. QED  BY <1>m, <1>3, <1>4, <1>5, <1>7, <1>10, <2>1, BatchElsewhere
<1>11. ~(\E a \in Admins : correction'[a].pc # "idle" /\ correction'[a].ym = m)
  BY <1>m, <1>3, <1>5, <1>8 DEF StructInv, CorrectionAt, FinalIn
<1>12. Gap(m)' = SheetSum(r.items) - x /\ DiffIn(invoices', m) = SheetSum(r.items) - x /\ SumIn(invoices', m) = x + y
  <2>1. DiffIn(invoices', m) = RowDiff(r) /\ SumIn(invoices', m) = r.subtotal + r.tax
    BY <1>4, <1>9, DiffOne
  <2>2. ItemsPending(m)'
    BY <1>4, <1>5, <1>9 DEF ItemsPending
  <2>3. Gap(m)' = SheetSum(r.items) - SheetSum(z)
    BY <1>5, <1>9, <2>2 DEF Gap
  <2>. QED  BY <1>2, <1>4, <2>1, <2>3 DEF RowDiff
<1>13. MonthMoney(m)'
  BY <1>7, <1>11, <1>12 DEF MonthMoney
<1>. QED  BY <1>10, <1>13 DEF MoneyInv

\* The difference in the terms of the property.
LEMMA DiffIs == ASSUME NEW m PROVE Diff(m) = DiffIn(invoices, m) /\ Subtotal(m) + Tax(m) = SumIn(invoices, m)
BY TotalsIn DEF Diff, DiffIn, SumIn

\* A clean correction has read the table it will complete.
LEMMA CorrectReadMoney ==
    ASSUME StructInv, MoneyInv, NEW a \in Admins, NEW m \in Months, CorrectRead(a, m)
    PROVE  MoneyInv'
<1>1. PICK x \in Int, y \in Int, z \in Sheet, goal \in Int :
           /\ SheetSum(z) - x + Diff(m) = 0 /\ Subtotal(m) + Tax(m) + x + y = goal
           /\ z[Kept].quantity = 0
           /\ correction[a].pc = "idle" /\ Finalized(m)
           /\ correction' = [b \in Admins |->
               IF b \in InFlight(m) THEN [correction[b] EXCEPT !.clean = FALSE]
               ELSE IF b # a \/ (x = 0 /\ y = 0) THEN correction[b]
               ELSE [pc |-> "insert", ym |-> m, subtotal |-> x, tax |-> y, items |-> z,
                     goal |-> goal, row |-> 0, clean |-> InFlight(m) = {} /\ ~ItemsPending(m)]]
           /\ UNCHANGED <<inputs, invoices, batch, history>>
  BY CorrectReadDoes DEF StructInv
<1>2. /\ invoices' = invoices /\ batch' = batch /\ torn' = torn /\ clashed' = clashed /\ agreed' = agreed
      /\ SheetSum(z) - x + DiffIn(invoices, m) = 0 /\ SumIn(invoices, m) + x + y = goal
  BY <1>1, DiffIs DEF history
<1>3. \A b \in Admins : correction[b] \in CorrectionState
  BY DEF StructInv, BillingTypeOK
<1>4. ASSUME NEW b \in Admins, b \in InFlight(m)
      PROVE  /\ correction'[b].pc = correction[b].pc /\ correction'[b].ym = m
             /\ correction'[b].clean = FALSE
  BY <1>1, <1>3, <1>4 DEF CorrectionState, InFlight
<1>5. ASSUME NEW b \in Admins, b \notin InFlight(m)
      PROVE  \/ correction'[b] = correction[b]
             \/ /\ b = a /\ correction'[a].pc = "insert" /\ correction'[a].ym = m /\ correction'[a].items = z
                /\ correction'[a].subtotal = x /\ correction'[a].tax = y /\ correction'[a].goal = goal
                /\ correction'[a].clean = (InFlight(m) = {} /\ ~ItemsPending(m))
  BY <1>1, <1>5
<1>6. \A k \in Months : Due(k)' <=> Due(k)
  <2>1. ASSUME NEW b \in Admins, NEW k \in Months
        PROVE  (correction'[b].pc = "items" /\ correction'[b].ym = k) <=> (correction[b].pc = "items" /\ correction[b].ym = k)
    <3>1. CASE b \in InFlight(m)
      BY <1>4, <3>1 DEF InFlight
    <3>2. CASE b \notin InFlight(m)
      BY <1>1, <1>5, <3>2
    <3>. QED  BY <3>1, <3>2
  <2>. QED  BY <2>1 DEF Due
<1>7. \A k \in Months : (ItemsPending(k)' <=> ItemsPending(k)) /\ Gap(k)' = Gap(k)
  BY <1>2 DEF ItemsPending, Gap
<1>8. ASSUME NEW k \in Months, k # m PROVE MonthMoney(k)'
  <2>1. \A b \in Admins : correction'[b].pc # "idle" => correction'[b] = correction[b] \/ correction'[b].ym # k
    BY <1>4, <1>5, <1>8
  <2>2. Untouched(k)
    BY <1>2, <1>6, <1>7, <2>1 DEF Untouched, Rows
  <2>. QED  BY <2>2, UntouchedKeeps DEF StructInv, MoneyInv
<1>9. MonthMoney(m)'
  <2>1. ASSUME NEW b \in Admins, correction'[b].pc # "idle", correction'[b].ym = m
        PROVE  CorrectionFits(b)'
    <3>1. CASE b \in InFlight(m)
      BY <1>4, <3>1 DEF CorrectionFits
    <3>2. CASE b \notin InFlight(m)
      <4>1. /\ b = a /\ correction'[a].pc = "insert" /\ correction'[a].ym = m /\ correction'[a].items = z
            /\ correction'[a].subtotal = x /\ correction'[a].tax = y /\ correction'[a].goal = goal
            /\ correction'[a].clean = (InFlight(m) = {} /\ ~ItemsPending(m))
        BY <1>5, <2>1, <3>2 DEF InFlight
      <4>2. SUFFICES ASSUME correction'[a].clean
                     PROVE  /\ ~ItemsPending(m)'
                            /\ \A c \in Admins : correction'[c].pc # "idle" /\ correction'[c].ym = m => c = a
                            /\ SheetSum(z) - x + DiffIn(invoices', m) = 0
                            /\ SumIn(invoices', m) + x + y = goal
        BY <4>1 DEF CorrectionFits
      <4>3. InFlight(m) = {} /\ ~ItemsPending(m)
        BY <4>1, <4>2
      <4>4. \A c \in Admins : correction'[c].pc # "idle" /\ correction'[c].ym = m => c = a
        BY <1>5, <4>3 DEF InFlight
      <4>. QED  BY <1>2, <1>7, <4>3, <4>4
    <3>. QED  BY <3>1, <3>2
  <2>. QED  BY <1>2, <1>6, <1>7, <2>1 DEF MoneyInv, MonthMoney
<1>. QED  BY <1>8, <1>9 DEF MoneyInv

LEMMA CorrectInsertMoney ==
    ASSUME StructInv, MoneyInv, NEW a \in Admins, CorrectInsert(a)
    PROVE  MoneyInv'
<1>. DEFINE c == correction[a]
            r == Invoice(c.ym, "corrected", c.subtotal, c.tax, NoItems)
            n == Len(invoices) + 1
<1>1. PICK m \in Months : m = c.ym
  BY CorrectInsertDoes DEF StructInv
<1>2. /\ c \in CorrectionState /\ c.pc = "insert" /\ r \in Row /\ invoices' = Append(invoices, r)
      /\ correction' = [correction EXCEPT ![a] = [c EXCEPT !.pc = "items", !.row = n]]
  BY CorrectInsertDoes DEF StructInv
<1>3. /\ batch' = batch /\ torn' = torn /\ agreed'[m] = c.goal /\ (\A k \in Months : k # m => agreed'[k] = agreed[k])
      /\ (~c.clean => m \in clashed') /\ \A k : k # m => (k \in clashed => k \in clashed')
  BY <1>1 DEF CorrectInsert, StructInv, BillingTypeOK
<1>4. r.ym = m /\ r.subtotal = c.subtotal /\ r.tax = c.tax /\ r.items = NoItems /\ r.status = "corrected"
  BY <1>1 DEF Invoice
<1>5. /\ correction'[a].pc = "items" /\ correction'[a].ym = m /\ correction'[a].row = n
      /\ correction'[a].items = c.items /\ correction'[a].clean = c.clean
      /\ \A b \in Admins : b # a => correction'[b] = correction[b]
  BY <1>1, <1>2 DEF StructInv, BillingTypeOK, CorrectionState
<1>6. c.subtotal \in Int /\ c.tax \in Int /\ SheetSum(c.items) \in Int
  BY <1>2, SheetSumTyped DEF CorrectionState
<1>7. correction[a].pc = "insert" /\ correction[a].ym = m
  BY <1>1, <1>2
<1>8. CorrectionFits(a)
  BY <1>7 DEF MoneyInv, MonthMoney
<1>9. c.clean => /\ ~ItemsPending(m)
                 /\ \A b \in Admins : correction[b].pc # "idle" /\ correction[b].ym = m => b = a
                 /\ SheetSum(c.items) - c.subtotal + DiffIn(invoices, m) = 0
                 /\ SumIn(invoices, m) + c.subtotal + c.tax = c.goal
  BY <1>7, <1>8 DEF CorrectionFits
<1>10. \A b \in Admins : b # a /\ correction[b].pc # "idle" /\ correction[b].ym = m => ~correction[b].clean
  BY <1>7 DEF MoneyInv, MonthMoney, CorrectionFits
<1>11. invoices \in Seq(Row)
  BY DEF StructInv, BillingTypeOK
<1>. HIDE DEF r, n, c
<1>12. invoices'[n] = r /\ Rows' = Rows \cup {n} /\ \A i \in Rows : invoices'[i] = invoices[i]
  BY <1>2, <1>11, TableAppend DEF n, Rows
<1>13. \A k \in Months : (ItemsPending(k)' <=> ItemsPending(k)) /\ Gap(k)' = Gap(k)
  <2>1. batch.pc \in ItemsStages => batch.row \in Rows
    BY DEF StructInv, BatchAt
  <2>. QED  BY <1>3, <1>12, <2>1 DEF ItemsPending, ItemsStages, Gap
<1>14. ASSUME NEW k \in Months, k # m PROVE MonthMoney(k)'
  <2>1. /\ DiffIn(invoices', k) = DiffIn(invoices, k) /\ SumIn(invoices', k) = SumIn(invoices, k)
        /\ FinalMonth(invoices', k) <=> FinalMonth(invoices, k)
    BY <1>2, <1>4, <1>11, <1>14, OtherMonth
  <2>2. Due(k) => Due(k)'
    BY <1>5, <1>7 DEF Due
  <2>3. \A b \in Admins : correction'[b].pc # "idle" => correction'[b] = correction[b] \/ correction'[b].ym # k
    BY <1>5, <1>14
  <2>4. Untouched(k)
    BY <1>3, <1>12, <1>13, <1>14, <2>1, <2>2, <2>3 DEF Untouched
  <2>. QED  BY <2>4, UntouchedKeeps DEF StructInv, MoneyInv
<1>15. /\ DiffIn(invoices', m) = DiffIn(invoices, m) - c.subtotal
       /\ SumIn(invoices', m) = SumIn(invoices, m) + c.subtotal + c.tax
       /\ DiffIn(invoices, m) \in Int /\ SumIn(invoices, m) \in Int
  <2>1. DiffIn(invoices', m) = DiffIn(invoices, m) + RowDiff(r) /\ SumIn(invoices', m) = SumIn(invoices, m) + r.subtotal + r.tax
    BY <1>2, <1>4, <1>11, DiffAppend
  <2>2. RowDiff(r) = 0 - c.subtotal
    BY <1>4, NoItemsTyped DEF RowDiff
  <2>3. DiffIn(invoices, m) \in Int /\ SumIn(invoices, m) \in Int
    BY <1>11, DiffTyped
  <2>. QED  BY <1>4, <1>6, <2>1, <2>2, <2>3
<1>16. MonthMoney(m)'
  <2>1. Due(m)'
    BY <1>5 DEF Due
  <2>2. FinalMonth(invoices', m) /\ m \notin clashed' => SumIn(invoices', m) = agreed'[m]
    BY <1>3, <1>6, <1>9, <1>15
  <2>3. ASSUME NEW b \in Admins, correction'[b].pc # "idle", correction'[b].ym = m
        PROVE  CorrectionFits(b)'
    <3>1. CASE b # a
      BY <1>5, <1>10, <2>3, <3>1 DEF CorrectionFits
    <3>2. CASE b = a
      <4>1. SUFFICES ASSUME c.clean
                     PROVE  /\ ~ItemsPending(m)'
                            /\ \A d \in Admins : correction'[d].pc # "idle" /\ correction'[d].ym = m => d = a
                            /\ SheetSum(c.items) + DiffIn(invoices', m) = 0
                            /\ SheetSum(invoices'[n].items) = 0
        BY <1>5, <3>2 DEF CorrectionFits
      <4>2. SheetSum(c.items) + DiffIn(invoices', m) = 0
        BY <1>6, <1>9, <1>15, <4>1
      <4>. QED  BY <1>4, <1>5, <1>9, <1>12, <1>13, <4>1, <4>2, NoItemsTyped
    <3>. QED  BY <3>1, <3>2
  <2>. QED  BY <2>1, <2>2, <2>3 DEF MonthMoney
<1>. QED  BY <1>14, <1>16 DEF MoneyInv

LEMMA CorrectItemsMoney ==
    ASSUME StructInv, MoneyInv, NEW a \in Admins, CorrectItems(a)
    PROVE  MoneyInv'
<1>. DEFINE c == correction[a]
            i == c.row
            o == invoices[i]
            r == [invoices[i] EXCEPT !.items = c.items]
<1>1. c \in CorrectionState /\ c.pc = "items" /\ i \in Rows /\ invoices' = Put(invoices, i, r) /\ r \in Row
  BY CorrectItemsDoes DEF StructInv, Put
<1>2. PICK m \in Months : m = c.ym
  BY <1>1 DEF StructInv, CorrectionAt
<1>3. /\ batch' = batch /\ clashed' = clashed /\ agreed' = agreed
      /\ (c.clean => torn' = torn \ {m}) /\ (~c.clean => torn' = torn \cup {m})
      /\ correction' = [correction EXCEPT ![a] = NoCorrection]
  BY <1>2 DEF CorrectItems
<1>4. /\ correction'[a].pc = "idle" /\ \A b \in Admins : b # a => correction'[b] = correction[b]
  BY <1>3 DEF StructInv, BillingTypeOK, NoCorrection
<1>5. o \in Row /\ o.ym = m /\ o.status = "corrected"
  BY <1>1, <1>2, Numbers DEF StructInv, CorrectionAt
<1>6. r.ym = m /\ r.status = o.status /\ r.subtotal = o.subtotal /\ r.tax = o.tax /\ r.items = c.items
  BY <1>5 DEF Row
<1>7. correction[a].pc = "items" /\ correction[a].ym = m
  BY <1>1, <1>2
<1>8. CorrectionFits(a)
  BY <1>7 DEF MoneyInv, MonthMoney
<1>9. c.clean => /\ ~ItemsPending(m)
                 /\ \A b \in Admins : correction[b].pc # "idle" /\ correction[b].ym = m => b = a
                 /\ SheetSum(c.items) + DiffIn(invoices, m) = 0
                 /\ SheetSum(o.items) = 0
  BY <1>7, <1>8 DEF CorrectionFits
<1>10. \A b \in Admins : b # a /\ correction[b].pc # "idle" /\ correction[b].ym = m => ~correction[b].clean
  BY <1>7 DEF MoneyInv, MonthMoney, CorrectionFits
<1>11. invoices \in Seq(Row) /\ i \in DOMAIN invoices
  BY <1>1 DEF StructInv, BillingTypeOK, Rows
<1>12. SheetSum(c.items) \in Int /\ SheetSum(o.items) \in Int /\ o.subtotal \in Int /\ o.tax \in Int
  BY <1>1, <1>5, SheetSumTyped, RowDiffTyped DEF CorrectionState
<1>13. SameRows
  BY CorrectItemsStruct
<1>. HIDE DEF r, o, c, i
<1>14. invoices'[i] = r /\ Rows' = Rows /\ \A j \in Rows : j # i => invoices'[j] = invoices[j]
  BY <1>1, <1>11, TableUpdate DEF Rows, Put
<1>15. \A k \in Months : ItemsPending(k)' <=> ItemsPending(k)
  <2>1. batch.pc \in ItemsStages => batch.row \in Rows
    BY DEF StructInv, BatchAt
  <2>. QED  BY <1>3, <1>13, <2>1 DEF ItemsPending, ItemsStages, SameRows
<1>16. ASSUME NEW k \in Months, k # m PROVE MonthMoney(k)'
  <2>1. /\ DiffIn(invoices', k) = DiffIn(invoices, k) /\ SumIn(invoices', k) = SumIn(invoices, k)
        /\ FinalMonth(invoices', k) <=> FinalMonth(invoices, k)
    <3>1. r.ym = invoices[i].ym
      BY <1>5, <1>6 DEF o
    <3>. QED  BY <1>1, <1>6, <1>11, <1>16, <3>1, OtherMonth
  <2>2. Due(k) => Due(k)'
    BY <1>4, <1>7, <1>16 DEF Due
  <2>3. \A b \in Admins : correction'[b].pc # "idle" => correction'[b] = correction[b] \/ correction'[b].ym # k
    BY <1>4
  <2>4. Gap(k)' = Gap(k)
    <3>1. CASE ~ItemsPending(k)
      BY <1>15, <3>1 DEF Gap
    <3>2. CASE ItemsPending(k)
      <4>1. batch.row \in Rows /\ invoices[batch.row].ym = k
        BY <3>2 DEF ItemsPending, StructInv, BatchAt, ItemsStages
      <4>2. batch.row # i
        BY <1>5, <1>16, <4>1 DEF o
      <4>. QED  BY <1>3, <1>14, <1>15, <3>2, <4>1, <4>2 DEF Gap
    <3>. QED  BY <3>1, <3>2
  <2>5. \A j \in Rows : invoices[j].ym = k => j \in Rows' /\ invoices'[j] = invoices[j]
    BY <1>5, <1>14, <1>16 DEF o
  <2>6. Untouched(k)
    BY <1>3, <1>15, <1>16, <2>1, <2>2, <2>3, <2>4, <2>5 DEF Untouched
  <2>. QED  BY <2>6, UntouchedKeeps DEF StructInv, MoneyInv
<1>17. /\ DiffIn(invoices', m) = DiffIn(invoices, m) + SheetSum(c.items) - SheetSum(o.items)
       /\ SumIn(invoices', m) = SumIn(invoices, m) /\ DiffIn(invoices, m) \in Int
  <2>1. r.ym = invoices[i].ym
    BY <1>5, <1>6 DEF o
  <2>2. /\ DiffIn(invoices', m) = DiffIn(invoices, m) + RowDiff(r) - RowDiff(invoices[i])
        /\ SumIn(invoices', m) = SumIn(invoices, m) + r.subtotal + r.tax - invoices[i].subtotal - invoices[i].tax
    BY <1>1, <1>6, <1>11, <2>1, DiffUpdate
  <2>3. RowDiff(r) = SheetSum(c.items) - o.subtotal /\ RowDiff(invoices[i]) = SheetSum(o.items) - o.subtotal
    BY <1>6 DEF RowDiff, o
  <2>4. DiffIn(invoices, m) \in Int /\ SumIn(invoices, m) \in Int
    BY <1>11, DiffTyped
  <2>5. SumIn(invoices', m) = SumIn(invoices, m)
    <3>1. SumIn(invoices', m) = SumIn(invoices, m) + o.subtotal + o.tax - o.subtotal - o.tax
      BY <1>6, <2>2 DEF o
    <3>. QED  BY <1>12, <2>4, <3>1
  <2>. QED  BY <1>12, <2>2, <2>3, <2>4, <2>5
<1>18. MonthMoney(m)'
  <2>1. FinalMonth(invoices', m) <=> FinalMonth(invoices, m)
    BY <1>13 DEF SameRows, FinalMonth, Rows
  <2>2. FinalMonth(invoices', m) /\ m \notin torn' /\ ~Due(m)' => DiffIn(invoices', m) = Gap(m)'
    <3>1. CASE c.clean
      <4>1. ~ItemsPending(m)'
        BY <1>9, <1>15, <3>1
      <4>2. DiffIn(invoices', m) = 0
        BY <1>9, <1>12, <1>17, <3>1
      <4>. QED  BY <4>1, <4>2 DEF Gap
    <3>2. CASE ~c.clean
      BY <1>3, <3>2
    <3>. QED  BY <3>1, <3>2
  <2>3. FinalMonth(invoices', m) /\ m \notin clashed' => SumIn(invoices', m) = agreed'[m]
    BY <1>3, <1>17, <2>1 DEF MoneyInv, MonthMoney
  <2>4. \A b \in Admins : correction'[b].pc # "idle" /\ correction'[b].ym = m => CorrectionFits(b)'
    BY <1>4, <1>10 DEF CorrectionFits
  <2>. QED  BY <2>2, <2>3, <2>4 DEF MonthMoney
<1>. QED  BY <1>16, <1>18 DEF MoneyInv

LEMMA InterruptMoney ==
    ASSUME StructInv, MoneyInv, NEW S, Interrupt(S)
    PROVE  MoneyInv'
<1>1. /\ invoices' = invoices /\ agreed' = agreed /\ clashed' = clashed /\ (batch' = batch \/ batch'.pc = "idle")
      /\ batch' = batch \/ "batch" \in S
      /\ correction' = [a \in Admins |-> IF a \in S THEN NoCorrection ELSE correction[a]]
      /\ torn' = torn \cup {m \in Months : \/ "batch" \in S /\ ItemsPending(m)
                                           \/ \E a \in S \cap InFlight(m) : correction[a].pc = "items"}
  BY DEF Interrupt, Idle
<1>2. \A a \in Admins : correction'[a] = correction[a] \/ correction'[a].pc = "idle"
  BY <1>1 DEF NoCorrection
<1>3. ASSUME NEW m \in Months, Due(m) PROVE Due(m)' \/ m \in torn'
  <2>1. PICK a \in Admins : correction[a].pc = "items" /\ correction[a].ym = m
    BY <1>3 DEF Due
  <2>2. CASE a \in S
    BY <1>1, <2>1, <2>2 DEF InFlight
  <2>3. CASE a \notin S
    BY <1>1, <2>1, <2>3 DEF Due
  <2>. QED  BY <2>2, <2>3
<1>4. \A m \in Months : ItemsPending(m) => ItemsPending(m)' \/ m \in torn'
  BY <1>1 DEF ItemsPending
<1>5. \A m \in Months : ItemsPending(m)' => ItemsPending(m) /\ batch' = batch
  BY <1>1 DEF ItemsPending
<1>. QED  BY <1>1, <1>2, <1>3, <1>4, <1>5, SameTableKeeps

LEMMA MoneyInit == Init => MoneyInv
<1>. SUFFICES ASSUME Init PROVE MoneyInv
  OBVIOUS
<1>1. DOMAIN invoices = {} /\ \A a \in Admins : correction[a].pc = "idle"
  BY DEF Init, NoCorrection
<1>. QED  BY <1>1 DEF MoneyInv, MonthMoney, FinalMonth

\* All of them together.
LEMMA MoneyNext == StructInv /\ MoneyInv /\ [Next]_vars => MoneyInv'
<1>. SUFFICES ASSUME StructInv, MoneyInv, [Next]_vars PROVE MoneyInv'
  OBVIOUS
<1>1. CASE UNCHANGED vars
  BY <1>1, SameTableKeeps DEF vars, history, Due, ItemsPending
<1>2. CASE Next
  BY <1>2, OutsideMoney, StartMoney, BackfillMoney, FinalizeMoney, ReplaceItemsMoney, DraftMoney,
     RefreshMoney, NotifyMoney, MarkNotifiedMoney, CorrectReadMoney, CorrectInsertMoney,
     CorrectItemsMoney, InterruptMoney DEF Next, Batch
<1>. QED  BY <1>1, <1>2

-----------------------------------------------------------------------------
(* What no step does to a row.                                             *)

\* What no step does to a row.
RowStays(i) ==
    /\ i \in Rows' /\ invoices'[i].ym = invoices[i].ym /\ (invoices[i].notified => invoices'[i].notified)
    /\ invoices[i].status # "draft" =>
         /\ invoices'[i].status = invoices[i].status /\ invoices'[i].notified = invoices[i].notified
         /\ invoices'[i].subtotal = invoices[i].subtotal /\ invoices'[i].tax = invoices[i].tax
         /\ invoices'[i].items # invoices[i].items =>
              \/ batch.row = i /\ batch.pc \in {"backfillItems", "finalizeItems"}
              \/ \E a \in Admins : correction[a].row = i

\* Steps that leave the table alone, add a row, replace one.
LEMMA SameTableStays == ASSUME invoices' = invoices, NEW i \in Rows PROVE RowStays(i)
BY DEF RowStays, Rows

LEMMA AppendStays ==
    ASSUME BillingTypeOK, NEW r \in Row, invoices' = Append(invoices, r), NEW i \in Rows
    PROVE  RowStays(i)
BY TableAppend DEF RowStays, Rows, BillingTypeOK

\* Replacing row j by r.
LEMMA PutStays ==
    ASSUME BillingTypeOK, NEW j \in Rows, NEW r \in Row, invoices' = Put(invoices, j, r),
           r.ym = invoices[j].ym, r.notified = invoices[j].notified \/ (invoices[j].status = "draft" /\ r.notified),
           \/ invoices[j].status = "draft"
           \/ /\ r.status = invoices[j].status /\ r.subtotal = invoices[j].subtotal /\ r.tax = invoices[j].tax
              /\ \/ batch.row = j /\ batch.pc \in {"backfillItems", "finalizeItems"}
                 \/ \E a \in Admins : correction[a].row = j,
           NEW i \in Rows
    PROVE  RowStays(i)
<1>1. Rows' = Rows /\ invoices'[j] = r /\ \A k \in Rows : k # j => invoices'[k] = invoices[k]
  BY TableUpdate DEF Put, BillingTypeOK, Rows
<1>2. CASE i # j
  BY <1>1, <1>2 DEF RowStays
<1>3. CASE i = j
  BY <1>1, <1>3 DEF RowStays
<1>. QED  BY <1>2, <1>3

LEMMA BatchStays == ASSUME StructInv, Batch, NEW k \in Rows PROVE RowStays(k)
<1>t. BillingTypeOK /\ BatchAt
  BY DEF StructInv
<1>1. CASE Start
  BY <1>1, SameTableStays DEF Start
<1>2. CASE Backfill
  <2>1. PICK m \in batch.todo, x \in Int, y \in Int, z \in Sheet :
           invoices' = Append(invoices, Invoice(m, "finalized", x, y, NoItems))
    BY <1>2, <1>t, BackfillDoes
  <2>2. m \in Months
    BY <1>t DEF BillingTypeOK, BatchState
  <2>3. Invoice(m, "finalized", x, y, NoItems) \in Row
    BY <2>2, InvoiceTyped, NoItemsTyped
  <2>. QED  BY <1>t, <2>1, <2>3, AppendStays
<1>3. CASE Finalize
  <2>1. PICK i \in StaleDrafts, x \in Int, y \in Int, z \in Sheet :
           /\ invoices' = [invoices EXCEPT ![i] = [invoices[i] EXCEPT !.subtotal = x, !.tax = y, !.status = "finalized"]]
           /\ [invoices[i] EXCEPT !.subtotal = x, !.tax = y, !.status = "finalized"] \in Row
    BY <1>3, <1>t, FinalizeDoes
  <2>. DEFINE r == [invoices[i] EXCEPT !.subtotal = x, !.tax = y, !.status = "finalized"]
  <2>2. i \in Rows /\ invoices[i] \in Row /\ invoices[i].status = "draft"
    BY <1>t, Numbers DEF StaleDrafts
  <2>3. r \in Row /\ r.ym = invoices[i].ym /\ r.notified = invoices[i].notified /\ invoices' = Put(invoices, i, r)
    BY <2>1, <2>2 DEF Row, Put
  <2>. HIDE DEF r
  <2>. QED  BY <1>t, <2>2, <2>3, PutStays
<1>4. CASE ReplaceItems
  <2>. DEFINE i == batch.row
              r == [invoices[batch.row] EXCEPT !.items = batch.items]
  <2>1. i \in Rows /\ r \in Row /\ invoices' = Put(invoices, i, r) /\ (batch.pc \in ItemsStages \/ batch.pc = "refreshItems")
    BY <1>4, <1>t, ReplaceItemsDoes DEF Put
  <2>2. invoices[i] \in Row
    BY <1>t, <2>1, Numbers
  <2>3. /\ r.ym = invoices[i].ym /\ r.notified = invoices[i].notified
        /\ r.status = invoices[i].status /\ r.subtotal = invoices[i].subtotal /\ r.tax = invoices[i].tax
    BY <2>2 DEF Row
  <2>4. \/ invoices[i].status = "draft"
        \/ batch.row = i /\ batch.pc \in {"backfillItems", "finalizeItems"}
    BY <1>t, <2>1 DEF BatchAt, DraftStages, ItemsStages
  <2>5. ~(batch.pc \in ItemsStages) => invoices[i].status = "draft"
    BY <1>t, <2>1 DEF BatchAt, DraftStages
  <2>. HIDE DEF r, i
  <2>. QED  BY <1>t, <2>1, <2>3, <2>4, PutStays
<1>5. CASE Draft
  <2>1. batch.target \in Months
    BY <1>5, <1>t, TargetInTime DEF Draft
  <2>2. Invoice(batch.target, "draft", 0, 0, NoItems) \in Row
    BY <2>1, InvoiceTyped, NoItemsTyped
  <2>3. invoices' = invoices \/ invoices' = Append(invoices, Invoice(batch.target, "draft", 0, 0, NoItems))
    BY <1>5 DEF Draft
  <2>. QED  BY <1>t, <2>2, <2>3, AppendStays, SameTableStays
<1>6. CASE Refresh
  <2>1. batch.row \in Rows /\ batch.target \in Months /\ invoices[batch.row].status = "draft"
    BY <1>6, <1>t, TargetInTime DEF Refresh, BatchAt, DraftStages
  <2>2. PICK x \in Int, y \in Int, z \in Sheet :
           /\ invoices' = [invoices EXCEPT ![batch.row] = [invoices[batch.row] EXCEPT !.subtotal = x, !.tax = y]]
           /\ [invoices[batch.row] EXCEPT !.subtotal = x, !.tax = y] \in Row
    BY <1>6, <1>t, <2>1, RefreshDoes
  <2>. DEFINE i == batch.row
              r == [invoices[batch.row] EXCEPT !.subtotal = x, !.tax = y]
  <2>3. invoices[i] \in Row
    BY <1>t, <2>1, Numbers
  <2>4. /\ i \in Rows /\ r \in Row /\ invoices' = Put(invoices, i, r) /\ r.ym = invoices[i].ym
        /\ r.notified = invoices[i].notified /\ invoices[i].status = "draft"
    BY <2>1, <2>2, <2>3 DEF Put, Row
  <2>. HIDE DEF r, i
  <2>. QED  BY <1>t, <2>4, PutStays
<1>7. CASE Notify
  BY <1>7, SameTableStays DEF Notify
<1>8. CASE MarkNotified
  <2>. DEFINE i == batch.row
              r == [invoices[batch.row] EXCEPT !.notified = TRUE]
  <2>1. i \in Rows /\ r \in Row /\ invoices' = Put(invoices, i, r) /\ invoices[i].status = "draft"
    BY <1>8, <1>t, MarkNotifiedDoes DEF Put, MarkNotified, BatchAt, DraftStages
  <2>2. invoices[i] \in Row
    BY <1>t, <2>1, Numbers
  <2>3. r.ym = invoices[i].ym /\ r.notified
    BY <2>2 DEF Row
  <2>. HIDE DEF r, i
  <2>. QED  BY <1>t, <2>1, <2>3, PutStays
<1>. QED  BY <1>1, <1>2, <1>3, <1>4, <1>5, <1>6, <1>7, <1>8 DEF Batch

LEMMA CorrectionStays ==
    ASSUME StructInv, NEW a \in Admins, CorrectInsert(a) \/ CorrectItems(a), NEW k \in Rows
    PROVE  RowStays(k)
<1>t. BillingTypeOK /\ CorrectionAt
  BY DEF StructInv
<1>1. CASE CorrectInsert(a)
  <2>. DEFINE r == Invoice(correction[a].ym, "corrected", correction[a].subtotal, correction[a].tax, NoItems)
  <2>1. r \in Row /\ invoices' = Append(invoices, r)
    BY <1>1, <1>t, CorrectInsertDoes
  <2>. HIDE DEF r
  <2>. QED  BY <1>t, <2>1, AppendStays
<1>2. CASE CorrectItems(a)
  <2>. DEFINE i == correction[a].row
              r == [invoices[i] EXCEPT !.items = correction[a].items]
  <2>1. i \in Rows /\ r \in Row /\ invoices' = Put(invoices, i, r)
    BY <1>2, <1>t, CorrectItemsDoes DEF Put
  <2>2. invoices[i] \in Row
    BY <1>t, <2>1, Numbers
  <2>3. /\ r.ym = invoices[i].ym /\ r.notified = invoices[i].notified
        /\ r.status = invoices[i].status /\ r.subtotal = invoices[i].subtotal /\ r.tax = invoices[i].tax
    BY <2>2 DEF Row
  <2>4. \E b \in Admins : correction[b].row = i
    OBVIOUS
  <2>. HIDE DEF r, i
  <2>. QED  BY <1>t, <2>1, <2>3, <2>4, PutStays
<1>. QED  BY <1>1, <1>2

\* No step does to a row what RowStays rules out.
LEMMA RowsStay == ASSUME StructInv, [Next]_vars, NEW k \in Rows PROVE RowStays(k)
<1>1. CASE UNCHANGED vars
  BY <1>1, SameTableStays DEF vars
<1>2. CASE Outside
  BY <1>2, OutsideKeeps, SameTableStays DEF StructInv
<1>3. CASE Batch
  BY <1>3, BatchStays
<1>4. ASSUME NEW a \in Admins, NEW m \in Months, CorrectRead(a, m) PROVE RowStays(k)
  BY <1>4, SameTableStays DEF CorrectRead
<1>5. ASSUME NEW S, Interrupt(S) PROVE RowStays(k)
  BY <1>5, SameTableStays DEF Interrupt
<1>. QED  BY <1>1, <1>2, <1>3, <1>4, <1>5, CorrectionStays DEF Next

-----------------------------------------------------------------------------
(* One mail a month.                                                       *)

Told(m) == (\E i \in RowsOf(m) : invoices[i].notified) \/ (batch.pc = "mark" /\ batch.target = m)

\* What was noted on a row stays noted, so that only a lost note can undo a mail.
LEMMA NoteStays ==
    ASSUME StructInv, [Next]_vars, NEW m, \E i \in RowsOf(m) : invoices[i].notified
    PROVE  \E i \in Rows' : invoices'[i].ym = m /\ invoices'[i].notified
BY RowsStay DEF RowStays, RowsOf

\* A mail that was noted stays noted.
LEMMA MailKeeps ==
    ASSUME StructInv, MailInv, [Next]_vars, mails' = mails,
           batch.pc = "mark" => batch' = batch
    PROVE  MailInv'
<1>1. ASSUME NEW m \in Months, mails'[m] >= 1
      PROVE  /\ mails'[m] = 1
             /\ (\E i \in RowsOf(m)' : invoices'[i].notified) \/ (batch'.pc = "mark" /\ batch'.target = m)
  <2>1. mails[m] = 1 /\ ((\E i \in RowsOf(m) : invoices[i].notified) \/ (batch.pc = "mark" /\ batch.target = m))
    BY <1>1 DEF MailInv
  <2>. QED  BY <2>1, NoteStays DEF RowsOf
<1>. QED  BY <1>1 DEF MailInv

\* Only a draft without a note is mailed about.
LEMMA NotifyMail == ASSUME StructInv, MailInv, Notify PROVE MailInv'
<1>n. [Next]_vars
  BY DEF Next, Batch
<1>1. CASE ~IsShock(invoices[batch.row])
  BY <1>1, <1>n, MailKeeps DEF Notify
<1>2. CASE IsShock(invoices[batch.row])
  <2>1. /\ batch.pc = "shock" /\ batch' = [batch EXCEPT !.pc = "mark"]
        /\ mails' = [mails EXCEPT ![batch.target] = @ + 1] /\ invoices' = invoices
    BY <1>2 DEF Notify
  <2>2. /\ batch.row \in Rows /\ invoices[batch.row].status = "draft" /\ invoices[batch.row].ym = batch.target
        /\ ~invoices[batch.row].notified
    BY <1>2, <2>1 DEF IsShock, StructInv, BatchAt, DraftStages
  <2>3. batch'.pc = "mark" /\ batch'.target = batch.target
    BY <2>1 DEF StructInv, BillingTypeOK, BatchState
  <2>4. batch.target \in Months /\ mails \in [Months -> Int]
    BY <2>1, TargetInTime DEF StructInv, BillingTypeOK
  <2>5. \A i \in RowsOf(batch.target) : ~invoices[i].notified
    BY <2>2, DraftIsAlone DEF StructInv, RowsInv, RowsOf
  <2>6. ~(mails[batch.target] >= 1)
    BY <2>1, <2>4, <2>5 DEF MailInv
  <2>7. mails'[batch.target] = mails[batch.target] + 1 /\ \A m \in Months : m # batch.target => mails'[m] = mails[m]
    BY <2>1, <2>4
  <2>8. ASSUME NEW m \in Months, mails'[m] >= 1
        PROVE  /\ mails'[m] = 1
               /\ (\E i \in RowsOf(m)' : invoices'[i].notified) \/ (batch'.pc = "mark" /\ batch'.target = m)
    <3>1. CASE m = batch.target
      BY <2>3, <2>4, <2>6, <2>7, <2>8, <3>1
    <3>2. CASE m # batch.target
      BY <2>1, <2>7, <2>8, <3>2 DEF MailInv, RowsOf, Rows
    <3>. QED  BY <3>1, <3>2
  <2>. QED  BY <2>8 DEF MailInv
<1>. QED  BY <1>1, <1>2

\* The note takes over from the batch that sent the mail.
LEMMA MarkNotifiedMail == ASSUME StructInv, MailInv, MarkNotified PROVE MailInv'
<1>n. [Next]_vars
  BY DEF Next, Batch
<1>1. /\ batch.row \in Rows /\ batch.pc = "mark" /\ invoices[batch.row].ym = batch.target /\ mails' = mails
      /\ invoices' = [invoices EXCEPT ![batch.row] = [invoices[batch.row] EXCEPT !.notified = TRUE]]
      /\ [invoices[batch.row] EXCEPT !.notified = TRUE] \in Row
  BY MarkNotifiedDoes DEF MarkNotified, history, StructInv, BatchAt, DraftStages
<1>2. invoices[batch.row] \in Row
  BY <1>1, Numbers DEF StructInv
<1>. DEFINE i == batch.row
            r == [invoices[batch.row] EXCEPT !.notified = TRUE]
<1>3. r \in Row /\ r.ym = batch.target /\ r.notified /\ i \in Rows /\ invoices' = [invoices EXCEPT ![i] = r]
  BY <1>1, <1>2 DEF Row
<1>. HIDE DEF i, r
<1>4. i \in Rows' /\ invoices'[i] = r
  BY <1>3, TableUpdate DEF StructInv, BillingTypeOK, Rows
<1>5. ASSUME NEW m \in Months, mails'[m] >= 1
      PROVE  /\ mails'[m] = 1
             /\ (\E j \in RowsOf(m)' : invoices'[j].notified)
  <2>1. mails[m] = 1 /\ ((\E j \in RowsOf(m) : invoices[j].notified) \/ batch.target = m)
    BY <1>1, <1>5 DEF MailInv
  <2>2. CASE batch.target = m
    BY <1>1, <1>3, <1>4, <2>1, <2>2 DEF RowsOf
  <2>3. CASE \E j \in RowsOf(m) : invoices[j].notified
    BY <1>n, <1>1, <2>1, <2>3, NoteStays DEF RowsOf
  <2>. QED  BY <2>1, <2>2, <2>3
<1>. QED  BY <1>5 DEF MailInv

\* A batch cut off before the note takes its mail out of the count.
LEMMA InterruptMail == ASSUME StructInv, MailInv, [Next]_vars, NEW S, Interrupt(S) PROVE MailInv'
<1>1. CASE "batch" \in S /\ batch.pc = "mark"
  <2>1. mails' = [mails EXCEPT ![batch.target] = @ - 1] /\ invoices' = invoices
    BY <1>1 DEF Interrupt
  <2>2. batch.target \in Months /\ mails \in [Months -> Int]
    BY <1>1, TargetInTime DEF StructInv, BillingTypeOK
  <2>3. mails'[batch.target] = mails[batch.target] - 1 /\ \A m \in Months : m # batch.target => mails'[m] = mails[m]
    BY <2>1, <2>2
  <2>4. ~(mails'[batch.target] >= 1)
    BY <2>2, <2>3 DEF MailInv
  <2>5. ASSUME NEW m \in Months, mails'[m] >= 1
        PROVE  mails'[m] = 1 /\ \E i \in RowsOf(m)' : invoices'[i].notified
    <3>1. m # batch.target
      BY <2>4, <2>5
    <3>. QED  BY <2>1, <2>3, <2>5, <3>1 DEF MailInv, RowsOf, Rows
  <2>. QED  BY <2>5 DEF MailInv
<1>2. CASE ~("batch" \in S /\ batch.pc = "mark")
  <2>1. mails' = mails /\ (batch.pc = "mark" => batch' = batch)
    BY <1>2 DEF Interrupt
  <2>. QED  BY <2>1, MailKeeps
<1>. QED  BY <1>1, <1>2

LEMMA MailInit == Init => MailInv
BY DEF Init, MailInv

\* MailInv is inductive.
LEMMA MailNext == StructInv /\ MailInv /\ [Next]_vars => MailInv'
<1>. SUFFICES ASSUME StructInv, MailInv, [Next]_vars PROVE MailInv'
  OBVIOUS
<1>1. CASE UNCHANGED vars
  BY <1>1, MailKeeps DEF vars, history
<1>2. CASE Outside
  BY <1>2, OutsideKeeps, MailKeeps DEF StructInv, history
<1>3. CASE Start \/ Backfill \/ Finalize \/ ReplaceItems \/ Draft \/ Refresh
  <2>1. mails' = mails
    BY <1>3 DEF Start, Backfill, Finalize, ReplaceItems, Draft, Refresh, history
  <2>2. batch.pc # "mark"
    BY <1>3 DEF Start, Backfill, Finalize, ReplaceItems, AfterItems, Draft, Refresh
  <2>. QED  BY <2>1, <2>2, MailKeeps
<1>4. ASSUME NEW a \in Admins, (\E m \in Months : CorrectRead(a, m)) \/ CorrectInsert(a) \/ CorrectItems(a)
      PROVE  MailInv'
  <2>1. mails' = mails /\ batch' = batch
    BY <1>4 DEF CorrectRead, CorrectInsert, CorrectItems, history
  <2>. QED  BY <2>1, MailKeeps
<1>5. ASSUME NEW S, Interrupt(S) PROVE MailInv'
  BY <1>5, InterruptMail
<1>. QED  BY <1>1, <1>2, <1>3, <1>4, <1>5, NotifyMail, MarkNotifiedMail DEF Next, Batch

-----------------------------------------------------------------------------
(* The preserved number of provisionable devices.                          *)

\* A number of devices that was counted in month m or before, or the zero a batch
\* that was cut off has left behind, in months that have begun by month n.
FromThen(q, m, c, x, n) == q \in UNION {c[k] : k \in 1..m} \/ (q = 0 /\ x \cap (1..n) # {})
RowKept(i) == LET q == invoices[i].items[Kept].quantity IN
    IF invoices[i].status = "corrected" THEN q = 0
    ELSE \/ FromThen(q, invoices[i].ym, counted, cut, now)
         \/ q = 0 /\ batch.row = i /\ batch.pc \in {"backfillItems", "refresh", "refreshItems"}
\* The preserved count in the rows, in the batch and in the corrections.
KeptInv ==
    /\ counted \in [Months -> SUBSET Int]
    /\ \A i \in Rows : RowKept(i)
    /\ batch.pc \in ItemsStages =>
         FromThen(batch.items[Kept].quantity, invoices[batch.row].ym, counted, cut, now)
    /\ \A m \in batch.todo : FromThen(batch.kept, m, counted, cut, now)
    /\ \A a \in Admins : correction[a].pc # "idle" => correction[a].items[Kept].quantity = 0
    /\ batch.pc = "idle" =>
         Rows = {} \/ cut \cap (1..now) # {} \/ \E i \in NewestRows : invoices[i].status = "draft"

\* More is counted, more was cut off, time passes.
Later == /\ counted' \in [Months -> SUBSET Int] /\ \A k \in Months : counted[k] \subseteq counted'[k]
         /\ cut \subseteq cut' /\ now <= now'

\* Once counted from then, always: nothing is forgotten.
LEMMA FromThenLater ==
    ASSUME BillingTypeOK, BillingTypeOK', Later
    PROVE  /\ \A q, m : m \in Months /\ FromThen(q, m, counted, cut, now) => FromThen(q, m, counted', cut', now')
           /\ cut \cap (1..now) # {} => cut' \cap (1..now') # {}
<1>1. cut \cap (1..now) \subseteq cut' \cap (1..now')
  BY DEF Later, BillingTypeOK, Months
<1>2. ASSUME NEW m \in Months PROVE UNION {counted[k] : k \in 1..m} \subseteq UNION {counted'[k] : k \in 1..m}
  BY BillingAssumption DEF Later, Months
<1>. QED  BY <1>1, <1>2 DEF FromThen

\* What was counted by month m was counted by a later month.
LEMMA FromThenMore ==
    ASSUME NEW m \in Months, NEW k \in Months, m <= k, NEW q, NEW c, NEW x, NEW n, FromThen(q, m, c, x, n)
    PROVE  FromThen(q, k, c, x, n)
<1>1. 1..m \subseteq 1..k
  BY DEF Months
<1>. QED  BY <1>1 DEF FromThen

\* A row that a step leaves alone.
LEMMA RowKeptStays ==
    ASSUME BillingTypeOK, BillingTypeOK', Later, NEW i \in Rows, RowKept(i),
           invoices'[i].ym = invoices[i].ym, invoices'[i].status = "corrected" <=> invoices[i].status = "corrected",
           invoices'[i].items[Kept].quantity = invoices[i].items[Kept].quantity,
           batch.pc \in {"backfillItems", "refresh", "refreshItems"} /\ batch.row = i =>
              \/ batch'.pc \in {"backfillItems", "refresh", "refreshItems"} /\ batch'.row = i
              \/ cut' \cap (1..now') # {}
    PROVE  RowKept(i)'
<1>1. invoices[i].ym \in Months
  BY Numbers
<1>2. CASE invoices[i].status = "corrected"
  BY <1>2 DEF RowKept
<1>3. CASE invoices[i].status # "corrected" /\ FromThen(invoices[i].items[Kept].quantity, invoices[i].ym, counted, cut, now)
  BY <1>1, <1>3, FromThenLater DEF RowKept
<1>4. CASE invoices[i].status # "corrected" /\ ~FromThen(invoices[i].items[Kept].quantity, invoices[i].ym, counted, cut, now)
  <2>1. /\ invoices[i].items[Kept].quantity = 0 /\ batch.row = i
        /\ batch.pc \in {"backfillItems", "refresh", "refreshItems"}
    BY <1>4 DEF RowKept
  <2>2. CASE cut' \cap (1..now') # {}
    BY <1>4, <2>1, <2>2 DEF RowKept, FromThen
  <2>3. CASE ~(cut' \cap (1..now') # {})
    BY <1>4, <2>1, <2>3 DEF RowKept
  <2>. QED  BY <2>2, <2>3
<1>. QED  BY <1>2, <1>3, <1>4

LEMMA LaterSame ==
    ASSUME BillingTypeOK, counted \in [Months -> SUBSET Int], counted' = counted, cut \subseteq cut', now' = now
    PROVE  Later
BY Numbers DEF Later, Months

\* Steps that leave the rows as they are.
LEMMA SameTableKept ==
    ASSUME StructInv, StructInv', KeptInv, Later, invoices' = invoices,
           \/ batch' = batch
           \/ batch'.pc \notin ItemsStages /\ batch'.todo = batch.todo /\ batch'.kept = batch.kept
           \/ batch'.pc \notin ItemsStages /\ batch'.todo = {},
           batch.pc \in {"backfillItems", "refresh", "refreshItems"} =>
              \/ batch'.pc \in {"backfillItems", "refresh", "refreshItems"} /\ batch'.row = batch.row
              \/ cut' \cap (1..now') # {},
           \A a \in Admins : correction'[a].pc # "idle" => correction'[a].items[Kept].quantity = 0,
           batch'.pc = "idle" => batch.pc = "idle" \/ cut' \cap (1..now') # {}
                                   \/ \E i \in NewestRows : invoices[i].status = "draft"
    PROVE  KeptInv'
<1>t. BillingTypeOK /\ BillingTypeOK' /\ Rows' = Rows /\ NewestRows' = NewestRows
  BY DEF StructInv, NewestRows, Rows
<1>1. ASSUME NEW i \in Rows PROVE RowKept(i)'
  BY <1>t, RowKeptStays DEF KeptInv
<1>2. ASSUME batch'.pc \in ItemsStages
      PROVE  FromThen(batch'.items[Kept].quantity, invoices'[batch'.row].ym, counted', cut', now')
  <2>1. FromThen(batch.items[Kept].quantity, invoices[batch.row].ym, counted, cut, now) /\ batch' = batch
    BY <1>2 DEF KeptInv
  <2>2. invoices[batch.row].ym \in Months
    BY <1>t, <1>2, <2>1, Numbers DEF StructInv, BatchAt
  <2>. QED  BY <1>t, <2>1, <2>2, FromThenLater
<1>3. ASSUME NEW m \in batch'.todo PROVE FromThen(batch'.kept, m, counted', cut', now')
  <2>1. m \in Months /\ FromThen(batch.kept, m, counted, cut, now) /\ batch'.kept = batch.kept
    BY <1>t, <1>3 DEF KeptInv, BillingTypeOK, BatchState
  <2>. QED  BY <1>t, <2>1, FromThenLater
<1>4. batch'.pc = "idle" =>
         Rows' = {} \/ cut' \cap (1..now') # {} \/ \E i \in NewestRows' : invoices'[i].status = "draft"
  BY <1>t, FromThenLater DEF KeptInv
<1>. QED  BY <1>t, <1>1, <1>2, <1>3, <1>4 DEF KeptInv, Later

\* KeptInv is inductive: one lemma for each action.
LEMMA OutsideKept == ASSUME StructInv, StructInv', KeptInv, Outside PROVE KeptInv'
<1>1. UNCHANGED <<invoices, batch, correction, history>> /\ now <= now'
  BY OutsideKeeps DEF StructInv
<1>2. Later
  BY <1>1 DEF Later, history, KeptInv
<1>. QED  BY <1>1, <1>2, SameTableKept DEF KeptInv

LEMMA NotifyKept == ASSUME StructInv, StructInv', KeptInv, Notify PROVE KeptInv'
<1>1. /\ invoices' = invoices /\ correction' = correction /\ counted' = counted /\ cut' = cut /\ now' = now
      /\ batch.pc = "shock"
      /\ \/ batch'.pc = "mark" /\ batch'.todo = batch.todo /\ batch'.kept = batch.kept
         \/ batch' = Idle
  BY DEF Notify, StructInv, BillingTypeOK, BatchState, inputs
<1>2. Later
  BY <1>1, LaterSame DEF KeptInv, StructInv
<1>3. batch.row \in Rows /\ invoices[batch.row].status = "draft" /\ \A j \in Rows : invoices[j].ym <= invoices[batch.row].ym
  BY <1>1 DEF StructInv, BatchAt, DraftStages, RowsInv, InTime
<1>. QED  BY <1>1, <1>2, <1>3, SameTableKept DEF KeptInv, ItemsStages, NewestRows, Idle

\* The batch reads its preserved count from a newest row: the missing months are later.
LEMMA StartKept == ASSUME StructInv, StructInv', KeptInv, Start PROVE KeptInv'
<1>1. PICK kept \in IF Rows = {} THEN {0} ELSE {invoices[i].items[Kept].quantity : i \in NewestRows} :
         batch' = [Idle EXCEPT !.pc = "past", !.target = now, !.todo = MissingMonths, !.kept = kept]
  BY DEF Start
<1>2. /\ batch'.pc = "past" /\ batch'.todo = MissingMonths /\ batch'.kept = kept /\ batch.pc = "idle"
      /\ now' = now /\ invoices' = invoices /\ correction' = correction /\ counted' = counted /\ cut' = cut
  BY <1>1 DEF Start, Idle, inputs, history
<1>t. BillingTypeOK /\ BillingTypeOK' /\ Later
  BY <1>2, LaterSame DEF StructInv, KeptInv
<1>3. ASSUME NEW i \in Rows PROVE RowKept(i)'
  BY <1>t, <1>2, RowKeptStays DEF KeptInv
<1>4. ASSUME NEW m \in MissingMonths PROVE FromThen(kept, m, counted, cut, now)
  <2>1. Rows # {} /\ m \in Months
    BY <1>4 DEF MissingMonths
  <2>2. PICK i \in NewestRows : kept = invoices[i].items[Kept].quantity
    BY <2>1
  <2>3. i \in Rows /\ invoices[i].ym \in Months /\ \A j \in Rows : invoices[j].ym <= invoices[i].ym /\ invoices[j].ym \in Months
    BY <1>t, Numbers DEF NewestRows
  <2>4. invoices[i].ym <= m
    <3>. DEFINE S == {invoices[j].ym : j \in Rows}
    <3>1. S \in SUBSET (1..MaxMonth) /\ MaxMonth \in Nat /\ invoices[i].ym \in S
      BY <2>3, BillingAssumption DEF Months
    <3>2. Max(S) < m
      <4>1. Rows # {} /\ S = {invoices[j].ym : j \in Rows}
        BY <2>1
      <4>. HIDE DEF S
      <4>. QED  BY <1>4, <4>1 DEF MissingMonths
    <3>3. Max(S) \in S /\ \A k \in S : k <= Max(S)
      BY <3>1, MaxIn
    <3>. HIDE DEF S
    <3>4. invoices[i].ym <= Max(S) /\ Max(S) \in 1..MaxMonth /\ invoices[i].ym \in 1..MaxMonth /\ m \in 1..MaxMonth
      BY <2>1, <3>1, <3>3 DEF Months
    <3>. QED  BY <3>1, <3>2, <3>4
  <2>5. CASE cut \cap (1..now) # {} /\ invoices[i].status = "corrected"
    BY <2>2, <2>3, <2>5 DEF KeptInv, RowKept, FromThen
  <2>6. CASE invoices[i].status # "corrected"
    <3>1. FromThen(kept, invoices[i].ym, counted, cut, now)
      BY <1>2, <2>2, <2>3, <2>6 DEF KeptInv, RowKept
    <3>. QED  BY <2>1, <2>3, <2>4, <3>1, FromThenMore
  <2>7. CASE ~(cut \cap (1..now) # {}) /\ invoices[i].status = "corrected"
    <3>1. PICK d \in NewestRows : invoices[d].status = "draft"
      BY <1>2, <2>1, <2>7 DEF KeptInv
    <3>2. d \in Rows /\ invoices[i].ym = invoices[d].ym
      BY <2>3, <3>1 DEF NewestRows, Months
    <3>3. i = d
      BY <1>t, <2>3, <3>1, <3>2, DraftIsAlone DEF StructInv, RowsInv
    <3>. QED  BY <2>7, <3>1, <3>3
  <2>. QED  BY <2>5, <2>6, <2>7
<1>5. Rows' = Rows
  BY <1>2 DEF Rows
<1>. QED  BY <1>t, <1>2, <1>3, <1>4, <1>5 DEF KeptInv, Later, ItemsStages

\* A backfilled month inherits the count until its items are written.
LEMMA BackfillKept == ASSUME StructInv, StructInv', KeptInv, Backfill PROVE KeptInv'
<1>1. PICK m \in batch.todo, x \in Int, y \in Int, z \in Sheet :
           /\ SheetSum(z) = x /\ z[Kept].quantity = batch.kept
           /\ invoices' = Append(invoices, Invoice(m, "finalized", x, y, NoItems))
           /\ batch.pc = "past"
           /\ batch' = [batch EXCEPT !.pc = "backfillItems", !.row = Len(invoices) + 1,
                                     !.items = z, !.todo = @ \ {m}]
           /\ agreed' = [agreed EXCEPT ![m] = x + y]
           /\ UNCHANGED <<inputs, correction, torn, cut, clashed, counted, mails>>
  BY BackfillDoes DEF StructInv
<1>. DEFINE r == Invoice(m, "finalized", x, y, NoItems)
<1>n. PICK n : n = Len(invoices) + 1
  OBVIOUS
<1>2. /\ m \in Months /\ batch'.pc = "backfillItems" /\ batch'.row = n /\ batch'.items = z
      /\ batch'.todo \subseteq batch.todo /\ batch'.kept = batch.kept
      /\ correction' = correction /\ cut' = cut /\ counted' = counted /\ now' = now
  BY <1>1, <1>n DEF StructInv, BillingTypeOK, BatchState, inputs
<1>t. BillingTypeOK /\ BillingTypeOK' /\ Later
  BY <1>2, LaterSame DEF StructInv, KeptInv
<1>3. r \in Row
  BY <1>2, InvoiceTyped, NoItemsTyped
<1>4. r.ym = m /\ r.items = NoItems /\ r.status = "finalized"
  BY DEF Invoice
<1>5. invoices' = Append(invoices, r)
  BY <1>1
<1>. HIDE DEF r
<1>6. Rows' = Rows \cup {n} /\ n \notin Rows /\ invoices'[n] = r /\ \A i \in Rows : invoices'[i] = invoices[i]
  BY <1>n, <1>t, <1>3, <1>5, TableAppend DEF Rows, BillingTypeOK
<1>7. NoItems[Kept].quantity = 0
  BY NoItemsTyped DEF Keys
<1>8. RowKept(n)'
  BY <1>2, <1>4, <1>6, <1>7 DEF RowKept
<1>9. ASSUME NEW i \in Rows PROVE RowKept(i)'
  BY <1>t, <1>1, <1>6, RowKeptStays DEF KeptInv
<1>10. FromThen(batch'.items[Kept].quantity, invoices'[batch'.row].ym, counted', cut', now')
  BY <1>1, <1>2, <1>4, <1>6 DEF KeptInv
<1>11. \A k \in batch'.todo : FromThen(batch'.kept, k, counted', cut', now')
  BY <1>2 DEF KeptInv
<1>. QED  BY <1>t, <1>2, <1>6, <1>8, <1>9, <1>10, <1>11 DEF KeptInv, Later

\* A draft is finalized with the count its items hold.
LEMMA FinalizeKept == ASSUME StructInv, StructInv', KeptInv, Finalize PROVE KeptInv'
<1>1. PICK i \in StaleDrafts, x \in Int, y \in Int, z \in Sheet :
           /\ SheetSum(z) = x /\ z[Kept].quantity = invoices[i].items[Kept].quantity
           /\ invoices' = [invoices EXCEPT ![i] = [invoices[i] EXCEPT !.subtotal = x, !.tax = y, !.status = "finalized"]]
           /\ [invoices[i] EXCEPT !.subtotal = x, !.tax = y, !.status = "finalized"] \in Row
           /\ batch.pc = "past" /\ batch.todo = {}
           /\ batch' = [batch EXCEPT !.pc = "finalizeItems", !.row = i, !.items = z]
           /\ agreed' = [agreed EXCEPT ![invoices[i].ym] = x + y]
           /\ UNCHANGED <<inputs, correction, torn, cut, clashed, counted, mails>>
  BY FinalizeDoes DEF StructInv
<1>. DEFINE r == [invoices[i] EXCEPT !.subtotal = x, !.tax = y, !.status = "finalized"]
<1>2. /\ batch'.pc = "finalizeItems" /\ batch'.row = i /\ batch'.items = z /\ batch'.todo = {}
      /\ correction' = correction /\ cut' = cut /\ counted' = counted /\ now' = now
  BY <1>1 DEF StructInv, BillingTypeOK, BatchState, inputs
<1>t. BillingTypeOK /\ BillingTypeOK' /\ Later
  BY <1>2, LaterSame DEF StructInv, KeptInv
<1>3. i \in Rows /\ invoices[i] \in Row /\ invoices[i].status = "draft"
  BY <1>t, Numbers DEF StaleDrafts
<1>4. r.ym = invoices[i].ym /\ r.items = invoices[i].items /\ r.status = "finalized" /\ r \in Row
  BY <1>1, <1>3 DEF Row
<1>5. invoices' = [invoices EXCEPT ![i] = r]
  BY <1>1
<1>. HIDE DEF r
<1>6. Rows' = Rows /\ invoices'[i] = r /\ \A j \in Rows : j # i => invoices'[j] = invoices[j]
  BY <1>t, <1>3, <1>4, <1>5, TableUpdate DEF Rows, BillingTypeOK
<1>7. ASSUME NEW j \in Rows PROVE RowKept(j)'
  <2>1. /\ invoices'[j].ym = invoices[j].ym /\ (invoices'[j].status = "corrected" <=> invoices[j].status = "corrected")
        /\ invoices'[j].items = invoices[j].items
    BY <1>3, <1>4, <1>6
  <2>2. RowKept(j)
    BY DEF KeptInv
  <2>. QED  BY <1>t, <1>1, <2>1, <2>2, RowKeptStays
<1>8. FromThen(z[Kept].quantity, invoices[i].ym, counted, cut, now)
  BY <1>1, <1>3 DEF KeptInv, RowKept
<1>9. FromThen(batch'.items[Kept].quantity, invoices'[batch'.row].ym, counted', cut', now')
  BY <1>2, <1>4, <1>6, <1>8
<1>. QED  BY <1>t, <1>2, <1>6, <1>7, <1>9 DEF KeptInv, Later

\* Written items hold what was counted then, or what was preserved.
LEMMA ReplaceItemsKept == ASSUME StructInv, StructInv', KeptInv, ReplaceItems PROVE KeptInv'
<1>i. PICK i : i = batch.row
  OBVIOUS
<1>. DEFINE q == batch.items[Kept].quantity
            r == [invoices[batch.row] EXCEPT !.items = batch.items]
<1>1. /\ i \in Rows /\ batch.items \in Sheet /\ invoices' = [invoices EXCEPT ![i] = r] /\ r \in Row
      /\ \/ batch.pc \in ItemsStages /\ batch' = [batch EXCEPT !.pc = "past", !.items = NoItems] /\ counted' = counted
         \/ /\ batch.pc = "refreshItems" /\ batch' = [batch EXCEPT !.pc = "shock", !.items = NoItems]
            /\ counted' = [counted EXCEPT ![batch.target] = @ \cup {q}]
      /\ UNCHANGED <<inputs, correction, events, torn, cut, clashed, agreed, mails>>
  BY <1>i, ReplaceItemsDoes DEF StructInv
<1>2. /\ batch'.pc \in {"past", "shock"} /\ batch'.todo = batch.todo /\ batch'.kept = batch.kept
      /\ correction' = correction /\ cut' = cut /\ now' = now
  BY <1>1 DEF StructInv, BillingTypeOK, BatchState, inputs
<1>3. q \in Int
  BY <1>1 DEF Sheet, Line, Keys
<1>4. counted' \in [Months -> SUBSET Int] /\ \A k \in Months : counted[k] \subseteq counted'[k]
  BY <1>1, <1>3 DEF KeptInv
<1>t. BillingTypeOK /\ BillingTypeOK' /\ Later
  BY <1>2, <1>4, Numbers DEF StructInv, Later, Months
<1>5. invoices[i] \in Row /\ invoices[i].ym \in Months /\ invoices[i].status # "corrected"
  BY <1>i, <1>t, <1>1, Numbers DEF StructInv, BatchAt, DraftStages
<1>6. r.ym = invoices[i].ym /\ r.items = batch.items /\ r.status = invoices[i].status
  BY <1>i, <1>5 DEF Row
<1>7. FromThen(q, invoices[i].ym, counted', cut', now')
  <2>1. CASE batch.pc \in ItemsStages
    BY <1>i, <1>t, <1>5, <2>1, FromThenLater DEF KeptInv
  <2>2. CASE batch.pc = "refreshItems"
    <3>1. invoices[i].ym = batch.target /\ batch.target \in Months
      BY <1>i, <1>t, <2>2, TargetInTime DEF StructInv, BatchAt, DraftStages
    <3>2. q \in counted'[batch.target]
      BY <1>1, <2>2, <3>1 DEF KeptInv, ItemsStages
    <3>3. batch.target \in 1..batch.target
      BY <3>1 DEF Months
    <3>. HIDE DEF q
    <3>. QED  BY <3>1, <3>2, <3>3 DEF FromThen
  <2>. QED  BY <1>1, <2>1, <2>2
<1>. HIDE DEF r, q
<1>8. Rows' = Rows /\ invoices'[i] = r /\ \A j \in Rows : j # i => invoices'[j] = invoices[j]
  BY <1>t, <1>1, TableUpdate DEF Rows, BillingTypeOK
<1>9. RowKept(i)'
  BY <1>5, <1>6, <1>7, <1>8 DEF RowKept, q
<1>10. ASSUME NEW j \in Rows, j # i PROVE RowKept(j)'
  <2>1. RowKept(j) /\ batch.row # j /\ invoices'[j] = invoices[j]
    BY <1>i, <1>8, <1>10 DEF KeptInv
  <2>. QED  BY <1>t, <2>1, RowKeptStays
<1>11. \A m \in batch'.todo : FromThen(batch'.kept, m, counted', cut', now')
  BY <1>t, <1>2, FromThenLater DEF KeptInv, BillingTypeOK, BatchState
<1>. QED  BY <1>t, <1>2, <1>8, <1>9, <1>10, <1>11 DEF KeptInv, Later, ItemsStages

LEMMA DraftKept == ASSUME StructInv, StructInv', KeptInv, Draft PROVE KeptInv'
<1>1. /\ batch.target \in Months /\ batch.pc = "past" /\ batch.todo = {}
      /\ now' = now /\ correction' = correction /\ cut' = cut /\ counted' = counted
  BY TargetInTime DEF Draft, StructInv, inputs, history
<1>t. BillingTypeOK /\ BillingTypeOK' /\ Later
  BY <1>1, LaterSame DEF StructInv, KeptInv
<1>2. CASE /\ RowsOf(batch.target) = {}
           /\ invoices' = Append(invoices, Invoice(batch.target, "draft", 0, 0, NoItems))
           /\ batch' = [batch EXCEPT !.pc = "refresh", !.row = Len(invoices) + 1]
  <2>. DEFINE r == Invoice(batch.target, "draft", 0, 0, NoItems)
  <2>n. PICK n : n = Len(invoices) + 1
    OBVIOUS
  <2>1. r \in Row /\ r.items = NoItems /\ r.status = "draft"
    BY <1>1, InvoiceTyped, NoItemsTyped DEF Invoice
  <2>2. batch'.pc = "refresh" /\ batch'.row = n /\ batch'.todo = {}
    BY <1>1, <1>2, <2>n DEF StructInv, BillingTypeOK, BatchState
  <2>3. invoices' = Append(invoices, r)
    BY <1>2
  <2>. HIDE DEF r
  <2>4. Rows' = Rows \cup {n} /\ n \notin Rows /\ invoices'[n] = r /\ \A i \in Rows : invoices'[i] = invoices[i]
    BY <2>n, <1>t, <2>1, <2>3, TableAppend DEF Rows, BillingTypeOK
  <2>5. NoItems[Kept].quantity = 0
    BY NoItemsTyped DEF Keys
  <2>6. RowKept(n)'
    BY <2>1, <2>2, <2>4, <2>5 DEF RowKept
  <2>7. ASSUME NEW i \in Rows PROVE RowKept(i)'
    BY <1>t, <1>1, <2>4, RowKeptStays DEF KeptInv
  <2>. QED  BY <1>t, <1>1, <2>2, <2>4, <2>6, <2>7 DEF KeptInv, Later, ItemsStages
<1>3. ASSUME NEW i \in RowsOf(batch.target), UNCHANGED invoices,
             batch' = IF invoices[i].status = "draft" THEN [batch EXCEPT !.pc = "refresh", !.row = i] ELSE Idle
      PROVE  KeptInv'
  <2>1. i \in Rows /\ invoices[i].ym = batch.target /\ batch.target \in Nat /\ invoices' = invoices
    BY <1>t, <1>3, Numbers DEF RowsOf
  <2>2. invoices[i].status = "draft"
    BY <1>1, <2>1 DEF StructInv, RowsInv, InTime
  <2>3. batch'.pc = "refresh" /\ batch'.todo = batch.todo /\ batch'.kept = batch.kept
    BY <1>3, <2>2 DEF StructInv, BillingTypeOK, BatchState
  <2>. QED  BY <1>t, <1>1, <2>1, <2>3, SameTableKept DEF KeptInv, ItemsStages
<1>. QED  BY <1>2, <1>3 DEF Draft

\* The batch works on the draft, whose items stay: the mark, the sums.
LEMMA DraftRowKept ==
    ASSUME StructInv, StructInv', KeptInv, batch.row \in Rows, NEW r \in Row,
           invoices' = [invoices EXCEPT ![batch.row] = r], r.ym = invoices[batch.row].ym,
           r.status = "draft", invoices[batch.row].status = "draft", r.items = invoices[batch.row].items,
           correction' = correction, cut' = cut, counted' = counted, now' = now,
           \/ /\ batch.pc = "refresh" /\ batch'.pc = "refreshItems" /\ batch'.row = batch.row /\ batch'.todo = {}
           \/ /\ batch.pc = "mark" /\ batch'.pc = "idle" /\ batch'.todo = {}
    PROVE  KeptInv'
<1>t. BillingTypeOK /\ BillingTypeOK' /\ Later
  BY LaterSame DEF StructInv, KeptInv
<1>1. Rows' = Rows /\ invoices'[batch.row] = r /\ \A j \in Rows : j # batch.row => invoices'[j] = invoices[j]
  BY <1>t, TableUpdate DEF Rows, BillingTypeOK
<1>2. ASSUME NEW j \in Rows PROVE RowKept(j)'
  <2>1. /\ invoices'[j].ym = invoices[j].ym /\ invoices'[j].status = invoices[j].status
        /\ invoices'[j].items = invoices[j].items /\ RowKept(j)
    BY <1>1 DEF KeptInv
  <2>2. batch.pc \in {"backfillItems", "refresh", "refreshItems"} => batch'.pc = "refreshItems" /\ batch'.row = batch.row
    OBVIOUS
  <2>. QED  BY <1>t, <2>1, <2>2, RowKeptStays
<1>3. batch'.pc = "idle" => \E i \in NewestRows' : invoices'[i].status = "draft"
  <2>. SUFFICES ASSUME batch.pc = "mark" PROVE \E i \in NewestRows' : invoices'[i].status = "draft"
    OBVIOUS
  <2>1. \A j \in Rows : invoices[j].ym <= invoices[batch.row].ym
    BY DEF StructInv, BatchAt, DraftStages, RowsInv, InTime
  <2>2. \A j \in Rows : invoices'[j].ym = invoices[j].ym
    BY <1>1
  <2>3. batch.row \in NewestRows'
    BY <1>1, <2>1, <2>2 DEF NewestRows
  <2>. QED  BY <1>1, <2>3
<1>. QED  BY <1>t, <1>1, <1>2, <1>3 DEF KeptInv, Later, ItemsStages

LEMMA RefreshKept == ASSUME StructInv, StructInv', KeptInv, Refresh PROVE KeptInv'
<1>1. batch.pc = "refresh" /\ batch.row \in Rows /\ batch.target \in Months /\ invoices[batch.row].status = "draft" /\ batch.todo = {}
  BY TargetInTime DEF Refresh, StructInv, BatchAt, DraftStages
<1>2. PICK x \in Int, y \in Int, z \in Sheet :
           /\ SheetSum(z) = x
           /\ invoices' = [invoices EXCEPT ![batch.row] = [invoices[batch.row] EXCEPT !.subtotal = x, !.tax = y]]
           /\ [invoices[batch.row] EXCEPT !.subtotal = x, !.tax = y] \in Row
           /\ batch.pc = "refresh"
           /\ batch' = [batch EXCEPT !.pc = "refreshItems", !.items = z]
           /\ UNCHANGED <<inputs, correction, history>>
  BY <1>1, RefreshDoes DEF StructInv
<1>. DEFINE r == [invoices[batch.row] EXCEPT !.subtotal = x, !.tax = y]
<1>3. invoices[batch.row] \in Row
  BY <1>1, Numbers DEF StructInv
<1>4. /\ r.ym = invoices[batch.row].ym /\ r.status = "draft" /\ r.items = invoices[batch.row].items /\ r \in Row
      /\ invoices' = [invoices EXCEPT ![batch.row] = r]
  BY <1>1, <1>2, <1>3 DEF Row
<1>5. /\ batch'.pc = "refreshItems" /\ batch'.row = batch.row /\ batch'.todo = {}
      /\ correction' = correction /\ cut' = cut /\ counted' = counted /\ now' = now
  BY <1>1, <1>2 DEF StructInv, BillingTypeOK, BatchState, inputs, history
<1>. HIDE DEF r
<1>. QED  BY <1>1, <1>4, <1>5, DraftRowKept

LEMMA MarkNotifiedKept == ASSUME StructInv, StructInv', KeptInv, MarkNotified PROVE KeptInv'
<1>. DEFINE r == [invoices[batch.row] EXCEPT !.notified = TRUE]
<1>1. batch.row \in Rows /\ invoices' = [invoices EXCEPT ![batch.row] = r] /\ r \in Row
  BY MarkNotifiedDoes DEF StructInv
<1>2. invoices[batch.row].status = "draft" /\ batch.pc = "mark"
  BY DEF MarkNotified, StructInv, BatchAt, DraftStages
<1>3. invoices[batch.row] \in Row
  BY <1>1, Numbers DEF StructInv
<1>4. r.ym = invoices[batch.row].ym /\ r.status = "draft" /\ r.items = invoices[batch.row].items
  BY <1>2, <1>3 DEF Row
<1>5. /\ batch'.pc = "idle" /\ batch'.todo = {}
      /\ correction' = correction /\ cut' = cut /\ counted' = counted /\ now' = now
  BY DEF MarkNotified, Idle, inputs, history
<1>. HIDE DEF r
<1>. QED  BY <1>1, <1>2, <1>4, <1>5, DraftRowKept

\* A correction leaves the preserved count alone: its difference is zero.
LEMMA CorrectReadKept ==
    ASSUME StructInv, StructInv', KeptInv, NEW a \in Admins, NEW m \in Months, CorrectRead(a, m)
    PROVE  KeptInv'
<1>1. PICK x \in Int, y \in Int, z \in Sheet, goal \in Int :
           /\ SheetSum(z) - x + Diff(m) = 0 /\ Subtotal(m) + Tax(m) + x + y = goal
           /\ z[Kept].quantity = 0
           /\ correction[a].pc = "idle" /\ Finalized(m)
           /\ correction' = [b \in Admins |->
               IF b \in InFlight(m) THEN [correction[b] EXCEPT !.clean = FALSE]
               ELSE IF b # a \/ (x = 0 /\ y = 0) THEN correction[b]
               ELSE [pc |-> "insert", ym |-> m, subtotal |-> x, tax |-> y, items |-> z,
                     goal |-> goal, row |-> 0, clean |-> InFlight(m) = {} /\ ~ItemsPending(m)]]
           /\ UNCHANGED <<inputs, invoices, batch, history>>
  BY CorrectReadDoes DEF StructInv
<1>2. invoices' = invoices /\ batch' = batch /\ counted' = counted /\ cut' = cut /\ now' = now
  BY <1>1 DEF inputs, history
<1>3. Later
  BY <1>2, LaterSame DEF KeptInv, StructInv
<1>4. ASSUME NEW b \in Admins, correction'[b].pc # "idle" PROVE correction'[b].items[Kept].quantity = 0
  <2>1. CASE b \in InFlight(m)
    <3>1. correction[b] \in CorrectionState /\ correction[b].pc # "idle"
      BY <2>1 DEF InFlight, StructInv, BillingTypeOK
    <3>2. correction'[b] = [correction[b] EXCEPT !.clean = FALSE]
      BY <1>1, <2>1
    <3>3. correction'[b].items = correction[b].items
      BY <3>1, <3>2 DEF CorrectionState
    <3>. QED  BY <3>1, <3>3 DEF KeptInv
  <2>2. CASE b \notin InFlight(m) /\ (b # a \/ (x = 0 /\ y = 0))
    BY <1>1, <1>4, <2>2 DEF KeptInv
  <2>3. CASE b \notin InFlight(m) /\ ~(b # a \/ (x = 0 /\ y = 0))
    BY <1>1, <2>3
  <2>. QED  BY <2>1, <2>2, <2>3
<1>. QED  BY <1>2, <1>3, <1>4, SameTableKept DEF KeptInv

LEMMA CorrectInsertKept ==
    ASSUME StructInv, StructInv', KeptInv, NEW a \in Admins, CorrectInsert(a)
    PROVE  KeptInv'
<1>. DEFINE c == correction[a]
            r == Invoice(c.ym, "corrected", c.subtotal, c.tax, NoItems)
<1>n. PICK n : n = Len(invoices) + 1
  OBVIOUS
<1>1. /\ c \in CorrectionState /\ c.pc = "insert" /\ c.ym \in Months /\ r \in Row
      /\ invoices' = Append(invoices, r)
      /\ correction' = [correction EXCEPT ![a] = [c EXCEPT !.pc = "items", !.row = Len(invoices) + 1]]
  BY CorrectInsertDoes DEF StructInv
<1>2. batch' = batch /\ cut' = cut /\ counted' = counted /\ now' = now
  BY DEF CorrectInsert, inputs
<1>t. BillingTypeOK /\ BillingTypeOK' /\ Later
  BY <1>2, LaterSame DEF StructInv, KeptInv
<1>3. r.ym = c.ym /\ r.items = NoItems /\ r.status = "corrected"
  BY DEF Invoice
<1>4. \A b \in Admins : correction'[b].pc # "idle" => correction'[b].items[Kept].quantity = 0
  <2>1. ASSUME NEW b \in Admins, b # a PROVE correction'[b] = correction[b]
    BY <1>1, <1>t, <2>1 DEF BillingTypeOK
  <2>2. correction'[a].items = c.items
    BY <1>1, <1>t DEF BillingTypeOK, CorrectionState
  <2>. QED  BY <1>1, <2>1, <2>2 DEF KeptInv
<1>b. \E k \in Rows : invoices[k].ym = c.ym
  BY <1>1 DEF StructInv, CorrectionAt, FinalIn, Rows
<1>5. r \in Row /\ invoices' = Append(invoices, r)
  BY <1>1
<1>. HIDE DEF r, c
<1>6. Rows' = Rows \cup {n} /\ n \notin Rows /\ invoices'[n] = r /\ \A i \in Rows : invoices'[i] = invoices[i]
  BY <1>n, <1>t, <1>5, TableAppend DEF Rows, BillingTypeOK
<1>7. NoItems[Kept].quantity = 0
  BY NoItemsTyped DEF Keys
<1>8. RowKept(n)'
  BY <1>3, <1>6, <1>7 DEF RowKept
<1>9. ASSUME NEW i \in Rows PROVE RowKept(i)'
  BY <1>t, <1>2, <1>6, RowKeptStays DEF KeptInv
<1>10. batch.pc \in ItemsStages =>
         FromThen(batch.items[Kept].quantity, invoices'[batch.row].ym, counted, cut, now)
  BY <1>6 DEF KeptInv, StructInv, BatchAt
<1>11. batch.pc = "idle" => Rows' = {} \/ cut \cap (1..now) # {} \/ \E i \in NewestRows' : invoices'[i].status = "draft"
  <2>. SUFFICES ASSUME batch.pc = "idle", ~(cut \cap (1..now) # {})
                PROVE  \E i \in NewestRows' : invoices'[i].status = "draft"
    OBVIOUS
  <2>1. PICK i \in NewestRows : invoices[i].status = "draft"
    BY <1>b DEF KeptInv
  <2>2. i \in Rows /\ \A j \in Rows : invoices[j].ym <= invoices[i].ym
    BY <2>1 DEF NewestRows
  <2>3. \A j \in Rows' : invoices'[j].ym <= invoices'[i].ym
    BY <1>b, <1>3, <1>6, <2>2
  <2>. QED  BY <1>6, <2>1, <2>2, <2>3 DEF NewestRows
<1>. QED  BY <1>t, <1>2, <1>4, <1>6, <1>8, <1>9, <1>10, <1>11 DEF KeptInv, Later

LEMMA CorrectItemsKept ==
    ASSUME StructInv, StructInv', KeptInv, NEW a \in Admins, CorrectItems(a)
    PROVE  KeptInv'
<1>. DEFINE c == correction[a]
            r == [invoices[c.row] EXCEPT !.items = c.items]
<1>i. PICK i : i = correction[a].row
  OBVIOUS
<1>1. c \in CorrectionState /\ c.pc = "items" /\ i \in Rows /\ invoices' = [invoices EXCEPT ![i] = r] /\ r \in Row
  BY <1>i, CorrectItemsDoes DEF StructInv
<1>2. /\ batch' = batch /\ cut' = cut /\ counted' = counted /\ now' = now
      /\ correction' = [correction EXCEPT ![a] = NoCorrection]
  BY DEF CorrectItems, inputs
<1>t. BillingTypeOK /\ BillingTypeOK' /\ Later
  BY <1>2, LaterSame DEF StructInv, KeptInv
<1>3. invoices[i] \in Row /\ invoices[i].status = "corrected"
  BY <1>i, <1>t, <1>1, Numbers DEF StructInv, CorrectionAt
<1>4. r.ym = invoices[i].ym /\ r.status = "corrected" /\ r.items = c.items
  BY <1>i, <1>3 DEF Row
<1>5. c.items[Kept].quantity = 0
  BY <1>1 DEF KeptInv
<1>6. \A b \in Admins : correction'[b].pc # "idle" => correction'[b].items[Kept].quantity = 0
  BY <1>2, <1>t DEF BillingTypeOK, NoCorrection, KeptInv
<1>. HIDE DEF r, c
<1>7. Rows' = Rows /\ invoices'[i] = r /\ \A j \in Rows : j # i => invoices'[j] = invoices[j]
  BY <1>t, <1>1, TableUpdate DEF Rows, BillingTypeOK
<1>8. ASSUME NEW j \in Rows PROVE RowKept(j)'
  <2>1. CASE j = i
    BY <1>4, <1>5, <1>7, <2>1 DEF RowKept
  <2>2. CASE j # i
    <3>1. invoices'[j] = invoices[j] /\ RowKept(j)
      BY <1>7, <2>2 DEF KeptInv
    <3>. QED  BY <1>t, <1>2, <3>1, RowKeptStays
  <2>. QED  BY <2>1, <2>2
<1>9. \A j \in Rows : invoices'[j].ym = invoices[j].ym /\ invoices'[j].status = invoices[j].status
  BY <1>3, <1>4, <1>7
<1>10. NewestRows' = NewestRows
  BY <1>7, <1>9 DEF NewestRows
<1>11. batch.pc \in ItemsStages =>
         FromThen(batch.items[Kept].quantity, invoices'[batch.row].ym, counted, cut, now)
  BY <1>9 DEF KeptInv, StructInv, BatchAt
<1>12. \A j \in NewestRows : invoices'[j].status = invoices[j].status
  BY <1>9 DEF NewestRows
<1>. QED  BY <1>t, <1>2, <1>6, <1>7, <1>8, <1>10, <1>11, <1>12 DEF KeptInv, Later

\* A batch cut off leaves its months in cut.
LEMMA InterruptKept == ASSUME StructInv, StructInv', KeptInv, NEW S, Interrupt(S) PROVE KeptInv'
<1>1. /\ invoices' = invoices /\ counted' = counted /\ now' = now
      /\ correction' = [a \in Admins |-> IF a \in S THEN NoCorrection ELSE correction[a]]
      /\ "batch" \in S => batch.pc # "idle"
      /\ cut' = IF "batch" \in S /\ batch.pc # "idle"
                THEN cut \cup {batch.target} \cup {m \in Months : ItemsPending(m)} ELSE cut
      /\ batch' = IF "batch" \in S THEN Idle ELSE batch
  BY DEF Interrupt, inputs
<1>2. cut \subseteq cut' /\ Later
  BY <1>1, LaterSame DEF KeptInv, StructInv
<1>3. \A a \in Admins : correction'[a].pc # "idle" => correction'[a].items[Kept].quantity = 0
  BY <1>1 DEF KeptInv, NoCorrection
<1>4. CASE "batch" \in S
  <2>1. batch.target \in cut' /\ batch.target \in 1..now'
    BY <1>1, <1>4 DEF StructInv, BatchAt
  <2>2. batch'.pc = "idle" /\ batch'.todo = {}
    BY <1>1, <1>4 DEF Idle
  <2>. QED  BY <1>1, <1>2, <1>3, <2>1, <2>2, SameTableKept DEF ItemsStages
<1>5. CASE "batch" \notin S
  <2>1. batch' = batch
    BY <1>1, <1>5
  <2>. QED  BY <1>1, <1>2, <1>3, <2>1, SameTableKept
<1>. QED  BY <1>4, <1>5

LEMMA KeptInit == Init => KeptInv
<1>. SUFFICES ASSUME Init PROVE KeptInv
  OBVIOUS
<1>1. /\ invoices = <<>> /\ batch = Idle /\ correction = [a \in Admins |-> NoCorrection]
      /\ counted = [m \in Months |-> {}]
  BY DEF Init
<1>2. Rows = {}
  BY <1>1 DEF Rows
<1>. QED  BY <1>1, <1>2 DEF KeptInv, Idle, NoCorrection, ItemsStages

\* All of them together.
LEMMA KeptNext == StructInv /\ KeptInv /\ [Next]_vars => KeptInv'
<1>. SUFFICES ASSUME StructInv, KeptInv, [Next]_vars PROVE KeptInv'
  OBVIOUS
<1>s. StructInv'
  BY StructNext
<1>1. CASE UNCHANGED vars
  <2>1. /\ invoices' = invoices /\ batch' = batch /\ correction' = correction
        /\ counted' = counted /\ cut' = cut /\ now' = now
    BY <1>1 DEF vars, history, inputs
  <2>2. Later
    BY <2>1, LaterSame DEF KeptInv, StructInv
  <2>. QED  BY <1>s, <2>1, <2>2, SameTableKept DEF KeptInv
<1>2. CASE Outside
  BY <1>2, <1>s, OutsideKept
<1>3. CASE Batch
  BY <1>3, <1>s, StartKept, BackfillKept, FinalizeKept, ReplaceItemsKept, DraftKept, RefreshKept, NotifyKept,
     MarkNotifiedKept DEF Batch
<1>4. ASSUME NEW a \in Admins, (\E m \in Months : CorrectRead(a, m)) \/ CorrectInsert(a) \/ CorrectItems(a)
      PROVE  KeptInv'
  BY <1>4, <1>s, CorrectReadKept, CorrectInsertKept, CorrectItemsKept
<1>5. ASSUME NEW S, Interrupt(S) PROVE KeptInv'
  BY <1>5, <1>s, InterruptKept
<1>. QED  BY <1>1, <1>2, <1>3, <1>4, <1>5 DEF Next

-----------------------------------------------------------------------------
(* Theorems.                                                               *)

\* What the rows, the batch and the corrections of every reachable state satisfy.
BillingInv == StructInv /\ MoneyInv /\ MailInv /\ KeptInv

\* The four parts together are an invariant of the specification.
LEMMA InvariantHolds == Spec => []BillingInv
<1>1. Init => BillingInv
  BY StructInit, MoneyInit, MailInit, KeptInit DEF BillingInv
<1>2. BillingInv /\ [Next]_vars => BillingInv'
  BY StructNext, MoneyNext, MailNext, KeptNext DEF BillingInv
<1>. QED  BY <1>1, <1>2, PTL DEF Spec

\* A settled month has final rows only and no items are due.
LEMMA SettledMonth ==
    ASSUME NEW m, Settled(m)
    PROVE  FinalMonth(invoices, m) /\ ~Due(m) /\ Gap(m) = 0
<1>1. FinalMonth(invoices, m)
  BY DEF Settled, RowsOf, Rows, FinalMonth
<1>2. ~Due(m)
  BY DEF Settled, InFlight, Due
<1>3. Gap(m) = 0
  BY DEF Settled, Gap
<1>. QED  BY <1>1, <1>2, <1>3

\* The parts imply the properties.
LEMMA MoneyAddsUp == BillingInv => ItemsAddUp /\ TotalsAgree
<1>. SUFFICES ASSUME BillingInv PROVE ItemsAddUp /\ TotalsAgree
  OBVIOUS
<1>1. ASSUME NEW m \in Months, Settled(m), m \notin torn
      PROVE  Amount(m, Flow) + Amount(m, Kept) + Amount(m, Live) = Subtotal(m)
  <2>. DEFINE s == Amount(m, Flow) + Amount(m, Kept) + Amount(m, Live)
              t == Subtotal(m)
  <2>1. s \in Int /\ t \in Int
    BY MonthTotalsTyped DEF BillingInv, StructInv, Keys
  <2>2. Diff(m) = 0
    BY <1>1, SettledMonth, DiffIs DEF BillingInv, MoneyInv, MonthMoney, StructInv
  <2>3. s - t = 0
    BY <2>2 DEF Diff
  <2>. HIDE DEF s, t
  <2>4. s = t
    BY <2>1, <2>3
  <2>. QED  BY <2>4 DEF s, t
<1>2. ASSUME NEW m \in Months, Settled(m), m \notin clashed
      PROVE  Subtotal(m) + Tax(m) = agreed[m]
  BY <1>2, SettledMonth, DiffIs DEF BillingInv, MoneyInv, MonthMoney, StructInv
<1>. QED  BY <1>1, <1>2 DEF ItemsAddUp, TotalsAgree

\* A settled month has one row that is not a correction; the others count zero devices.
LEMMA KeptFromThen == BillingInv => ProvisionableFromThen
<1>. SUFFICES ASSUME BillingInv, NEW m \in Months, Settled(m), m < now
              PROVE  FromThen(Quantity(m, Kept), m, counted, cut, now)
  BY DEF ProvisionableFromThen, FromThen
<1>s. StructInv /\ BillingTypeOK /\ KeptInv
  BY DEF BillingInv, StructInv
<1>1. PICK i \in Rows : invoices[i].ym = m /\ invoices[i].status = "finalized"
  <2>1. PICK j \in Rows : invoices[j].ym = m /\ invoices[j].status # "draft" /\ invoices[j] \in Row
    BY <1>s, Numbers DEF Settled, RowsOf
  <2>2. CASE invoices[j].status = "corrected"
    BY <1>s, <2>1, <2>2 DEF StructInv, RowsInv, CorrectedHasBase, FinalIn, Rows
  <2>3. CASE invoices[j].status # "corrected"
    BY <2>1, <2>3 DEF Row
  <2>. QED  BY <2>2, <2>3
<1>2. ASSUME NEW j \in Rows, invoices[j].ym = m, j # i PROVE invoices[j].items[Kept].quantity = 0
  <2>1. invoices[j].status = "corrected"
    BY <1>s, <1>1, <1>2 DEF StructInv, RowsInv, OneBase
  <2>. QED  BY <1>s, <2>1 DEF KeptInv, RowKept
<1>3. Quantity(m, Kept) = invoices[i].items[Kept].quantity
  <2>1. QuantityIn(invoices, m, Kept) = invoices[i].items[Kept].quantity
    BY <1>s, <1>1, <1>2, QuantityOne DEF BillingTypeOK, Rows, Keys
  <2>. QED  BY <2>1, TotalsIn
<1>4. ~(batch.row = i /\ batch.pc \in {"backfillItems", "refresh", "refreshItems"})
  <2>1. ~(batch.row = i /\ batch.pc = "backfillItems")
    BY <1>1 DEF Settled, ItemsPending
  <2>2. ~(batch.row = i /\ batch.pc \in {"refresh", "refreshItems"})
    BY <1>s, <1>1 DEF StructInv, BatchAt, DraftStages
  <2>. QED  BY <2>1, <2>2
<1>. QED  BY <1>s, <1>1, <1>3, <1>4 DEF KeptInv, RowKept

\* RowsStay in the words of FinalRowsStay.
LEMMA RowsDoStay ==
    ASSUME BillingInv, [Next]_vars, NEW i \in Rows, invoices[i].status # "draft"
    PROVE  /\ i \in DOMAIN invoices'
           /\ [invoices'[i] EXCEPT !.items = NoItems] = [invoices[i] EXCEPT !.items = NoItems]
           /\ invoices'[i].items # invoices[i].items =>
                \/ batch.row = i /\ batch.pc \in {"backfillItems", "finalizeItems"}
                \/ \E a \in Admins : correction[a].row = i
<1>1. RowStays(i) /\ StructInv
  BY RowsStay DEF BillingInv
<1>2. invoices[i] \in Row /\ i \in Rows' /\ StructInv'
  BY <1>1, Numbers, StructNext DEF StructInv, RowStays
<1>3. invoices'[i] \in Row
  BY <1>2 DEF StructInv, BillingTypeOK, Rows
<1>4. [invoices'[i] EXCEPT !.items = NoItems] = [invoices[i] EXCEPT !.items = NoItems]
  BY <1>1, <1>2, <1>3 DEF RowStays, Row
<1>. QED  BY <1>1, <1>2, <1>4 DEF RowStays, Rows

-----------------------------------------------------------------------------
\* Type correctness of the invoices, the batch and the corrections.
THEOREM BillingTyped == Spec => []BillingTypeOK
<1>1. BillingInv => BillingTypeOK
  BY DEF BillingInv, StructInv
<1>. QED  BY <1>1, InvariantHolds, PTL

\* The items of a settled month add up to its subtotal: two commits write them
\* (billing_batch.py:135, :185), and only a writer cut off between the two, or an
\* overlapping one, may leave them apart.
THEOREM PaidForWhatIsListed == Spec => []ItemsAddUp
BY InvariantHolds, MoneyAddsUp, PTL

\* After any number of corrections a settled month adds up to what was computed
\* last (billing_batch.py:103), unless two corrections of the month overlapped.
THEOREM CorrectionsAgree == Spec => []TotalsAgree
BY InvariantHolds, MoneyAddsUp, PTL

\* A past month is charged for a number of devices counted by then, however often
\* and late it is backfilled, finalized or corrected (billing_batch.py:36, :154).
THEOREM NeverTodaysCount == Spec => []ProvisionableFromThen
BY InvariantHolds, KeptFromThen, PTL

\* At most one mail a month tells that the threshold is exceeded (bill_shock.py:43).
THEOREM ToldOnce == Spec => []OneMailPerMonth
<1>1. BillingInv => OneMailPerMonth
  <2>. SUFFICES ASSUME BillingInv, NEW m \in Months PROVE mails[m] <= 1
    BY DEF OneMailPerMonth
  <2>1. mails[m] \in Int
    BY DEF BillingInv, StructInv, BillingTypeOK
  <2>2. mails[m] >= 1 => mails[m] = 1
    BY DEF BillingInv, MailInv
  <2>. QED  BY <2>1, <2>2
<1>. QED  BY <1>1, InvariantHolds, PTL

\* No step changes or removes a row that is final; its items are written once by
\* the one that made it final (billing_batch.py:85).
THEOREM FinalRowsAreKept == Spec => FinalRowsStay
<1>. DEFINE Stay == \A i \in Rows : invoices[i].status # "draft" =>
    /\ i \in DOMAIN invoices'
    /\ [invoices'[i] EXCEPT !.items = NoItems] = [invoices[i] EXCEPT !.items = NoItems]
    /\ invoices'[i].items # invoices[i].items =>
         \/ batch.row = i /\ batch.pc \in {"backfillItems", "finalizeItems"}
         \/ \E a \in Admins : correction[a].row = i
<1>1. BillingInv /\ [Next]_vars => [Stay]_vars
  BY RowsDoStay
<1>2. Spec => [][Next]_vars
  BY PTL DEF Spec
<1>. QED  BY <1>1, <1>2, InvariantHolds, PTL DEF FinalRowsStay
=============================================================================
