------------------------------ MODULE TriggerProofs ----------------------------
(***************************************************************************)
(* TriggerEval for all devices, names, rules, readings and clock steps: a  *)
(* rule that fires has a culprit in its own target, and for a device whose *)
(* readings are in one table, "consecutive" asks for its newest readings,  *)
(* a duration for those of its minutes if they are a minute apart, and     *)
(* readings that grow old fire nothing.  The invariant is that every       *)
(* table is newest first and that no two readings of a device are of one   *)
(* time; from it the window of the query is a first part of each table.    *)
(***************************************************************************)
EXTENDS TriggerEval, FiniteSetTheorems, SequenceTheorems, WellFoundedInduction, TLAPS

-----------------------------------------------------------------------------
(* Numbers. *)

\* The least element of a set of numbers, and with it induction as a fact about sets.
LEMMA Least ==
    ASSUME NEW S \in SUBSET Nat, S # {}
    PROVE  \E m \in S : \A n \in S : m <= n
<1>1. IsWellFoundedOn(OpToRel(<, Nat), Nat)
  BY NatLessThanWellFounded
<1>2. PICK m \in S : \A n \in S : <<n, m>> \notin OpToRel(<, Nat)
  BY <1>1, WFMin, Zenon
<1>3. \A n \in S : ~(n < m)
  BY <1>2 DEF OpToRel
<1>. QED  BY <1>3

LEMMA AllNumbers ==
    ASSUME NEW S \in SUBSET Nat, 0 \in S, \A n \in S : n + 1 \in S
    PROVE  S = Nat
<1>. SUFFICES ASSUME Nat \ S # {} PROVE FALSE
  OBVIOUS
<1>1. PICK m \in Nat \ S : \A n \in Nat \ S : m <= n
  BY Least
<1>2. m # 0 /\ m - 1 \in Nat /\ (m - 1) + 1 = m
  BY <1>1
<1>3. m - 1 \in S
  BY <1>1, <1>2
<1>. QED  BY <1>1, <1>2, <1>3

\* Places that come with every place before them are the first ones.
LEMMA FirstOnes ==
    ASSUME NEW n \in Nat, NEW K \in SUBSET (1..n), \A i, j \in 1..n : i < j /\ j \in K => i \in K
    PROVE  \E k \in 0..n : K = 1..k
<1>. DEFINE S == {j \in Nat : j + 1 \notin K}
<1>1. n \in S
  OBVIOUS
<1>2. S \in SUBSET Nat /\ S # {}
  BY <1>1
<1>3. PICK k \in S : \A j \in S : k <= j
  BY <1>2, Least
<1>4. k \in 0..n /\ k + 1 \notin K
  BY <1>1, <1>3
<1>5. ASSUME NEW i \in 1..k PROVE i \in K
  <2>1. i - 1 \in Nat /\ ~(k <= i - 1)
    BY <1>4
  <2>2. i - 1 \notin S
    BY <1>3, <2>1
  <2>3. (i - 1) + 1 \in K /\ (i - 1) + 1 = i
    BY <2>1, <2>2
  <2>. QED  BY <2>3
<1>6. ASSUME NEW i \in K PROVE i \in 1..k
  <2>1. i \in 1..n
    OBVIOUS
  <2>2. CASE i > k
    <3>1. i = k + 1 \/ k + 1 < i
      BY <1>4, <2>1, <2>2
    <3>2. k + 1 \in 1..n
      BY <1>4, <2>1, <2>2
    <3>. QED  BY <1>4, <1>6, <2>1, <3>1, <3>2
  <2>. QED  BY <1>4, <2>1, <2>2
<1>. QED  BY <1>4, <1>5, <1>6

-----------------------------------------------------------------------------
(* The invariant: a table is newest first, and no two readings of a device are of one time. *)

Reading == [value : Values, age : Nat]
Sorted(s) == \A i, j \in DOMAIN s : i < j => s[i].age < s[j].age
TriggerTypes ==
    /\ trigger \in Triggers /\ members \in SUBSET Reporters /\ label \in [Reporters -> Names]
    /\ series \in [Reporters -> [Names -> Seq(Reading)]]
NewestFirst == \A d \in Reporters, n \in Names : Sorted(series[d][n])
Apart == \A d \in Reporters, n, m \in Names : n # m =>
            \A i \in DOMAIN series[d][n], j \in DOMAIN series[d][m] : series[d][n][i].age # series[d][m][j].age
TriggerInv == TriggerTypes /\ NewestFirst /\ Apart

LEMMA TriggerInvInit == TriggerInit => TriggerInv
<1>. SUFFICES ASSUME TriggerInit PROVE TriggerInv
  OBVIOUS
<1>1. Labels[1] \in Names
  BY TriggerConstants DEF Names, ToSet
<1>2. \A d \in Reporters, n \in Names : series[d][n] = <<>> /\ DOMAIN series[d][n] = {}
  BY DEF TriggerInit
<1>3. TriggerTypes
  BY <1>1 DEF TriggerInit, TriggerTypes
<1>. QED  BY <1>2, <1>3 DEF TriggerInv, NewestFirst, Apart, Sorted

LEMMA ReadingIs ==
    ASSUME NEW s \in Seq(Reading), NEW i \in DOMAIN s PROVE s[i] \in Reading /\ s[i].age \in Nat
<1>1. s[i] \in Reading
  OBVIOUS
<1>. QED  BY <1>1 DEF Reading

\* What a reading more does to a table.
Past(s) == \A i \in DOMAIN s : s[i].age > 0
Grown(s, t) == \A i \in DOMAIN t : t[i].age = 0 \/ \E j \in DOMAIN s : t[i] = s[j]
LEMMA Longer ==
    ASSUME NEW s \in Seq(Reading), Sorted(s), Past(s),
           NEW x \in Reading, x.age = 0, NEW u \in Seq(Reading), Len(u) = 1, u[1] = x, NEW t, t = u \o s
    PROVE  t \in Seq(Reading) /\ Sorted(t) /\ Grown(s, t)
<1>4. /\ u \o s \in Seq(Reading) /\ Len(u \o s) = Len(u) + Len(s)
      /\ \A i \in 1..(Len(u) + Len(s)) : (u \o s)[i] = IF i <= Len(u) THEN u[i] ELSE s[i - Len(u)]
  BY ConcatProperties
<1>5. t = u \o s
  OBVIOUS
<1>6. DOMAIN t = 1..(Len(s) + 1) /\ Len(s) \in Nat /\ DOMAIN s = 1..Len(s) /\ t \in Seq(Reading)
  BY <1>4, <1>5
<1>7. \A i \in 1..(Len(s) + 1) : t[i] = IF i = 1 THEN x ELSE s[i - 1]
  BY <1>4, <1>5, <1>6
<1>8. \A i \in DOMAIN s : s[i].age \in Nat
  BY ReadingIs
<1>9. ASSUME NEW i \in DOMAIN t, NEW j \in DOMAIN t, i < j PROVE t[i].age < t[j].age
  <2>1. j - 1 \in DOMAIN s /\ t[j] = s[j - 1] /\ j \in Int /\ i \in Int
    BY <1>6, <1>7, <1>9
  <2>2. CASE i = 1
    BY <1>6, <1>7, <1>8, <2>1, <2>2 DEF Past
  <2>3. CASE i # 1
    <3>1. i - 1 \in DOMAIN s /\ t[i] = s[i - 1] /\ i - 1 < j - 1
      BY <1>6, <1>7, <1>9, <2>1, <2>3
    <3>. QED  BY <2>1, <3>1 DEF Sorted
  <2>. QED  BY <2>2, <2>3
<1>10. ASSUME NEW i \in DOMAIN t PROVE t[i].age = 0 \/ \E j \in DOMAIN s : t[i] = s[j]
  <2>1. CASE i = 1
    BY <1>6, <1>7, <2>1
  <2>2. CASE i # 1
    <3>1. i - 1 \in DOMAIN s /\ t[i] = s[i - 1]
      BY <1>6, <1>7, <2>2
    <3>. QED  BY <3>1
  <2>. QED  BY <2>1, <2>2
<1>. QED  BY <1>6, <1>9, <1>10 DEF Sorted, Grown

\* The table as it is one step of the clock later.
LEMMA Aged ==
    ASSUME NEW s \in Seq(Reading), Sorted(s), NEW h \in Nat, NEW t,
           t = [i \in {j \in DOMAIN s : s[j].age < h} |-> [s[i] EXCEPT !.age = @ + 1]]
    PROVE  /\ t \in Seq(Reading) /\ Sorted(t) /\ DOMAIN t \subseteq DOMAIN s
           /\ \A i \in DOMAIN t : t[i].value = s[i].value /\ t[i].age = s[i].age + 1
<1>1. DOMAIN s = 1..Len(s) /\ Len(s) \in Nat /\ \A i \in DOMAIN s : s[i] \in Reading /\ s[i].age \in Nat
  BY ReadingIs
<1>2. PICK K : K = {j \in DOMAIN s : s[j].age < h}
  OBVIOUS
<1>3. \A i, j \in 1..Len(s) : i < j /\ j \in K => i \in K
  BY <1>1, <1>2 DEF Sorted
<1>4. PICK k \in 0..Len(s) : K = 1..k
  <2>1. K \in SUBSET (1..Len(s))
    BY <1>1, <1>2
  <2>. QED  BY <1>1, <1>3, <2>1, FirstOnes
<1>5. DOMAIN t = 1..k /\ k \in Nat /\ \A i \in 1..k : i \in DOMAIN s /\ t[i] = [s[i] EXCEPT !.age = s[i].age + 1]
  <2>1. t = [i \in K |-> [s[i] EXCEPT !.age = s[i].age + 1]]
    BY <1>2
  <2>2. DOMAIN t = K /\ \A i \in K : t[i] = [s[i] EXCEPT !.age = s[i].age + 1]
    BY <2>1, Zenon
  <2>3. k \in Nat /\ \A i \in 1..k : i \in DOMAIN s
    BY <1>1, <1>4
  <2>. QED  BY <1>4, <2>2, <2>3
<1>6. \A i \in 1..k : t[i] \in Reading /\ t[i].value = s[i].value /\ t[i].age = s[i].age + 1
  <2>. TAKE i \in 1..k
  <2>1. s[i] \in Reading /\ t[i] = [s[i] EXCEPT !.age = s[i].age + 1]
    BY <1>1, <1>5
  <2>2. PICK r, v : r = s[i] /\ v = t[i]
    OBVIOUS
  <2>3. r \in Reading /\ v = [r EXCEPT !.age = r.age + 1]
    BY <2>1, <2>2
  <2>4. v \in Reading /\ v.value = r.value /\ v.age = r.age + 1
    <3>1. r.age \in Nat /\ r.value \in Values
      BY <2>3 DEF Reading
    <3>2. DOMAIN r = {"value", "age"}
      BY <2>3 DEF Reading
    <3>3. v.value = r.value /\ v.age = r.age + 1 /\ v = [value |-> r.value, age |-> r.age + 1]
      BY <2>3, <3>2 DEF Reading
    <3>. QED  BY <3>1, <3>3 DEF Reading
  <2>. QED  BY <2>2, <2>4
<1>7. t \in Seq(Reading)
  <2>1. t = [i \in 1..k |-> t[i]]
    BY <1>2, <1>4
  <2>2. t \in [1..k -> Reading]
    BY <1>6, <2>1
  <2>3. k \in Nat
    BY <1>5
  <2>. QED  BY <2>2, <2>3, SeqDef
<1>8. Sorted(t)
  BY <1>1, <1>5, <1>6 DEF Sorted
<1>. QED  BY <1>5, <1>6, <1>7, <1>8

LEMMA WriteKeeps ==
    ASSUME TriggerInv, NEW d \in Reporters, NEW v \in Values, WriteTelemetry(d, v) PROVE TriggerInv'
<1>1. PICK q, l, x, t :
         /\ q = series /\ l = label[d] /\ x = [value |-> v, age |-> 0] /\ t = <<x>> \o q[d][l]
  OBVIOUS
<1>2. q \in [Reporters -> [Names -> Seq(Reading)]] /\ l \in Names /\ x \in Reading /\ x.age = 0
  BY <1>1 DEF TriggerInv, TriggerTypes, Reading
<1>3. series' = [q EXCEPT ![d][l] = t]
  BY <1>1 DEF WriteTelemetry
<1>4. \A n \in Names : \A i \in DOMAIN q[d][n] : q[d][n][i].age > 0
  BY <1>1 DEF WriteTelemetry
<1>5. /\ t \in Seq(Reading) /\ Sorted(t)
      /\ \A i \in DOMAIN t : t[i].age = 0 \/ \E j \in DOMAIN q[d][l] : t[i] = q[d][l][j]
  <2>1. PICK s : s = q[d][l]
    OBVIOUS
  <2>2. s \in Seq(Reading) /\ Sorted(s) /\ Past(s)
    BY <1>1, <1>2, <1>4, <2>1 DEF TriggerInv, NewestFirst, Past
  <2>3. PICK u : u = <<x>> /\ t = u \o s
    BY <1>1, <2>1
  <2>5. u \in Seq(Reading) /\ Len(u) = 1 /\ u[1] = x
    BY <1>2, <2>3
  <2>6. x \in Reading /\ x.age = 0 /\ t = u \o s
    BY <1>2, <2>3
  <2>4. t \in Seq(Reading) /\ Sorted(t) /\ Grown(s, t)
    BY <2>2, <2>5, <2>6, Longer
  <2>. QED  BY <2>1, <2>4 DEF Grown
<1>6. PICK q1 : q1 = series'
  OBVIOUS
<1>7. /\ q1 \in [Reporters -> [Names -> Seq(Reading)]] /\ q1[d][l] = t
      /\ \A e \in Reporters, n \in Names : e # d \/ n # l => q1[e][n] = q[e][n]
  BY <1>2, <1>3, <1>5, <1>6
<1>8. \A e \in Reporters, n \in Names : Sorted(q1[e][n])
  BY <1>1, <1>5, <1>7 DEF TriggerInv, NewestFirst
<1>9. ASSUME NEW e \in Reporters, NEW n \in Names, NEW m \in Names, n # m,
             NEW i \in DOMAIN q1[e][n], NEW j \in DOMAIN q1[e][m]
      PROVE  q1[e][n][i].age # q1[e][m][j].age
  <2>1. \A k \in DOMAIN q[e][n], h \in DOMAIN q[e][m] : q[e][n][k].age # q[e][m][h].age
    BY <1>1, <1>9 DEF TriggerInv, Apart
  <2>2. CASE e = d /\ n = l
    <3>1. q1[e][n] = t /\ q1[e][m] = q[e][m] /\ q[e][m][j].age > 0
      BY <1>4, <1>7, <1>9, <2>2
    <3>. QED  BY <1>5, <2>1, <2>2, <3>1
  <2>3. CASE e = d /\ m = l
    <3>1. q1[e][m] = t /\ q1[e][n] = q[e][n] /\ q[e][n][i].age > 0
      BY <1>4, <1>7, <1>9, <2>3
    <3>. QED  BY <1>5, <2>1, <2>3, <3>1
  <2>4. CASE e # d \/ (n # l /\ m # l)
    <3>1. q1[e][n] = q[e][n] /\ q1[e][m] = q[e][m]
      BY <1>7, <2>4
    <3>. QED  BY <1>9, <2>1, <3>1
  <2>. QED  BY <2>2, <2>3, <2>4
<1>10. UNCHANGED <<trigger, members, label>>
  BY DEF WriteTelemetry
<1>11. TriggerTypes'
  BY <1>6, <1>7, <1>10 DEF TriggerInv, TriggerTypes
<1>12. NewestFirst'
  BY <1>6, <1>8 DEF NewestFirst
<1>13. Apart'
  BY <1>6, <1>9 DEF Apart
<1>. QED  BY <1>11, <1>12, <1>13 DEF TriggerInv

\* A step of the clock: every table keeps its first readings, a step older.
LEMMA PassIs ==
    ASSUME TriggerInv, Pass, NEW d \in Reporters, NEW n \in Names
    PROVE  /\ series'[d][n] \in Seq(Reading) /\ Sorted(series'[d][n]) /\ DOMAIN series'[d][n] \subseteq DOMAIN series[d][n]
           /\ \A i \in DOMAIN series'[d][n] : /\ series'[d][n][i].value = series[d][n][i].value
                                              /\ series'[d][n][i].age = series[d][n][i].age + 1
<1>1. PICK s, t : s = series[d][n] /\ t = series'[d][n]
  OBVIOUS
<1>2. s \in Seq(Reading) /\ Sorted(s)
  BY <1>1 DEF TriggerInv, TriggerTypes, NewestFirst
<1>3. PICK h \in Nat : t = [i \in {j \in DOMAIN s : s[j].age < h} |-> [s[i] EXCEPT !.age = @ + 1]]
  <2>1. Horizon[trigger] \in Nat
    BY TriggerConstants DEF TriggerInv, TriggerTypes
  <2>2. t = [i \in {j \in DOMAIN s : s[j].age < Horizon[trigger]} |-> [s[i] EXCEPT !.age = @ + 1]]
    BY <1>1 DEF Pass
  <2>. QED  BY <2>1, <2>2
<1>4. /\ t \in Seq(Reading) /\ Sorted(t) /\ DOMAIN t \subseteq DOMAIN s
      /\ \A i \in DOMAIN t : t[i].value = s[i].value /\ t[i].age = s[i].age + 1
  BY <1>2, <1>3, Aged
<1>. QED  BY <1>1, <1>4

LEMMA PassKeeps == ASSUME TriggerInv, Pass PROVE TriggerInv'
<1>1. PICK q, q1 : q = series /\ q1 = series'
  OBVIOUS
<1>2. \A d \in Reporters, n \in Names :
        /\ q1[d][n] \in Seq(Reading) /\ Sorted(q1[d][n]) /\ DOMAIN q1[d][n] \subseteq DOMAIN q[d][n]
        /\ \A i \in DOMAIN q1[d][n] : q1[d][n][i].age = q[d][n][i].age + 1
  BY <1>1, PassIs
<1>3. q1 \in [Reporters -> [Names -> Seq(Reading)]]
  <2>1. /\ DOMAIN q1 = Reporters /\ q1 = [d \in Reporters |-> q1[d]]
        /\ \A d \in Reporters : DOMAIN q1[d] = Names /\ q1[d] = [n \in Names |-> q1[d][n]]
    BY <1>1 DEF Pass
  <2>. HIDE <1>1
  <2>2. \A d \in Reporters : q1[d] \in [Names -> Seq(Reading)]
    BY <1>2, <2>1
  <2>. QED  BY <2>1, <2>2
<1>4. ASSUME NEW d \in Reporters, NEW n \in Names, NEW m \in Names, n # m,
             NEW i \in DOMAIN q1[d][n], NEW j \in DOMAIN q1[d][m]
      PROVE  q1[d][n][i].age # q1[d][m][j].age
  <2>1. i \in DOMAIN q[d][n] /\ j \in DOMAIN q[d][m] /\ q[d][n][i].age # q[d][m][j].age
    BY <1>1, <1>2, <1>4 DEF TriggerInv, Apart
  <2>2. q[d][n] \in Seq(Reading) /\ q[d][m] \in Seq(Reading)
    BY <1>1 DEF TriggerInv, TriggerTypes
  <2>3. q[d][n][i].age \in Nat /\ q[d][m][j].age \in Nat
    BY <2>1, <2>2, ReadingIs
  <2>4. q1[d][n][i].age = q[d][n][i].age + 1 /\ q1[d][m][j].age = q[d][m][j].age + 1
    BY <1>2
  <2>5. PICK a, b : a = q[d][n][i].age /\ b = q[d][m][j].age
    OBVIOUS
  <2>6. a \in Nat /\ b \in Nat /\ a # b
    BY <2>1, <2>3, <2>5
  <2>7. a + 1 # b + 1
    BY <2>6
  <2>. QED  BY <2>4, <2>5, <2>7
<1>5. UNCHANGED <<trigger, members, label>>
  BY DEF Pass
<1>6. TriggerTypes'
  BY <1>1, <1>3, <1>5 DEF TriggerInv, TriggerTypes
<1>7. NewestFirst'
  BY <1>1, <1>2 DEF NewestFirst
<1>8. Apart'
  BY <1>1, <1>4 DEF Apart
<1>. QED  BY <1>6, <1>7, <1>8 DEF TriggerInv

LEMMA TriggerInvNext == TriggerInv /\ [TriggerNext]_triggerVars => TriggerInv'
<1>. SUFFICES ASSUME TriggerInv, [TriggerNext]_triggerVars PROVE TriggerInv'
  OBVIOUS
<1>1. ASSUME NEW d \in Reporters, NEW n \in Names, Rename(d, n) PROVE TriggerInv'
  BY <1>1 DEF Rename, TriggerInv, TriggerTypes, NewestFirst, Apart
<1>2. ASSUME NEW d \in Reporters, AssignGroup(d) PROVE TriggerInv'
  BY <1>2 DEF AssignGroup, TriggerInv, TriggerTypes, NewestFirst, Apart
<1>3. CASE UNCHANGED triggerVars
  BY <1>3 DEF triggerVars, TriggerInv, TriggerTypes, NewestFirst, Apart
<1>. QED  BY <1>1, <1>2, <1>3, WriteKeeps, PassKeeps DEF TriggerNext

-----------------------------------------------------------------------------
(* What the query returns. *)

LEMMA Times ==
    ASSUME NEW a \in Nat, NEW b \in Nat, a < b, NEW t \in Nat
    PROVE  a * t <= b * t /\ a * t \in Int /\ b * t \in Int
<1>1. a * t \in Int /\ b * t \in Int /\ (b - a) * t \in Nat
  BY SMT
<1>2. b * t = a * t + (b - a) * t
  BY SMT
<1>. QED  BY <1>1, <1>2

\* The window of a table holds its first readings.
IsWindow(w, s, r) ==
    /\ w \in Seq(Reading) /\ \E k \in 0..Len(s) : DOMAIN w = 1..k
    /\ \A j : j \in DOMAIN w <=> j \in DOMAIN s /\ s[j].age * Pace[r] <= Window(r)
    /\ \A j \in DOMAIN w : w[j] = s[j]
LEMMA WindowIs ==
    ASSUME NEW s \in Seq(Reading), Sorted(s), NEW r \in Triggers, NEW w, w = InWindow(s, r)
    PROVE  IsWindow(w, s, r)
<1>1. DOMAIN s = 1..Len(s) /\ Len(s) \in Nat /\ \A i \in DOMAIN s : s[i] \in Reading /\ s[i].age \in Nat
  BY ReadingIs
<1>2. Pace[r] \in Nat
  BY TriggerConstants
<1>3. Window(r) \in Int
  <2>1. r.duration \in Nat /\ r.count \in Nat
    BY TriggerConstants DEF Trigger
  <2>. QED  BY <2>1 DEF Window
<1>4. PICK W : W = Window(r)
  OBVIOUS
<1>5. PICK K : K = {i \in DOMAIN s : s[i].age * Pace[r] <= W}
  OBVIOUS
<1>6. ASSUME NEW i \in 1..Len(s), NEW j \in 1..Len(s), i < j, j \in K PROVE i \in K
  <2>1. PICK a, b : a = s[i].age /\ b = s[j].age /\ a \in Nat /\ b \in Nat /\ a < b
    BY <1>1, <1>6 DEF Sorted
  <2>2. b * Pace[r] <= W /\ W \in Int
    BY <1>3, <1>4, <1>5, <1>6, <2>1
  <2>3. a * Pace[r] <= b * Pace[r] /\ a * Pace[r] \in Int /\ b * Pace[r] \in Int
    BY <1>2, <2>1, Times
  <2>4. a * Pace[r] <= W
    BY <2>2, <2>3
  <2>. QED  BY <1>1, <1>5, <1>6, <2>1, <2>4
<1>7. PICK k \in 0..Len(s) : K = 1..k
  <2>1. K \in SUBSET (1..Len(s))
    BY <1>1, <1>5
  <2>. QED  BY <1>1, <1>6, <2>1, FirstOnes
<1>8. w = [i \in K |-> s[i]]
  BY <1>4, <1>5 DEF InWindow, Restrict
<1>9. DOMAIN w = K /\ \A i \in K : w[i] = s[i] /\ w[i] \in Reading
  BY <1>1, <1>5, <1>8
<1>10. w \in Seq(Reading)
  <2>1. w \in [1..k -> Reading] /\ k \in Nat
    BY <1>7, <1>8, <1>9
  <2>. QED  BY <2>1, SeqDef
<1>. QED  BY <1>4, <1>5, <1>7, <1>9, <1>10 DEF IsWindow

-----------------------------------------------------------------------------
(* The tables one after the other, and the run of readings that cross. *)

\* The readings of a table that joined those before it: the equation of the recursive
\* function inside FlattenSeq.
IsFlat(f, ss, n) == f = [i \in 1..n |-> IF i = 1 THEN ss[i] ELSE f[i - 1] \o ss[i]]

LEMMA FlatExists == ASSUME NEW ss, NEW n \in Nat PROVE \E f : IsFlat(f, ss, n)
<1>. DEFINE S == {k \in Nat : \E f : IsFlat(f, ss, k)}
<1>1. 0 \in S
  <2>1. IsFlat([i \in 1..0 |-> 0], ss, 0)
    BY DEF IsFlat
  <2>. QED  BY <2>1
<1>2. ASSUME NEW k \in S PROVE k + 1 \in S
  <2>1. PICK f : IsFlat(f, ss, k)
    OBVIOUS
  <2>. DEFINE g == [i \in 1..k + 1 |-> IF i = k + 1 THEN IF k = 0 THEN ss[i] ELSE f[k] \o ss[i] ELSE f[i]]
  <2>2. \A i \in 1..k + 1 : g[i] = IF i = 1 THEN ss[i] ELSE g[i - 1] \o ss[i]
    <3>. TAKE i \in 1..k + 1
    <3>1. CASE i = k + 1 /\ k = 0
      BY <3>1
    <3>2. CASE i = k + 1 /\ k # 0
      <4>0. i - 1 = k /\ k \in 1..k + 1 /\ k # k + 1 /\ i # 1
        BY <3>2
      <4>3. g[i] = f[k] \o ss[i]
        BY <3>2
      <4>1. g[i] = f[k] \o ss[i] /\ i - 1 = k /\ k \in 1..k + 1 /\ k # k + 1 /\ i # 1
        BY <4>0, <4>3
      <4>2. g[k] = f[k]
        BY <4>1
      <4>. HIDE DEF g
      <4>. QED  BY <4>1, <4>2
    <3>3. CASE i # k + 1
      <4>1. i \in 1..k /\ g[i] = f[i]
        BY <3>3
      <4>2. i # 1 => i - 1 \in 1..k + 1 /\ i - 1 # k + 1
        BY <4>1
      <4>3. i # 1 => g[i - 1] = f[i - 1]
        BY <4>2
      <4>4. f[i] = IF i = 1 THEN ss[i] ELSE f[i - 1] \o ss[i]
        BY <2>1, <4>1 DEF IsFlat
      <4>. HIDE DEF g
      <4>. QED  BY <4>1, <4>3, <4>4
    <3>. QED  BY <3>1, <3>2, <3>3
  <2>4. g = [i \in 1..k + 1 |-> g[i]]
    OBVIOUS
  <2>. HIDE DEF g
  <2>5. IsFlat(g, ss, k + 1)
    BY <2>2, <2>4 DEF IsFlat
  <2>. QED  BY <2>5
<1>. HIDE DEF S
<1>3. S = Nat
  BY <1>1, <1>2, AllNumbers DEF S
<1>. QED  BY <1>3 DEF S

LEMMA FlattenIs ==
    ASSUME NEW ss, Len(ss) \in Nat, Len(ss) # 0
    PROVE  \E f : IsFlat(f, ss, Len(ss)) /\ FlattenSeq(ss) = f[Len(ss)]
<1>. DEFINE c == CHOOSE f : IsFlat(f, ss, Len(ss))
<1>1. IsFlat(c, ss, Len(ss))
  BY FlatExists
<1>2. FlattenSeq(ss) = c[Len(ss)]
  BY DEF FlattenSeq, IsFlat
<1>. HIDE DEF c
<1>. QED  BY <1>1, <1>2

\* The first of the readings is the first of its table.
LEMMA FlattenFirst ==
    ASSUME NEW ss, DOMAIN ss = 1..Len(ss), Len(ss) \in Nat \ {0}, \A i \in DOMAIN ss : ss[i] \in Seq(Reading)
    PROVE  /\ FlattenSeq(ss) \in Seq(Reading)
           /\ FlattenSeq(ss) # <<>> => \E i \in DOMAIN ss : ss[i] # <<>> /\ FlattenSeq(ss)[1] = ss[i][1]
<1>1. PICK f : IsFlat(f, ss, Len(ss)) /\ FlattenSeq(ss) = f[Len(ss)]
  BY FlattenIs
<1>. DEFINE Good(w) == w \in Seq(Reading) /\ (w # <<>> => \E i \in DOMAIN ss : ss[i] # <<>> /\ w[1] = ss[i][1])
            S == {k \in Nat : k \in 1..Len(ss) => Good(f[k])}
<1>2. 0 \in S
  OBVIOUS
<1>3. ASSUME NEW k \in S PROVE k + 1 \in S
  <2>. SUFFICES ASSUME k + 1 \in 1..Len(ss) PROVE Good(f[k + 1])
    OBVIOUS
  <2>1. CASE k = 0
    <3>1. f[k + 1] = ss[k + 1]
      BY <1>1, <2>1 DEF IsFlat
    <3>. QED  BY <2>1, <3>1
  <2>2. CASE k # 0
    <3>1. PICK u, v : u = f[k] /\ v = ss[k + 1]
      OBVIOUS
    <3>2. f[k + 1] = u \o v
      <4>1. k + 1 # 1 /\ (k + 1) - 1 = k
        BY <2>2
      <4>2. f[k + 1] = f[(k + 1) - 1] \o ss[k + 1]
        BY <1>1, <4>1 DEF IsFlat
      <4>. QED  BY <3>1, <4>1, <4>2
    <3>3. Good(u) /\ v \in Seq(Reading)
      BY <2>2, <3>1
    <3>4. /\ u \o v \in Seq(Reading) /\ Len(u \o v) = Len(u) + Len(v)
          /\ \A i \in 1..(Len(u) + Len(v)) : (u \o v)[i] = IF i <= Len(u) THEN u[i] ELSE v[i - Len(u)]
      BY <3>3, ConcatProperties
    <3>5. Len(u) \in Nat /\ Len(v) \in Nat
      BY <3>3
    <3>6. CASE u # <<>>
      <4>1. Len(u) > 0
        BY <3>3, <3>5, <3>6
      <4>2. (u \o v)[1] = u[1]
        BY <3>4, <3>5, <4>1
      <4>. QED  BY <3>2, <3>3, <3>4, <3>6, <4>2
    <3>7. CASE u = <<>> /\ v # <<>>
      <4>1. Len(u) = 0 /\ Len(v) > 0
        BY <3>3, <3>5, <3>7
      <4>2. (u \o v)[1] = v[1]
        BY <3>4, <3>5, <4>1
      <4>. QED  BY <3>1, <3>2, <3>4, <3>7, <4>2
    <3>8. CASE u = <<>> /\ v = <<>>
      <4>1. Len(u \o v) = 0
        BY <3>4, <3>8
      <4>2. u \o v = <<>>
        BY <3>4, <4>1
      <4>. QED  BY <3>2, <4>2
    <3>. QED  BY <3>6, <3>7, <3>8
  <2>. QED  BY <2>1, <2>2
<1>4. S = Nat
  <2>. HIDE DEF S
  <2>. QED  BY <1>2, <1>3, AllNumbers DEF S
<1>. QED  BY <1>1, <1>4

\* All readings in one table: they are what the query returns.
LEMMA FlattenOnly ==
    ASSUME NEW ss, DOMAIN ss = 1..Len(ss), Len(ss) \in Nat \ {0}, \A i \in DOMAIN ss : ss[i] \in Seq(Reading),
           NEW k \in DOMAIN ss, \A i \in DOMAIN ss : i # k => ss[i] = <<>>
    PROVE  FlattenSeq(ss) = ss[k]
<1>1. PICK f : IsFlat(f, ss, Len(ss)) /\ FlattenSeq(ss) = f[Len(ss)]
  BY FlattenIs
<1>. DEFINE S == {j \in Nat : j \in 1..Len(ss) => f[j] = IF j < k THEN <<>> ELSE ss[k]}
<1>2. 0 \in S
  OBVIOUS
<1>3. ASSUME NEW j \in S PROVE j + 1 \in S
  <2>. SUFFICES ASSUME j + 1 \in 1..Len(ss) PROVE f[j + 1] = IF j + 1 < k THEN <<>> ELSE ss[k]
    OBVIOUS
  <2>1. CASE j = 0
    <3>1. f[j + 1] = ss[j + 1]
      BY <1>1, <2>1 DEF IsFlat
    <3>2. j + 1 # k => ss[j + 1] = <<>>
      OBVIOUS
    <3>. QED  BY <2>1, <3>1, <3>2
  <2>2. CASE j # 0
    <3>1. PICK u, v : u = f[j] /\ v = ss[j + 1]
      OBVIOUS
    <3>2. f[j + 1] = u \o v
      <4>1. j + 1 # 1 /\ (j + 1) - 1 = j
        BY <2>2
      <4>2. f[j + 1] = f[(j + 1) - 1] \o ss[j + 1]
        BY <1>1, <4>1 DEF IsFlat
      <4>. QED  BY <3>1, <4>1, <4>2
    <3>3. u = IF j < k THEN <<>> ELSE ss[k]
      BY <2>2, <3>1
    <3>4. u \in Seq(Reading) /\ v \in Seq(Reading)
      BY <3>1, <3>3
    <3>5. (u = <<>> => u \o v = v) /\ (v = <<>> => u \o v = u)
      BY <3>4, ConcatEmptySeq
    <3>6. CASE j + 1 < k
      <4>1. u = <<>> /\ v = <<>>
        BY <3>1, <3>3, <3>6
      <4>. QED  BY <3>2, <3>5, <3>6, <4>1
    <3>7. CASE j + 1 = k
      <4>1. u = <<>> /\ v = ss[k]
        BY <3>1, <3>3, <3>7
      <4>. QED  BY <3>2, <3>5, <3>7, <4>1
    <3>8. CASE j >= k
      <4>1. u = ss[k] /\ v = <<>>
        BY <3>1, <3>3, <3>8
      <4>. QED  BY <3>2, <3>5, <3>8, <4>1
    <3>. QED  BY <3>6, <3>7, <3>8
  <2>. QED  BY <2>1, <2>2
<1>4. S = Nat
  <2>. HIDE DEF S
  <2>. QED  BY <1>2, <1>3, AllNumbers DEF S
<1>5. f[Len(ss)] = ss[k]
  BY <1>4
<1>. QED  BY <1>1, <1>5

\* A run reaches a length if that many readings cross.
LEMMA RunReaches ==
    ASSUME NEW w, NEW k \in Nat, DOMAIN w = 1..k, Len(w) = k, NEW r, NEW c \in Nat
    PROVE  LeadingRun(w, r) >= c <=> c <= k /\ \A i \in 1..c : Crosses(w[i], r)
<1>. DEFINE IsRun(n) == (\A i \in 1..n : Crosses(w[i], r)) /\ (n < k => ~Crosses(w[n + 1], r))
<1>1. \E n \in 0..k : IsRun(n)
  <2>. DEFINE S == {j \in Nat : j < k => ~Crosses(w[j + 1], r)}
  <2>1. k \in S
    OBVIOUS
  <2>2. S \in SUBSET Nat /\ S # {}
    BY <2>1
  <2>3. PICK n \in S : \A j \in S : n <= j
    BY <2>2, Least
  <2>4. n \in 0..k
    BY <2>1, <2>3
  <2>5. ASSUME NEW i \in 1..n PROVE Crosses(w[i], r)
    <3>1. i - 1 \in Nat /\ ~(n <= i - 1) /\ i - 1 < k /\ (i - 1) + 1 = i
      BY <2>4
    <3>2. i - 1 \notin S
      BY <2>3, <3>1
    <3>. QED  BY <3>1, <3>2
  <2>. QED  BY <2>3, <2>4, <2>5
<1>2. LeadingRun(w, r) = CHOOSE n \in 0..k : IsRun(n)
  BY DEF LeadingRun
<1>3. PICK n : n = LeadingRun(w, r)
  OBVIOUS
<1>4. n \in 0..k /\ IsRun(n)
  <2>. HIDE DEF IsRun
  <2>. QED  BY <1>1, <1>2, <1>3
<1>5. ASSUME n >= c PROVE c <= k /\ \A i \in 1..c : Crosses(w[i], r)
  BY <1>4, <1>5
<1>6. ASSUME c <= k, \A i \in 1..c : Crosses(w[i], r), ~(n >= c) PROVE FALSE
  <2>1. n + 1 \in 1..c /\ n < k
    BY <1>4, <1>6
  <2>. QED  BY <1>4, <1>6, <2>1
<1>. QED  BY <1>3, <1>5, <1>6

-----------------------------------------------------------------------------
(* The culprit. *)

LEMMA TablesAre ==
    ASSUME TriggerInv, NEW d \in Reporters, NEW r \in Triggers, NEW i \in DOMAIN Labels,
           NEW s, s = series[d][Labels[i]], NEW w, w = InWindow(s, r)
    PROVE  /\ Labels[i] \in Names /\ s \in Seq(Reading) /\ Sorted(s)
           /\ IsWindow(w, s, r)
<1>1. Labels[i] \in Names
  BY DEF Names, ToSet
<1>2. s \in Seq(Reading) /\ Sorted(s)
  BY <1>1 DEF TriggerInv, TriggerTypes, NewestFirst
<1>3. IsWindow(w, s, r)
  BY <1>2, WindowIs
<1>. QED  BY <1>1, <1>2, <1>3

LEMMA LabelsAre == DOMAIN Labels = 1..Len(Labels) /\ Len(Labels) \in Nat \ {0}
<1>1. PICK L, S : L = Labels /\ S = Names
  OBVIOUS
<1>2. L \in Seq(S) /\ L # <<>>
  BY <1>1, TriggerConstants
<1>. QED  BY <1>1, <1>2

\* The newest value the rule looks at is the newest of one table, within the window.
LEMMA FirstValue ==
    ASSUME TriggerInv, NEW d \in Reporters, NEW r \in Triggers, NEW w, w = ValuesOf(d, r)
    PROVE  /\ w \in Seq(Reading)
           /\ w # <<>> => \E n \in Names : /\ 1 \in DOMAIN series[d][n] /\ w[1] = series[d][n][1]
                                           /\ w[1].age * Pace[r] <= Window(r)
<1>1. PICK ss : ss = [i \in DOMAIN Labels |-> InWindow(series[d][Labels[i]], r)]
  OBVIOUS
<1>2. DOMAIN ss = 1..Len(Labels) /\ Len(ss) = Len(Labels) /\ Len(ss) \in Nat \ {0}
  BY <1>1, LabelsAre
<1>3. \A i \in DOMAIN ss : ss[i] = InWindow(series[d][Labels[i]], r) /\ i \in DOMAIN Labels
  BY <1>1
<1>4. ASSUME NEW i \in DOMAIN ss PROVE ss[i] \in Seq(Reading)
  <2>1. PICK s : s = series[d][Labels[i]]
    OBVIOUS
  <2>2. IsWindow(ss[i], s, r)
    BY <1>3, <2>1, TablesAre
  <2>. QED  BY <2>2 DEF IsWindow
<1>5. w = FlattenSeq(ss)
  BY <1>1 DEF ValuesOf
<1>6. w \in Seq(Reading) /\ (w # <<>> => \E i \in DOMAIN ss : ss[i] # <<>> /\ w[1] = ss[i][1])
  BY <1>2, <1>4, <1>5, FlattenFirst
<1>7. ASSUME w # <<>>
      PROVE  \E n \in Names : 1 \in DOMAIN series[d][n] /\ w[1] = series[d][n][1] /\ w[1].age * Pace[r] <= Window(r)
  <2>1. PICK i \in DOMAIN ss : ss[i] # <<>> /\ w[1] = ss[i][1]
    BY <1>6, <1>7
  <2>2. PICK s, v : s = series[d][Labels[i]] /\ v = ss[i]
    OBVIOUS
  <2>3. Labels[i] \in Names /\ IsWindow(v, s, r)
    BY <1>3, <2>2, TablesAre
  <2>4. v # <<>> /\ v \in Seq(Reading)
    BY <2>1, <2>2, <2>3 DEF IsWindow
  <2>5. Len(v) \in Nat /\ Len(v) # 0
    BY <2>4
  <2>6. 1 \in DOMAIN v
    BY <2>4, <2>5
  <2>7. 1 \in DOMAIN s /\ v[1] = s[1] /\ s[1].age * Pace[r] <= Window(r)
    BY <2>3, <2>6 DEF IsWindow
  <2>. QED  BY <2>1, <2>2, <2>3, <2>7
<1>. QED  BY <1>6, <1>7

LEMMA TriggerCrosses ==
    ASSUME NEW r \in Triggers, r.mode = "consecutive" => r.count > 0,
           NEW w \in Seq(Reading), CheckTrigger(w, r)
    PROVE  w # <<>> /\ Crosses(w[1], r)
<1>1. r.mode \in Modes /\ r.count \in Nat /\ r.duration \in Nat
  BY TriggerConstants DEF Trigger
<1>2. Needed(r) \in Nat \ {0}
  BY <1>1 DEF Needed
<1>3. DOMAIN w = 1..Len(w) /\ Len(w) \in Nat /\ w # <<>>
  BY DEF CheckTrigger
<1>4. ASSUME NEW c \in Nat \ {0}, LeadingRun(w, r) >= c PROVE Crosses(w[1], r)
  <2>1. \A i \in 1..c : Crosses(w[i], r)
    BY <1>3, <1>4, RunReaches
  <2>. QED  BY <2>1
<1>5. CASE r.mode = "consecutive"
  <2>1. LeadingRun(w, r) >= r.count /\ r.count \in Nat \ {0}
    BY <1>1, <1>5 DEF CheckTrigger
  <2>. QED  BY <1>3, <1>4, <2>1
<1>6. CASE r.mode = "duration"
  <2>1. /\ \A i \in 1..Needed(r) : i <= Len(w) => Crosses(w[i], r)
        /\ Len(w) >= Needed(r)
    BY <1>6 DEF CheckTrigger
  <2>. QED  BY <1>2, <1>3, <2>1
<1>7. CASE r.mode = "consecutive_and_duration"
  <2>1. LeadingRun(w, r) >= Needed(r)
    BY <1>7 DEF CheckTrigger
  <2>. QED  BY <1>2, <1>3, <1>4, <2>1
<1>. QED  BY <1>1, <1>5, <1>6, <1>7 DEF Modes

\* What a device in the rule's filter is.
LEMMA TargetIs ==
    ASSUME TriggerInv, NEW d \in DeviceIds(trigger) PROVE d \in Reporters /\ InTarget(d)
<1>1. /\ trigger.target \in {"device", "group", "all"} /\ (trigger.target = "device" => trigger.device \in Reporters)
      /\ members \subseteq Reporters
  BY TriggerConstants DEF Trigger, TriggerInv, TriggerTypes
<1>. QED  BY <1>1 DEF DeviceIds, InTarget

\* An alert has a culprit within the rule's own target, whose newest reading crosses unless a
\* rename split its readings (evaluate_rule), for rules that ask for a reading at all: the forms
\* of both portals ask for one or more, and the API does not check it.
THEOREM AlertAlwaysHasCulprit ==
    ASSUME \A r \in Triggers : r.mode = "consecutive" => r.count > 0
    PROVE  TriggerSpec => []AlertHasCulprit
<1>1. ASSUME TriggerInv PROVE AlertHasCulprit
  <2>. SUFFICES ASSUME Verdict(trigger)
                PROVE  \E d \in Reporters :
                          /\ InTarget(d)
                          /\ \E x \in Readings(d) : x.age * Pace[trigger] <= Window(trigger) /\ Crosses(x, trigger)
                          /\ OneTable(d) => Crosses(Newest(d), trigger)
    BY DEF AlertHasCulprit
  <2>0. trigger \in Triggers
    BY <1>1 DEF TriggerInv, TriggerTypes
  <2>1. PICK d \in DeviceIds(trigger) : CheckTrigger(ValuesOf(d, trigger), trigger)
    BY DEF Verdict, Culprits
  <2>2. d \in Reporters /\ InTarget(d)
    BY <1>1, TargetIs
  <2>3. PICK w : w = ValuesOf(d, trigger)
    OBVIOUS
  <2>4. w \in Seq(Reading)
    BY <1>1, <2>0, <2>2, <2>3, FirstValue
  <2>5. w # <<>> /\ Crosses(w[1], trigger)
    BY <2>0, <2>1, <2>3, <2>4, TriggerCrosses
  <2>6. PICK n \in Names : 1 \in DOMAIN series[d][n] /\ w[1] = series[d][n][1] /\ w[1].age * Pace[trigger] <= Window(trigger)
    BY <1>1, <2>0, <2>2, <2>3, <2>5, FirstValue
  <2>7. PICK x : x = w[1]
    OBVIOUS
  <2>8. x \in Readings(d)
    BY <2>6, <2>7 DEF Readings, ToSet
  <2>9. ASSUME OneTable(d) PROVE Newest(d) = x
    <3>1. PICK m \in Names : Readings(d) = ToSet(series[d][m])
      BY <2>9 DEF OneTable
    <3>2. m = n
      <4>1. PICK j \in DOMAIN series[d][m] : x = series[d][m][j]
        BY <2>8, <3>1 DEF ToSet
      <4>. QED  BY <1>1, <2>2, <2>6, <2>7, <4>1 DEF TriggerInv, Apart
    <3>3. PICK s : s = series[d][n]
      OBVIOUS
    <3>4. s \in Seq(Reading) /\ Sorted(s) /\ 1 \in DOMAIN s /\ x = s[1]
      BY <1>1, <2>2, <2>6, <2>7, <3>3 DEF TriggerInv, TriggerTypes, NewestFirst
    <3>5. ASSUME NEW y \in Readings(d) PROVE x.age <= y.age /\ (y.age <= x.age => y = x) /\ x.age \in Nat
      <4>1. PICK j \in DOMAIN s : y = s[j]
        BY <3>1, <3>2, <3>3 DEF ToSet
      <4>2. s[1].age \in Nat /\ s[j].age \in Nat /\ j \in 1..Len(s)
        BY <3>4, ReadingIs
      <4>3. j = 1 \/ 1 < j
        BY <4>2
      <4>. QED  BY <3>4, <4>1, <4>2, <4>3 DEF Sorted
    <3>6. PICK z : z = Newest(d)
      OBVIOUS
    <3>7. z \in Readings(d) /\ \A y \in Readings(d) : z.age <= y.age
      <4>1. \E z0 \in Readings(d) : \A y \in Readings(d) : z0.age <= y.age
        BY <2>8, <3>5
      <4>. QED  BY <3>6, <4>1 DEF Newest
    <3>. QED  BY <2>8, <3>5, <3>6, <3>7
  <2>. QED  BY <2>2, <2>5, <2>6, <2>7, <2>8, <2>9
<1>. QED  BY <1>1, TriggerInvInit, TriggerInvNext, PTL DEF TriggerSpec

-----------------------------------------------------------------------------
(* A device whose readings are in one table. *)

LEMMA OthersEmpty ==
    ASSUME TriggerInv, NEW d \in Reporters, NEW n \in Names, Readings(d) = ToSet(series[d][n]),
           NEW m \in Names, m # n
    PROVE  series[d][m] = <<>>
<1>1. PICK s : s = series[d][m]
  OBVIOUS
<1>2. s \in Seq(Reading)
  BY <1>1 DEF TriggerInv, TriggerTypes
<1>3. ASSUME NEW j \in DOMAIN s PROVE FALSE
  <2>1. s[j] \in Readings(d)
    BY <1>1 DEF Readings, ToSet
  <2>2. PICK i \in DOMAIN series[d][n] : s[j] = series[d][n][i]
    BY <2>1 DEF ToSet
  <2>. QED  BY <1>1, <2>2 DEF TriggerInv, Apart
<1>4. Len(s) = 0
  BY <1>2, <1>3
<1>. QED  BY <1>1, <1>2, <1>4

\* What the rule looks at is then the window of that table.
LEMMA OneWindow ==
    ASSUME NEW r \in Triggers, NEW q, \A m \in Names : q[m] \in Seq(Reading) /\ Sorted(q[m]),
           NEW n \in Names, \A m \in Names : m # n => q[m] = <<>>,
           NEW ss, ss = [i \in DOMAIN Labels |-> InWindow(q[Labels[i]], r)]
    PROVE  IsWindow(FlattenSeq(ss), q[n], r)
<1>1. DOMAIN ss = 1..Len(ss) /\ Len(ss) \in Nat \ {0} /\ DOMAIN ss = DOMAIN Labels
  BY LabelsAre
<1>2. \A i \in DOMAIN ss : Labels[i] \in Names
  BY <1>1 DEF Names, ToSet
<1>3. ASSUME NEW i \in DOMAIN ss PROVE IsWindow(ss[i], q[Labels[i]], r)
  <2>1. PICK s : s = q[Labels[i]]
    OBVIOUS
  <2>2. s \in Seq(Reading) /\ Sorted(s)
    BY <1>2, <2>1
  <2>3. ss[i] = InWindow(s, r)
    BY <1>1, <2>1
  <2>. QED  BY <2>1, <2>2, <2>3, WindowIs
<1>4. PICK k \in DOMAIN ss : Labels[k] = n
  BY <1>1 DEF Names, ToSet
<1>5. \A i \in DOMAIN ss : ss[i] \in Seq(Reading)
  BY <1>3 DEF IsWindow
<1>6. ASSUME NEW i \in DOMAIN ss, i # k PROVE ss[i] = <<>>
  <2>1. Labels[i] # n
    BY <1>1, <1>4, <1>6, TriggerConstants DEF IsInjective
  <2>2. PICK s, w : s = q[Labels[i]] /\ w = ss[i]
    OBVIOUS
  <2>3. s = <<>> /\ IsWindow(w, s, r)
    BY <1>2, <1>3, <2>1, <2>2
  <2>4. w \in Seq(Reading) /\ \A j \in DOMAIN w : j \in DOMAIN s
    BY <2>3 DEF IsWindow
  <2>5. DOMAIN s = {}
    BY <2>3
  <2>6. DOMAIN w = {}
    BY <2>4, <2>5
  <2>7. Len(w) = 0
    BY <2>4, <2>6
  <2>. QED  BY <2>2, <2>4, <2>7
<1>7. FlattenSeq(ss) = ss[k]
  BY <1>1, <1>5, <1>6, FlattenOnly
<1>. QED  BY <1>3, <1>4, <1>7

LEMMA TriggerNumbers ==
    ASSUME NEW r \in Triggers
    PROVE  r.mode \in Modes /\ r.count \in Nat /\ Needed(r) \in Nat \ {0} /\ Pace[r] \in Nat /\ Window(r) \in Int
<1>1. r.mode \in Modes /\ r.count \in Nat /\ r.duration \in Nat
  BY TriggerConstants DEF Trigger
<1>2. Needed(r) \in Nat \ {0}
  BY <1>1 DEF Needed
<1>3. Window(r) \in Int
  BY <1>1 DEF Window
<1>. QED  BY <1>1, <1>2, <1>3, TriggerConstants

\* A rule that fires on the first of some readings fires on all of them.
LEMMA MoreFires ==
    ASSUME NEW r \in Triggers, NEW v \in Seq(Reading), NEW w \in Seq(Reading),
           DOMAIN v \subseteq DOMAIN w, \A i \in DOMAIN v : v[i].value = w[i].value,
           CheckTrigger(v, r)
    PROVE  CheckTrigger(w, r)
<1>1. r.mode \in Modes /\ r.count \in Nat /\ Needed(r) \in Nat \ {0}
  BY TriggerNumbers
<1>2. /\ DOMAIN v = 1..Len(v) /\ Len(v) \in Nat /\ DOMAIN w = 1..Len(w) /\ Len(w) \in Nat
  OBVIOUS
<1>3. Len(v) # 0
  <2>1. v # <<>>
    BY DEF CheckTrigger
  <2>. QED  BY <2>1
<1>4. Len(v) <= Len(w)
  <2>1. Len(v) \in DOMAIN v
    BY <1>2, <1>3
  <2>. QED  BY <1>2, <2>1
<1>5. w # <<>>
  BY <1>2, <1>3, <1>4
<1>6. \A i \in DOMAIN v : Crosses(v[i], r) <=> Crosses(w[i], r)
  BY DEF Crosses
<1>7. ASSUME NEW c \in Nat, LeadingRun(v, r) >= c PROVE LeadingRun(w, r) >= c
  <2>1. c <= Len(v) /\ \A i \in 1..c : Crosses(v[i], r)
    BY <1>2, <1>7, RunReaches
  <2>2. c <= Len(w) /\ \A i \in 1..c : Crosses(w[i], r)
    BY <1>2, <1>4, <1>6, <2>1
  <2>. QED  BY <1>2, <2>2, RunReaches
<1>8. CASE r.mode = "consecutive"
  BY <1>1, <1>5, <1>7, <1>8 DEF CheckTrigger
<1>9. CASE r.mode = "duration"
  <2>1. /\ \A i \in 1..Needed(r) : i <= Len(v) => Crosses(v[i], r)
        /\ Len(v) >= Needed(r)
    BY <1>9 DEF CheckTrigger
  <2>2. \A i \in 1..Needed(r) : Crosses(w[i], r)
    BY <1>1, <1>2, <1>6, <2>1
  <2>3. Len(w) >= Needed(r)
    BY <1>1, <1>2, <1>4, <2>1
  <2>. QED  BY <1>5, <1>9, <2>2, <2>3 DEF CheckTrigger
<1>10. CASE r.mode = "consecutive_and_duration"
  BY <1>1, <1>5, <1>7, <1>10 DEF CheckTrigger
<1>. QED  BY <1>1, <1>8, <1>9, <1>10 DEF Modes

LEMMA WindowShrinks ==
    ASSUME NEW r \in Triggers, NEW s, NEW s1, NEW w, NEW w1,
           s \in Seq(Reading), IsWindow(w, s, r), IsWindow(w1, s1, r), DOMAIN s1 \subseteq DOMAIN s,
           \A i \in DOMAIN s1 : s1[i].value = s[i].value /\ s1[i].age = s[i].age + 1
    PROVE  DOMAIN w1 \subseteq DOMAIN w /\ \A i \in DOMAIN w1 : w1[i].value = w[i].value
<1>1. Pace[r] \in Nat /\ Window(r) \in Int
  BY TriggerNumbers
<1>2. ASSUME NEW i \in DOMAIN w1 PROVE i \in DOMAIN w /\ w1[i].value = w[i].value
  <2>1. i \in DOMAIN s1 /\ s1[i].age * Pace[r] <= Window(r) /\ w1[i] = s1[i]
    BY DEF IsWindow
  <2>2. i \in DOMAIN s /\ s1[i].age = s[i].age + 1 /\ s1[i].value = s[i].value
    BY <2>1
  <2>3. PICK a, b : a = s[i].age /\ b = s1[i].age
    OBVIOUS
  <2>4. a \in Nat /\ b = a + 1
    BY <2>2, <2>3, ReadingIs
  <2>5. a * Pace[r] <= b * Pace[r] /\ a * Pace[r] \in Int /\ b * Pace[r] \in Int
    BY <1>1, <2>4, Times
  <2>6. b * Pace[r] <= Window(r)
    BY <2>1, <2>3
  <2>7. a * Pace[r] <= Window(r)
    BY <1>1, <2>5, <2>6
  <2>8. i \in DOMAIN w /\ w[i] = s[i]
    BY <2>2, <2>3, <2>7 DEF IsWindow
  <2>. QED  BY <2>1, <2>2, <2>8
<1>. QED  BY <1>2

\* Readings that grow old make no device fire a rule (evaluate_rule), unless a rename split its
\* readings: those are in several tables, of which the first that is not empty is read first.
THEOREM OldReadingsFireNothing == TriggerSpec => AgeingNeverFires
<1>1. ASSUME TriggerInv, TriggerInv', Pass, NEW d \in Reporters, OneTable(d), (d \in Culprits(trigger))'
      PROVE  d \in Culprits(trigger)
  <2>0. trigger' = trigger /\ members' = members
    BY <1>1 DEF Pass
  <2>1. trigger \in Triggers
    BY <1>1 DEF TriggerInv, TriggerTypes
  <2>2. d \in DeviceIds(trigger)' /\ CheckTrigger(ValuesOf(d, trigger), trigger)'
    BY <1>1 DEF Culprits
  <2>3. d \in DeviceIds(trigger)
    BY <2>0, <2>2 DEF DeviceIds
  <2>4. PICK n \in Names : Readings(d) = ToSet(series[d][n])
    BY <1>1 DEF OneTable
  <2>5. PICK r, q, q1, w, w1 : /\ r = trigger /\ q = series[d] /\ q1 = series'[d]
                               /\ w = ValuesOf(d, r) /\ w1 = (ValuesOf(d, trigger))'
    OBVIOUS
  <2>6. r \in Triggers /\ r = trigger'
    BY <2>0, <2>1, <2>5
  <2>7. \A m \in Names : q[m] \in Seq(Reading) /\ Sorted(q[m])
    BY <1>1, <2>5 DEF TriggerInv, TriggerTypes, NewestFirst
  <2>8. \A m \in Names : m # n => q[m] = <<>>
    BY <1>1, <2>4, <2>5, OthersEmpty
  <2>9. \A m \in Names : /\ q1[m] \in Seq(Reading) /\ Sorted(q1[m]) /\ DOMAIN q1[m] \subseteq DOMAIN q[m]
                         /\ \A i \in DOMAIN q1[m] : q1[m][i].value = q[m][i].value /\ q1[m][i].age = q[m][i].age + 1
    BY <1>1, <2>5, PassIs
  <2>10. ASSUME NEW m \in Names, m # n PROVE q1[m] = <<>>
    <3>1. PICK s : s = q1[m]
      OBVIOUS
    <3>2. q[m] = <<>>
      BY <2>8, <2>10
    <3>3. s \in Seq(Reading) /\ DOMAIN s = {}
      BY <2>9, <2>10, <3>1, <3>2
    <3>4. Len(s) = 0
      BY <3>3
    <3>. QED  BY <3>1, <3>3, <3>4
  <2>11. IsWindow(w, q[n], r)
    <3>1. PICK ss : ss = [i \in DOMAIN Labels |-> InWindow(q[Labels[i]], r)]
      OBVIOUS
    <3>2. w = FlattenSeq(ss)
      BY <2>5, <3>1 DEF ValuesOf
    <3>. QED  BY <2>6, <2>7, <2>8, <3>1, <3>2, OneWindow
  <2>12. IsWindow(w1, q1[n], r)
    <3>1. PICK ss : ss = [i \in DOMAIN Labels |-> InWindow(q1[Labels[i]], r)]
      OBVIOUS
    <3>2. w1 = FlattenSeq([i \in DOMAIN Labels |-> InWindow(series'[d][Labels[i]], trigger')])
      BY <2>5 DEF ValuesOf, InWindow
    <3>3. w1 = FlattenSeq(ss)
      BY <2>5, <2>6, <3>1, <3>2
    <3>. QED  BY <2>6, <2>9, <2>10, <3>1, <3>3, OneWindow
  <2>13. DOMAIN w1 \subseteq DOMAIN w /\ \A i \in DOMAIN w1 : w1[i].value = w[i].value
    <3>1. PICK s, s1 : s = q[n] /\ s1 = q1[n]
      OBVIOUS
    <3>2. s \in Seq(Reading) /\ IsWindow(w, s, r) /\ IsWindow(w1, s1, r)
      BY <2>7, <2>11, <2>12, <3>1
    <3>3. /\ DOMAIN s1 \subseteq DOMAIN s
          /\ \A i \in DOMAIN s1 : s1[i].value = s[i].value /\ s1[i].age = s[i].age + 1
      BY <2>9, <3>1
    <3>. QED  BY <2>6, <3>2, <3>3, WindowShrinks
  <2>14. CheckTrigger(w1, r)
    BY <2>0, <2>2, <2>5 DEF CheckTrigger, LeadingRun, Crosses, CheckCondition, Needed
  <2>15. CheckTrigger(w, r)
    BY <2>6, <2>11, <2>12, <2>13, <2>14, MoreFires DEF IsWindow
  <2>. QED  BY <2>3, <2>5, <2>15 DEF Culprits
<1>2. /\ TriggerInv /\ TriggerInv' /\ [TriggerNext]_triggerVars
      => [Pass => \A d \in Reporters : OneTable(d) /\ (d \in Culprits(trigger))' => d \in Culprits(trigger)]_triggerVars
  BY <1>1
<1>. QED  BY <1>2, TriggerInvInit, TriggerInvNext, PTL DEF TriggerSpec, AgeingNeverFires

\* The first of a table, as many as asked for.
LEMMA FirstReadings ==
    ASSUME NEW s \in Seq(Reading), Sorted(s), NEW c \in Nat, c <= Len(s), NEW z, z = {s[i] : i \in 1..c}
    PROVE  /\ z \subseteq ToSet(s) /\ Cardinality(z) = c
           /\ \A x \in z : \E i \in 1..c : x = s[i]
           /\ \A x \in z, y \in ToSet(s) \ z : x.age < y.age
<1>1. DOMAIN s = 1..Len(s) /\ Len(s) \in Nat
  OBVIOUS
<1>2. PICK f : f = [i \in 1..c |-> s[i]]
  OBVIOUS
<1>3. ASSUME NEW i \in 1..c, NEW j \in 1..c, s[i] = s[j] PROVE i = j
  <2>1. i \in DOMAIN s /\ j \in DOMAIN s
    BY <1>1
  <2>2. s[i].age \in Nat /\ s[i].age = s[j].age
    BY <1>3, <2>1, ReadingIs
  <2>3. ~(i < j) /\ ~(j < i)
    BY <2>1, <2>2 DEF Sorted
  <2>. QED  BY <2>3
<1>4. ExistsBijection(1..c, z)
  <2>1. f \in [1..c -> z] /\ \A x \in z : \E i \in 1..c : f[i] = x
    BY <1>2
  <2>2. \A i, j \in 1..c : f[i] = f[j] => i = j
    BY <1>2, <1>3
  <2>3. f \in Injection(1..c, z) /\ f \in Surjection(1..c, z)
    BY <2>1, <2>2 DEF Injection, Surjection, IsInjective
  <2>. QED  BY <2>3 DEF Bijection, ExistsBijection
<1>5. IsFiniteSet(1..c) /\ Cardinality(1..c) = c
  BY FS_Interval
<1>6. Cardinality(z) = c
  BY <1>4, <1>5, FS_Bijection
<1>7. z \subseteq ToSet(s)
  BY <1>1 DEF ToSet
<1>8. ASSUME NEW x \in z, NEW y \in ToSet(s) \ z PROVE x.age < y.age
  <2>1. PICK i \in 1..c : x = s[i]
    OBVIOUS
  <2>2. PICK j \in DOMAIN s : y = s[j]
    BY DEF ToSet
  <2>3. j \notin 1..c
    BY <2>2
  <2>4. i \in DOMAIN s /\ i < j
    BY <1>1, <2>2, <2>3
  <2>. QED  BY <2>1, <2>2, <2>4 DEF Sorted
<1>. QED  BY <1>6, <1>7, <1>8

\* "consecutive" asks for the newest readings of a device, as many as the rule counts
\* (_check_trigger), unless a rename split its readings.
THEOREM ConsecutiveAsksForTheNewest == TriggerSpec => []ConsecutiveIsNewestN
<1>1. ASSUME TriggerInv PROVE ConsecutiveIsNewestN
  <2>. SUFFICES ASSUME trigger.mode = "consecutive", NEW d \in Culprits(trigger)
                PROVE  /\ InTarget(d)
                       /\ OneTable(d) => \E z \in SUBSET Readings(d) :
                             /\ Cardinality(z) = trigger.count
                             /\ \A x \in z : Crosses(x, trigger)
                             /\ \A x \in z, y \in Readings(d) \ z : x.age < y.age
    BY DEF ConsecutiveIsNewestN
  <2>1. trigger \in Triggers
    BY <1>1 DEF TriggerInv, TriggerTypes
  <2>2. d \in DeviceIds(trigger) /\ CheckTrigger(ValuesOf(d, trigger), trigger)
    BY DEF Culprits
  <2>3. d \in Reporters /\ InTarget(d)
    BY <1>1, <2>2, TargetIs
  <2>4. ASSUME OneTable(d)
        PROVE  \E z \in SUBSET Readings(d) :
                  /\ Cardinality(z) = trigger.count
                  /\ \A x \in z : Crosses(x, trigger)
                  /\ \A x \in z, y \in Readings(d) \ z : x.age < y.age
    <3>1. PICK n \in Names : Readings(d) = ToSet(series[d][n])
      BY <2>4 DEF OneTable
    <3>2. PICK q, s, w, c : q = series[d] /\ s = q[n] /\ w = ValuesOf(d, trigger) /\ c = trigger.count
      OBVIOUS
    <3>3. \A m \in Names : q[m] \in Seq(Reading) /\ Sorted(q[m])
      BY <1>1, <2>3, <3>2 DEF TriggerInv, TriggerTypes, NewestFirst
    <3>4. \A m \in Names : m # n => q[m] = <<>>
      BY <1>1, <2>3, <3>1, <3>2, OthersEmpty
    <3>5. IsWindow(w, s, trigger) /\ s \in Seq(Reading) /\ Sorted(s) /\ Readings(d) = ToSet(s)
      <4>1. PICK ss : ss = [i \in DOMAIN Labels |-> InWindow(q[Labels[i]], trigger)]
        OBVIOUS
      <4>2. w = FlattenSeq(ss)
        BY <3>2, <4>1 DEF ValuesOf
      <4>3. IsWindow(FlattenSeq(ss), q[n], trigger)
        BY <2>1, <3>3, <3>4, <4>1, OneWindow
      <4>. QED  BY <3>1, <3>2, <3>3, <4>2, <4>3
    <3>6. LeadingRun(w, trigger) >= c /\ c \in Nat
      BY <2>1, <2>2, <3>2, TriggerNumbers DEF CheckTrigger
    <3>7. w \in Seq(Reading) /\ DOMAIN w = 1..Len(w) /\ Len(w) \in Nat
      BY <3>5 DEF IsWindow
    <3>8. c <= Len(w) /\ \A i \in 1..c : Crosses(w[i], trigger)
      BY <3>6, <3>7, RunReaches
    <3>9. \A i \in 1..c : i \in DOMAIN s /\ w[i] = s[i]
      BY <3>5, <3>6, <3>7, <3>8 DEF IsWindow
    <3>10. c <= Len(s)
      <4>1. Len(s) \in Nat /\ DOMAIN s = 1..Len(s)
        BY <3>5
      <4>. QED  BY <3>6, <3>9, <4>1
    <3>11. PICK z : z = {s[i] : i \in 1..c}
      OBVIOUS
    <3>12. /\ z \subseteq ToSet(s) /\ Cardinality(z) = c
           /\ \A x \in z : \E i \in 1..c : x = s[i]
           /\ \A x \in z, y \in ToSet(s) \ z : x.age < y.age
      BY <3>5, <3>6, <3>10, <3>11, FirstReadings
    <3>13. \A x \in z : Crosses(x, trigger)
      BY <3>8, <3>9, <3>12
    <3>. QED  BY <3>2, <3>5, <3>12, <3>13
  <2>. QED  BY <2>3, <2>4
<1>. QED  BY <1>1, TriggerInvInit, TriggerInvNext, PTL DEF TriggerSpec

\* A reading of a table whose readings are a minute apart is older, by as many minutes as
\* there are newer ones.
LEMMA MinutesOlder ==
    ASSUME NEW s \in Seq(Reading), NEW p \in Nat, Sorted(s),
           \A i, j \in DOMAIN s : s[i].age < s[j].age => (s[j].age - s[i].age) * p >= 60,
           NEW k \in DOMAIN s
    PROVE  s[k].age * p >= (k - 1) * 60
<1>. DEFINE S == {n \in Nat : n + 1 \in DOMAIN s => s[n + 1].age * p >= n * 60}
<1>1. DOMAIN s = 1..Len(s) /\ Len(s) \in Nat /\ \A i \in DOMAIN s : s[i].age \in Nat
  BY ReadingIs
<1>2. 0 \in S
  <2>1. ASSUME NEW a \in Nat PROVE a * p >= 0
    BY SMT
  <2>. QED  BY <1>1, <2>1
<1>3. ASSUME NEW n \in S PROVE n + 1 \in S
  <2>. SUFFICES ASSUME n + 2 \in DOMAIN s PROVE s[n + 2].age * p >= (n + 1) * 60
    BY (n + 1) + 1 = n + 2
  <2>1. n + 1 \in DOMAIN s /\ n + 1 < n + 2
    BY <1>1
  <2>2. PICK a, b : a = s[n + 1].age /\ b = s[n + 2].age
    OBVIOUS
  <2>3. a \in Nat /\ b \in Nat /\ a < b
    BY <1>1, <2>1, <2>2 DEF Sorted
  <2>4. a * p >= n * 60 /\ (b - a) * p >= 60
    BY <2>1, <2>2, <2>3
  <2>5. b * p = a * p + (b - a) * p /\ a * p \in Int /\ (b - a) * p \in Int
    BY <2>3, SMT
  <2>6. b * p >= (n + 1) * 60
    <3>1. PICK u, v, t : u = a * p /\ v = (b - a) * p /\ t = b * p
      OBVIOUS
    <3>2. u \in Int /\ v \in Int /\ t = u + v /\ u >= n * 60 /\ v >= 60 /\ n \in Nat
      BY <2>4, <2>5, <3>1
    <3>3. t >= (n + 1) * 60
      BY <3>2
    <3>. QED  BY <3>1, <3>3
  <2>. QED  BY <2>2, <2>6
<1>4. S = Nat
  <2>. HIDE DEF S
  <2>1. S \in SUBSET Nat
    BY DEF S
  <2>. QED  BY <1>2, <1>3, <2>1, AllNumbers
<1>5. k - 1 \in S /\ (k - 1) + 1 = k
  BY <1>1, <1>4
<1>. QED  BY <1>5

\* Where the readings of a device are in one table and a minute apart, a rule with a duration
\* in whole minutes fires only when every reading younger than that crosses, as
\* docs/alert-email-triggers.md:69 says; _check_trigger counts readings.
THEOREM DurationAsksForItsMinutes == TriggerSpec => []DurationMeansItsMinutes
<1>1. ASSUME TriggerInv PROVE DurationMeansItsMinutes
  <2>. SUFFICES ASSUME trigger.mode # "consecutive", trigger.duration % 60 = 0,
                       NEW d \in Culprits(trigger), OneTable(d), Spaced(d),
                       NEW x \in Readings(d), x.age * Pace[trigger] < trigger.duration
                PROVE  Crosses(x, trigger)
    BY DEF DurationMeansItsMinutes
  <2>1. trigger \in Triggers
    BY <1>1 DEF TriggerInv, TriggerTypes
  <2>2. d \in DeviceIds(trigger) /\ CheckTrigger(ValuesOf(d, trigger), trigger)
    BY DEF Culprits
  <2>3. d \in Reporters
    BY <1>1, <2>2, TargetIs
  <2>4. PICK n \in Names : Readings(d) = ToSet(series[d][n])
    BY DEF OneTable
  <2>5. PICK q, s, w, c, p : /\ q = series[d] /\ s = q[n] /\ w = ValuesOf(d, trigger)
                             /\ c = Needed(trigger) /\ p = Pace[trigger]
    OBVIOUS
  <2>6. \A m \in Names : q[m] \in Seq(Reading) /\ Sorted(q[m])
    BY <1>1, <2>3, <2>5 DEF TriggerInv, TriggerTypes, NewestFirst
  <2>7. \A m \in Names : m # n => q[m] = <<>>
    BY <1>1, <2>3, <2>4, <2>5, OthersEmpty
  <2>8. IsWindow(w, s, trigger) /\ s \in Seq(Reading) /\ Sorted(s) /\ Readings(d) = ToSet(s)
    <3>1. PICK ss : ss = [i \in DOMAIN Labels |-> InWindow(q[Labels[i]], trigger)]
      OBVIOUS
    <3>2. w = FlattenSeq(ss)
      BY <2>5, <3>1 DEF ValuesOf
    <3>3. IsWindow(FlattenSeq(ss), q[n], trigger)
      BY <2>1, <2>6, <2>7, <3>1, OneWindow
    <3>. QED  BY <2>4, <2>5, <2>6, <3>2, <3>3
  <2>9. w \in Seq(Reading) /\ DOMAIN w = 1..Len(w) /\ Len(w) \in Nat
    BY <2>8 DEF IsWindow
  <2>10. c \in Nat /\ p \in Nat /\ trigger.mode \in Modes
    BY <2>1, <2>5, TriggerNumbers
  <2>11. c <= Len(w) /\ \A i \in 1..c : Crosses(w[i], trigger)
    <3>1. CASE trigger.mode = "duration"
      <4>1. /\ \A i \in 1..c : i <= Len(w) => Crosses(w[i], trigger)
            /\ Len(w) >= c
        BY <2>2, <2>5, <3>1 DEF CheckTrigger
      <4>. QED  BY <2>9, <2>10, <4>1
    <3>2. CASE trigger.mode = "consecutive_and_duration"
      <4>1. LeadingRun(w, trigger) >= c
        BY <2>2, <2>5, <3>2 DEF CheckTrigger
      <4>. QED  BY <2>9, <2>10, <4>1, RunReaches
    <3>. QED  BY <2>10, <3>1, <3>2 DEF Modes
  <2>12. PICK k \in DOMAIN s : x = s[k]
    BY <2>8 DEF ToSet
  <2>13. s[k].age * p >= (k - 1) * 60
    <3>1. ASSUME NEW i \in DOMAIN s, NEW j \in DOMAIN s, s[i].age < s[j].age PROVE (s[j].age - s[i].age) * p >= 60
      <4>1. s[i] \in Readings(d) /\ s[j] \in Readings(d)
        BY <2>8 DEF ToSet
      <4>. QED  BY <2>5, <3>1, <4>1 DEF Spaced
    <3>. QED  BY <2>8, <2>10, <3>1, MinutesOlder
  <2>14. k <= c /\ k \in 1..Len(s)
    <3>1. trigger.duration \in Nat /\ k \in 1..Len(s) /\ Len(s) \in Nat
      BY <2>1, <2>8, TriggerConstants DEF Trigger
    <3>2. PICK D, a : D = trigger.duration /\ a = s[k].age * p
      OBVIOUS
    <3>3. a \in Int
      <4>1. s[k].age \in Nat
        BY <2>8, ReadingIs
      <4>. QED  BY <2>10, <3>2, <4>1, SMT
    <3>4. (k - 1) * 60 < D /\ D \in Nat /\ D % 60 = 0
      <4>1. a >= (k - 1) * 60 /\ a < D
        BY <2>5, <2>12, <2>13, <3>2
      <4>2. D \in Nat /\ D % 60 = 0 /\ k \in Int
        BY <3>1, <3>2
      <4>3. (k - 1) * 60 < D
        BY <3>3, <4>1, <4>2
      <4>. QED  BY <4>2, <4>3
    <3>5. k <= D \div 60
      <4>1. PICK h \in Nat : h = D \div 60 /\ D = h * 60
        BY <3>4
      <4>2. k <= h
        BY <3>1, <3>4, <4>1
      <4>. QED  BY <4>1, <4>2
    <3>6. D \div 60 <= c
      BY <2>5, <3>2, <3>4 DEF Needed
    <3>. QED  BY <2>10, <3>1, <3>4, <3>5, <3>6
  <2>15. k \in 1..c /\ k \in DOMAIN w /\ w[k] = s[k]
    BY <2>8, <2>9, <2>10, <2>11, <2>14 DEF IsWindow
  <2>. QED  BY <2>11, <2>12, <2>15
<1>. QED  BY <1>1, TriggerInvInit, TriggerInvNext, PTL DEF TriggerSpec
=============================================================================
