--------------------------- MODULE OrderBookProofs --------------------------
(***************************************************************************)
(* The tables of orders and trades follow the indexed blocks: theorems     *)
(* about OrderBook for any number of orders, logs in a block, blocks and   *)
(* reorganisations.                                                        *)
(***************************************************************************)
EXTENDS OrderBook, WellFoundedInduction, SequenceTheorems, TLAPS

(***************************************************************************)
(* Recursion.  The library's induction theorems take an operator; what is  *)
(* proved by induction here is stated as a set of naturals instead, whose  *)
(* complement would have a least element.                                  *)
(***************************************************************************)

\* The order of the naturals has no infinite descent.
LEMMA LessIsWellFounded == IsWellFoundedOn({p \in Nat \X Nat : p[1] < p[2]}, Nat)
BY NatLessThanWellFounded DEF OpToRel

\* A set that has 0 and the successor of each of its members has all naturals.
LEMMA SetInduction ==
  ASSUME NEW S, 0 \in S, \A n \in Nat : n \in S => n + 1 \in S
  PROVE  Nat \subseteq S
<1> DEFINE T == Nat \ S
           R == {p \in Nat \X Nat : p[1] < p[2]}
<1>1. SUFFICES ASSUME T # {} PROVE FALSE
  OBVIOUS
<1>2. PICK x \in T : \A y \in T : ~(<<y, x>> \in R)
  <2>1. T \subseteq Nat /\ IsWellFoundedOn(R, Nat)
    BY LessIsWellFounded
  <2> HIDE DEF T, R
  <2> QED
    BY <1>1, <2>1, WFMin
<1>3. x \in Nat /\ x # 0
  OBVIOUS
<1>4. x - 1 \in Nat /\ x - 1 \in S => x \in S
  <2>1. x - 1 \in Nat /\ (x - 1) + 1 = x
    BY <1>3
  <2> QED
    BY <2>1
<1>5. x - 1 \in T
  BY <1>2, <1>4
<1>6. <<x - 1, x>> \in R
  BY <1>3, <1>5
<1> QED
  BY <1>2, <1>5, <1>6

(***************************************************************************)
(* Sums.                                                                   *)
(***************************************************************************)

\* f is the function of partial sums that Total defines.
Sums(f, s, n) == f = [i \in 0..n |-> IF i = 0 THEN 0 ELSE f[i - 1] + s[i]]

\* There is such a function, up to any position.
LEMMA SumsExist ==
  ASSUME NEW s, NEW n \in Nat
  PROVE  \E f : Sums(f, s, n)
<1> DEFINE S == {m \in Nat : \E f : Sums(f, s, m)}
<1>1. 0 \in S
  <2>1. Sums([i \in 0..0 |-> 0], s, 0)
    BY DEF Sums
  <2> QED
    BY <2>1
<1>2. ASSUME NEW m \in Nat, m \in S
      PROVE  m + 1 \in S
  <2>1. PICK f : Sums(f, s, m)
    BY <1>2
  <2> DEFINE g == [i \in 0..(m + 1) |-> IF i = m + 1 THEN f[m] + s[m + 1] ELSE f[i]]
  <2>2. \A i \in 0..m : f[i] = IF i = 0 THEN 0 ELSE f[i - 1] + s[i]
    BY <2>1 DEF Sums
  <2>3. ASSUME NEW i \in 0..(m + 1)
        PROVE  g[i] = IF i = 0 THEN 0 ELSE g[i - 1] + s[i]
    <3>1. CASE i = m + 1
      <4>1. i # 0 /\ i - 1 = m /\ m \in 0..(m + 1) /\ m # m + 1
        BY <3>1
      <4>2. g[i] = f[m] + s[m + 1] /\ g[m] = f[m]
        BY <3>1, <4>1
      <4> QED
        BY <3>1, <4>1, <4>2
    <3>2. CASE i = 0
      <4>1. i \in 0..m /\ i # m + 1
        BY <3>2
      <4> QED
        BY <2>2, <3>2, <4>1
    <3>3. CASE i # 0 /\ i # m + 1
      <4>1. i \in 0..m /\ i - 1 \in 0..(m + 1) /\ i - 1 # m + 1
        BY <3>3
      <4>2. g[i] = f[i] /\ g[i - 1] = f[i - 1]
        BY <3>3, <4>1
      <4> QED
        BY <2>2, <3>3, <4>1, <4>2
    <3> QED
      BY <3>1, <3>2, <3>3
  <2>4. Sums(g, s, m + 1)
    BY <2>3 DEF Sums
  <2> QED
    BY <2>4
<1>3. Nat \subseteq S
  <2> HIDE DEF S
  <2> QED
    BY <1>1, <1>2, SetInduction
<1> QED
  BY <1>3

\* The partial sums of two sequences agree as far as the sequences do.
LEMMA SumsAgree ==
  ASSUME NEW f, NEW g, NEW s, NEW t, NEW n \in Nat, NEW m \in Nat, m <= n,
         Sums(f, s, n), Sums(g, t, m), \A i \in 1..m : s[i] = t[i]
  PROVE  \A i \in 0..m : f[i] = g[i]
<1> DEFINE S == {k \in Nat : k <= m => f[k] = g[k]}
<1>0. /\ \A i \in 0..n : f[i] = IF i = 0 THEN 0 ELSE f[i - 1] + s[i]
      /\ \A i \in 0..m : g[i] = IF i = 0 THEN 0 ELSE g[i - 1] + t[i]
  BY DEF Sums
<1>1. 0 \in S
  <2>1. 0 \in 0..n /\ 0 \in 0..m
    OBVIOUS
  <2> QED
    BY <1>0, <2>1
<1>2. ASSUME NEW k \in Nat, k \in S
      PROVE  k + 1 \in S
  <2>1. SUFFICES ASSUME k + 1 <= m
                 PROVE  f[k + 1] = g[k + 1]
    OBVIOUS
  <2>2. /\ k + 1 \in 0..n /\ k + 1 \in 0..m /\ k + 1 \in 1..m /\ k + 1 # 0
        /\ (k + 1) - 1 = k /\ k <= m
    BY <2>1
  <2>3. f[k + 1] = f[k] + s[k + 1] /\ g[k + 1] = g[k] + t[k + 1]
    BY <1>0, <2>2
  <2> QED
    BY <1>2, <2>2, <2>3
<1>3. Nat \subseteq S
  <2> HIDE DEF S
  <2> QED
    BY <1>1, <1>2, SetInduction
<1>4. ASSUME NEW i \in 0..m
      PROVE  f[i] = g[i]
  <2>1. i \in Nat /\ i <= m
    OBVIOUS
  <2> QED
    BY <1>3, <2>1
<1> QED
  BY <1>4

\* What Total returns is the last of the partial sums.
LEMMA TotalIs ==
  ASSUME NEW s, NEW n \in Nat, Len(s) = n, NEW f, Sums(f, s, n)
  PROVE  Total(s) = f[n]
<1> DEFINE h == CHOOSE g : g = [i \in 0..Len(s) |-> IF i = 0 THEN 0 ELSE g[i - 1] + s[i]]
<1>1. Sums(h, s, n)
  BY SumsExist DEF Sums
<1>2. Total(s) = h[n]
  BY DEF Total
<1>3. \A i \in 0..n : h[i] = f[i]
  <2> HIDE DEF h
  <2> QED
    BY <1>1, SumsAgree
<1> QED
  BY <1>2, <1>3

\* The sum of nothing.
LEMMA TotalEmpty ==
  ASSUME NEW s, Len(s) = 0
  PROVE  Total(s) = 0
<1>1. PICK f : Sums(f, s, 0)
  BY SumsExist
<1> QED
  BY <1>1, TotalIs DEF Sums

\* The sum with one number more.
LEMMA TotalAppend ==
  ASSUME NEW s, NEW t, NEW n \in Nat, Len(s) = n, Len(t) = n + 1,
         \A i \in 1..n : t[i] = s[i]
  PROVE  Total(t) = Total(s) + t[n + 1]
<1>1. PICK f : Sums(f, s, n)
  BY SumsExist
<1>2. PICK g : Sums(g, t, n + 1)
  <2>1. n + 1 \in Nat
    OBVIOUS
  <2> QED
    BY <2>1, SumsExist
<1>3. \A i \in 0..n : g[i] = f[i]
  BY <1>1, <1>2, SumsAgree
<1>4. Total(s) = f[n] /\ Total(t) = g[n + 1]
  BY <1>1, <1>2, TotalIs
<1>5. g[n + 1] = g[n] + t[n + 1]
  BY <1>2 DEF Sums
<1> QED
  BY <1>3, <1>4, <1>5

\* The sum of equal numbers.
LEMMA TotalSame ==
  ASSUME NEW s, NEW t, NEW n \in Nat, Len(s) = n, Len(t) = n, \A i \in 1..n : t[i] = s[i]
  PROVE  Total(t) = Total(s)
<1>1. PICK f : Sums(f, s, n)
  BY SumsExist
<1>2. PICK g : Sums(g, t, n)
  BY SumsExist
<1>3. \A i \in 0..n : g[i] = f[i]
  BY <1>1, <1>2, SumsAgree
<1>4. Total(s) = f[n] /\ Total(t) = g[n]
  BY <1>1, <1>2, TotalIs
<1> QED
  BY <1>3, <1>4

\* The sum of naturals is a natural.
LEMMA TotalNat ==
  ASSUME NEW s, NEW n \in Nat, Len(s) = n, \A i \in 1..n : s[i] \in Nat
  PROVE  Total(s) \in Nat
<1>1. PICK f : Sums(f, s, n)
  BY SumsExist
<1> DEFINE S == {k \in Nat : k <= n => f[k] \in Nat}
<1>0. \A i \in 0..n : f[i] = IF i = 0 THEN 0 ELSE f[i - 1] + s[i]
  BY <1>1 DEF Sums
<1>2. 0 \in S
  BY <1>0
<1>3. ASSUME NEW k \in Nat, k \in S
      PROVE  k + 1 \in S
  <2>1. SUFFICES ASSUME k + 1 <= n
                 PROVE  f[k + 1] \in Nat
    OBVIOUS
  <2>2. k + 1 \in 0..n /\ k + 1 \in 1..n /\ k + 1 # 0 /\ (k + 1) - 1 = k /\ k <= n
    BY <2>1
  <2>3. f[k + 1] = f[k] + s[k + 1] /\ f[k] \in Nat /\ s[k + 1] \in Nat
    BY <1>0, <1>3, <2>2
  <2> QED
    BY <2>3
<1>4. Nat \subseteq S
  <2> HIDE DEF S
  <2> QED
    BY <1>2, <1>3, SetInduction
<1> QED
  BY <1>1, <1>4, TotalIs

(***************************************************************************)
(* The transaction of a block: its logs are processed one after another.   *)
(***************************************************************************)

\* f is the function of the tables after each log that ProcessAll defines.
Additions(f, d, logs, n, m) == f = [i \in 0..m |-> IF i = 0 THEN d ELSE Process(f[i - 1], logs[i], n, i)]

\* There is such a function, up to any log.
LEMMA AdditionsExist ==
  ASSUME NEW d, NEW logs, NEW n, NEW m \in Nat
  PROVE  \E f : Additions(f, d, logs, n, m)
<1> DEFINE S == {k \in Nat : \E f : Additions(f, d, logs, n, k)}
<1>1. 0 \in S
  <2>1. Additions([i \in 0..0 |-> d], d, logs, n, 0)
    BY DEF Additions
  <2> QED
    BY <2>1
<1>2. ASSUME NEW k \in Nat, k \in S
      PROVE  k + 1 \in S
  <2>1. PICK f : Additions(f, d, logs, n, k)
    BY <1>2
  <2> DEFINE last == Process(f[k], logs[k + 1], n, k + 1)
             g == [i \in 0..(k + 1) |-> IF i = k + 1 THEN last ELSE f[i]]
  <2>2. \A i \in 0..k : f[i] = IF i = 0 THEN d ELSE Process(f[i - 1], logs[i], n, i)
    BY <2>1 DEF Additions
  <2>3. ASSUME NEW i \in 0..(k + 1)
        PROVE  g[i] = IF i = 0 THEN d ELSE Process(g[i - 1], logs[i], n, i)
    <3>1. CASE i = k + 1
      <4>1. i # 0 /\ i - 1 = k /\ k \in 0..(k + 1) /\ k # k + 1
        BY <3>1
      <4>2. g[i] = last /\ g[k] = f[k]
        BY <3>1, <4>1
      <4> QED
        BY <3>1, <4>1, <4>2
    <3>2. CASE i = 0
      <4>1. i \in 0..k /\ i # k + 1
        BY <3>2
      <4> QED
        BY <2>2, <3>2, <4>1
    <3>3. CASE i # 0 /\ i # k + 1
      <4>1. i \in 0..k /\ i - 1 \in 0..(k + 1) /\ i - 1 # k + 1
        BY <3>3
      <4>2. g[i] = f[i] /\ g[i - 1] = f[i - 1]
        BY <3>3, <4>1
      <4> QED
        BY <2>2, <3>3, <4>1, <4>2
    <3> QED
      BY <3>1, <3>2, <3>3
  <2>4. Additions(g, d, logs, n, k + 1)
    BY <2>3 DEF Additions
  <2> QED
    BY <2>4
<1>3. Nat \subseteq S
  <2> HIDE DEF S
  <2> QED
    BY <1>1, <1>2, SetInduction
<1> QED
  BY <1>3

\* The tables go from the first to the last log one at a time.
LEMMA ProcessAllSteps ==
  ASSUME NEW d, NEW logs, NEW n, NEW m \in Nat, Len(logs) = m
  PROVE  \E f : /\ f[0] = d /\ ProcessAll(d, logs, n) = f[m]
                /\ \A i \in 1..m : f[i] = Process(f[i - 1], logs[i], n, i)
<1> DEFINE h == CHOOSE f : f = [i \in 0..Len(logs) |-> IF i = 0 THEN d ELSE Process(f[i - 1], logs[i], n, i)]
<1>1. Additions(h, d, logs, n, m)
  <2>1. \E f : Additions(f, d, logs, n, m)
    BY AdditionsExist
  <2>2. \E f : f = [i \in 0..Len(logs) |-> IF i = 0 THEN d ELSE Process(f[i - 1], logs[i], n, i)]
    BY <2>1 DEF Additions
  <2>3. h = [i \in 0..Len(logs) |-> IF i = 0 THEN d ELSE Process(h[i - 1], logs[i], n, i)]
    BY <2>2
  <2> HIDE DEF h
  <2> QED
    BY <2>3 DEF Additions
<1>2. ProcessAll(d, logs, n) = h[m]
  BY DEF ProcessAll
<1>3. \A i \in 0..m : h[i] = IF i = 0 THEN d ELSE Process(h[i - 1], logs[i], n, i)
  <2> HIDE DEF h
  <2> QED
    BY <1>1 DEF Additions
<1>4. h[0] = d /\ \A i \in 1..m : h[i] = Process(h[i - 1], logs[i], n, i)
  <2> HIDE DEF h
  <2>1. 0 \in 0..m /\ \A i \in 1..m : i \in 0..m /\ i # 0
    OBVIOUS
  <2> QED
    BY <1>3, <2>1
<1> QED
  BY <1>2, <1>4

\* f is the function of the tables after each log that ProcessRemovals defines.
Removals(f, d, logs, n, m) == f = [i \in 0..m |-> IF i = 0 THEN d ELSE ProcessRemoval(f[i - 1], logs[i], n)]

\* There is such a function, up to any log.
LEMMA RemovalsExist ==
  ASSUME NEW d, NEW logs, NEW n, NEW m \in Nat
  PROVE  \E f : Removals(f, d, logs, n, m)
<1> DEFINE S == {k \in Nat : \E f : Removals(f, d, logs, n, k)}
<1>1. 0 \in S
  <2>1. Removals([i \in 0..0 |-> d], d, logs, n, 0)
    BY DEF Removals
  <2> QED
    BY <2>1
<1>2. ASSUME NEW k \in Nat, k \in S
      PROVE  k + 1 \in S
  <2>1. PICK f : Removals(f, d, logs, n, k)
    BY <1>2
  <2> DEFINE last == ProcessRemoval(f[k], logs[k + 1], n)
             g == [i \in 0..(k + 1) |-> IF i = k + 1 THEN last ELSE f[i]]
  <2>2. \A i \in 0..k : f[i] = IF i = 0 THEN d ELSE ProcessRemoval(f[i - 1], logs[i], n)
    BY <2>1 DEF Removals
  <2>3. ASSUME NEW i \in 0..(k + 1)
        PROVE  g[i] = IF i = 0 THEN d ELSE ProcessRemoval(g[i - 1], logs[i], n)
    <3>1. CASE i = k + 1
      <4>1. i # 0 /\ i - 1 = k /\ k \in 0..(k + 1) /\ k # k + 1
        BY <3>1
      <4>2. g[i] = last /\ g[k] = f[k]
        BY <3>1, <4>1
      <4> QED
        BY <3>1, <4>1, <4>2
    <3>2. CASE i = 0
      <4>1. i \in 0..k /\ i # k + 1
        BY <3>2
      <4> QED
        BY <2>2, <3>2, <4>1
    <3>3. CASE i # 0 /\ i # k + 1
      <4>1. i \in 0..k /\ i - 1 \in 0..(k + 1) /\ i - 1 # k + 1
        BY <3>3
      <4>2. g[i] = f[i] /\ g[i - 1] = f[i - 1]
        BY <3>3, <4>1
      <4> QED
        BY <2>2, <3>3, <4>1, <4>2
    <3> QED
      BY <3>1, <3>2, <3>3
  <2>4. Removals(g, d, logs, n, k + 1)
    BY <2>3 DEF Removals
  <2> QED
    BY <2>4
<1>3. Nat \subseteq S
  <2> HIDE DEF S
  <2> QED
    BY <1>1, <1>2, SetInduction
<1> QED
  BY <1>3

\* The tables go from the first to the last log one at a time.
LEMMA ProcessRemovalsSteps ==
  ASSUME NEW d, NEW logs, NEW n, NEW m \in Nat, Len(logs) = m
  PROVE  \E f : /\ f[0] = d /\ ProcessRemovals(d, logs, n) = f[m]
                /\ \A i \in 1..m : f[i] = ProcessRemoval(f[i - 1], logs[i], n)
<1> DEFINE h == CHOOSE f : f = [i \in 0..Len(logs) |-> IF i = 0 THEN d ELSE ProcessRemoval(f[i - 1], logs[i], n)]
<1>1. Removals(h, d, logs, n, m)
  <2>1. \E f : Removals(f, d, logs, n, m)
    BY RemovalsExist
  <2>2. \E f : f = [i \in 0..Len(logs) |-> IF i = 0 THEN d ELSE ProcessRemoval(f[i - 1], logs[i], n)]
    BY <2>1 DEF Removals
  <2>3. h = [i \in 0..Len(logs) |-> IF i = 0 THEN d ELSE ProcessRemoval(h[i - 1], logs[i], n)]
    BY <2>2
  <2> HIDE DEF h
  <2> QED
    BY <2>3 DEF Removals
<1>2. ProcessRemovals(d, logs, n) = h[m]
  BY DEF ProcessRemovals
<1>3. \A i \in 0..m : h[i] = IF i = 0 THEN d ELSE ProcessRemoval(h[i - 1], logs[i], n)
  <2> HIDE DEF h
  <2> QED
    BY <1>1 DEF Removals
<1>4. h[0] = d /\ \A i \in 1..m : h[i] = ProcessRemoval(h[i - 1], logs[i], n)
  <2> HIDE DEF h
  <2>1. 0 \in 0..m /\ \A i \in 1..m : i \in 0..m /\ i # 0
    OBVIOUS
  <2> QED
    BY <1>3, <2>1
<1> QED
  BY <1>2, <1>4

(***************************************************************************)
(* What the logs of a chain say, one log more at a time: With is a chain   *)
(* whose last block has the given logs.                                    *)
(***************************************************************************)
Kind == {"OrderCreated", "OrderCanceled", "OrderFilled"}
LogRecord == [kind : Kind, order : Order, amount : Nat]
BlockRecord == [born : Nat, logs : Seq(LogRecord)]

With(blocks, b, logs) == Append(blocks, [born |-> b, logs |-> logs])
LogsHave(logs, kind, o) == \E i \in 1..Len(logs) : logs[i].kind = kind /\ logs[i].order = o

\* A chain with one block more.
LEMMA WithIs ==
  ASSUME NEW blocks \in Seq(BlockRecord), NEW b \in Nat, NEW logs \in Seq(LogRecord)
  PROVE  /\ With(blocks, b, logs) \in Seq(BlockRecord)
         /\ Len(With(blocks, b, logs)) = Len(blocks) + 1
<1>1. [born |-> b, logs |-> logs] \in BlockRecord
  BY DEF BlockRecord
<1> QED
  BY <1>1 DEF With

LEMMA WithLast ==
  ASSUME NEW blocks \in Seq(BlockRecord), NEW b \in Nat, NEW logs \in Seq(LogRecord),
         NEW n, n = Len(blocks) + 1
  PROVE  /\ With(blocks, b, logs)[n].logs = logs
         /\ With(blocks, b, logs)[n].born = b
<1>1. [born |-> b, logs |-> logs] \in BlockRecord
  BY DEF BlockRecord
<1>2. With(blocks, b, logs)[n] = [born |-> b, logs |-> logs]
  BY <1>1 DEF With
<1> QED
  BY <1>2

LEMMA WithOld ==
  ASSUME NEW blocks \in Seq(BlockRecord), NEW b \in Nat, NEW logs \in Seq(LogRecord),
         NEW n \in 1..Len(blocks)
  PROVE  With(blocks, b, logs)[n] = blocks[n]
<1>1. [born |-> b, logs |-> logs] \in BlockRecord
  BY DEF BlockRecord
<1> QED
  BY <1>1 DEF With

\* The logs of a block of a chain.
LEMMA BlockHasLogs ==
  ASSUME NEW blocks \in Seq(BlockRecord), NEW n \in 1..Len(blocks)
  PROVE  /\ blocks[n] \in BlockRecord /\ blocks[n].born \in Nat /\ blocks[n].logs \in Seq(LogRecord)
         /\ Len(blocks) \in Nat /\ Len(blocks[n].logs) \in Nat
<1>1. blocks[n] \in BlockRecord /\ Len(blocks) \in Nat
  OBVIOUS
<1>2. blocks[n].born \in Nat /\ blocks[n].logs \in Seq(LogRecord)
  BY <1>1 DEF BlockRecord
<1>3. Len(blocks[n].logs) \in Nat
  BY <1>2
<1> QED
  BY <1>1, <1>2, <1>3

\* An order has a log of a kind in the blocks before the last or in the last.
LEMMA HasWith ==
  ASSUME NEW blocks \in Seq(BlockRecord), NEW b \in Nat, NEW logs \in Seq(LogRecord),
         NEW kind, NEW o
  PROVE  Has(With(blocks, b, logs), kind, o) <=>
           Has(blocks, kind, o) \/ LogsHave(logs, kind, o)
<1>0. PICK all : all = With(blocks, b, logs)
  OBVIOUS
<1>1. /\ Len(all) = Len(blocks) + 1 /\ Len(blocks) \in Nat
      /\ \A n \in 1..Len(blocks) : all[n] = blocks[n]
      /\ all[Len(blocks) + 1].logs = logs
  <2>1. Len(blocks) \in Nat
    OBVIOUS
  <2>2. Len(With(blocks, b, logs)) = Len(blocks) + 1
    BY WithIs
  <2>3. With(blocks, b, logs)[Len(blocks) + 1].logs = logs
    BY WithLast
  <2>4. \A n \in 1..Len(blocks) : With(blocks, b, logs)[n] = blocks[n]
    BY WithOld
  <2> QED
    BY <1>0, <2>1, <2>2, <2>3, <2>4
<1>2. ASSUME Has(all, kind, o)
      PROVE  Has(blocks, kind, o) \/ LogsHave(logs, kind, o)
  <2>1. PICK n \in 1..Len(all) :
          \E i \in 1..Len(all[n].logs) : all[n].logs[i].kind = kind /\ all[n].logs[i].order = o
    BY <1>2 DEF Has
  <2>2. CASE n \in 1..Len(blocks)
    BY <1>1, <2>1, <2>2 DEF Has
  <2>3. CASE n = Len(blocks) + 1
    BY <1>1, <2>1, <2>3 DEF LogsHave
  <2> QED
    BY <1>1, <2>2, <2>3
<1>3. ASSUME Has(blocks, kind, o)
      PROVE  Has(all, kind, o)
  <2>1. PICK n \in 1..Len(blocks) :
          \E i \in 1..Len(blocks[n].logs) : blocks[n].logs[i].kind = kind /\ blocks[n].logs[i].order = o
    BY <1>3 DEF Has
  <2>2. n \in 1..Len(all) /\ all[n] = blocks[n]
    BY <1>1
  <2> QED
    BY <2>1, <2>2 DEF Has
<1>4. ASSUME LogsHave(logs, kind, o)
      PROVE  Has(all, kind, o)
  <2>1. Len(blocks) + 1 \in 1..Len(all)
    BY <1>1
  <2> QED
    BY <1>1, <1>4, <2>1 DEF Has, LogsHave
<1> QED
  BY <1>0, <1>2, <1>3, <1>4

\* Nothing has happened on an empty chain.
LEMMA NothingHas ==
  ASSUME NEW kind, NEW o
  PROVE  ~Has(<<>>, kind, o)
BY DEF Has

\* An empty block changes nothing.
LEMMA HasEmptyBlock ==
  ASSUME NEW blocks \in Seq(BlockRecord), NEW b \in Nat, NEW kind, NEW o
  PROVE  Has(With(blocks, b, <<>>), kind, o) <=> Has(blocks, kind, o)
<1>0. PICK none : none = <<>>
  OBVIOUS
<1>1. none \in Seq(LogRecord) /\ Len(none) = 0
  BY <1>0
<1>2. Has(With(blocks, b, none), kind, o) <=>
        Has(blocks, kind, o) \/ LogsHave(none, kind, o)
  BY <1>1, HasWith
<1> QED
  BY <1>0, <1>1, <1>2 DEF LogsHave

\* A log adds what it says.
LEMMA HasLog ==
  ASSUME NEW blocks \in Seq(BlockRecord), NEW b \in Nat, NEW logs \in Seq(LogRecord),
         NEW l \in LogRecord, NEW kind, NEW o
  PROVE  Has(With(blocks, b, Append(logs, l)), kind, o) <=>
           Has(With(blocks, b, logs), kind, o) \/ (l.kind = kind /\ l.order = o)
<1>0. PICK all : all = Append(logs, l)
  OBVIOUS
<1>1. /\ all \in Seq(LogRecord) /\ Len(all) = Len(logs) + 1 /\ Len(logs) \in Nat
      /\ \A i \in 1..Len(logs) : all[i] = logs[i]
      /\ all[Len(logs) + 1] = l
  BY <1>0
<1>2. (\E i \in 1..Len(all) : all[i].kind = kind /\ all[i].order = o) <=>
        (\E i \in 1..Len(logs) : logs[i].kind = kind /\ logs[i].order = o) \/ (l.kind = kind /\ l.order = o)
  <2>1. ASSUME NEW i \in 1..Len(all), all[i].kind = kind /\ all[i].order = o, i # Len(logs) + 1
        PROVE  \E j \in 1..Len(logs) : logs[j].kind = kind /\ logs[j].order = o
    <3>1. i \in 1..Len(logs) /\ all[i] = logs[i]
      BY <1>1, <2>1
    <3> QED
      BY <2>1, <3>1
  <2>2. ASSUME NEW i \in 1..Len(logs), logs[i].kind = kind /\ logs[i].order = o
        PROVE  \E j \in 1..Len(all) : all[j].kind = kind /\ all[j].order = o
    <3>1. i \in 1..Len(all) /\ all[i] = logs[i]
      BY <1>1
    <3> QED
      BY <2>2, <3>1
  <2>3. Len(logs) + 1 \in 1..Len(all)
    BY <1>1
  <2> QED
    BY <1>1, <2>1, <2>2, <2>3
<1>3. Has(With(blocks, b, logs), kind, o) <=>
        Has(blocks, kind, o) \/ LogsHave(logs, kind, o)
  BY HasWith
<1>4. Has(With(blocks, b, all), kind, o) <=>
        Has(blocks, kind, o) \/ LogsHave(all, kind, o)
  BY <1>1, HasWith
<1> QED
  BY <1>0, <1>2, <1>3, <1>4 DEF LogsHave

\* What a log fills is a natural.
LEMMA FilledByNat ==
  ASSUME NEW l \in LogRecord, NEW orders
  PROVE  FilledBy(l, orders) \in Nat
BY DEF FilledBy, LogRecord

LEMMA FilledByAllNat ==
  ASSUME NEW logs \in Seq(LogRecord), NEW orders
  PROVE  FilledByAll(logs, orders) \in Nat
<1> DEFINE s == [i \in 1..Len(logs) |-> FilledBy(logs[i], orders)]
<1>1. Len(logs) \in Nat /\ Len(s) = Len(logs) /\ \A i \in 1..Len(logs) : s[i] = FilledBy(logs[i], orders)
  OBVIOUS
<1>2. \A i \in 1..Len(logs) : s[i] \in Nat
  <2>1. \A i \in 1..Len(logs) : logs[i] \in LogRecord
    OBVIOUS
  <2> HIDE DEF s
  <2> QED
    BY <1>1, <2>1, FilledByNat
<1>3. Total(s) \in Nat
  <2> HIDE DEF s
  <2> QED
    BY <1>1, <1>2, TotalNat
<1> QED
  BY <1>3 DEF FilledByAll

\* Amounts filled, with one log more.
LEMMA FilledByAllAppend ==
  ASSUME NEW logs \in Seq(LogRecord), NEW l \in LogRecord, NEW orders
  PROVE  FilledByAll(Append(logs, l), orders) = FilledByAll(logs, orders) + FilledBy(l, orders)
<1>0. PICK all : all = Append(logs, l)
  OBVIOUS
<1>1. /\ all \in Seq(LogRecord) /\ Len(all) = Len(logs) + 1 /\ Len(logs) \in Nat
      /\ \A i \in 1..Len(logs) : all[i] = logs[i]
      /\ all[Len(logs) + 1] = l
  BY <1>0
<1> DEFINE s == [i \in 1..Len(logs) |-> FilledBy(logs[i], orders)]
           t == [i \in 1..Len(all) |-> FilledBy(all[i], orders)]
<1>2. /\ Len(s) = Len(logs) /\ Len(t) = Len(logs) + 1
      /\ \A i \in 1..Len(logs) : t[i] = s[i]
      /\ t[Len(logs) + 1] = FilledBy(l, orders)
  BY <1>1
<1>3. Total(t) = Total(s) + t[Len(logs) + 1]
  <2> HIDE DEF s, t
  <2> QED
    BY <1>1, <1>2, TotalAppend
<1>4. FilledByAll(all, orders) = Total(t) /\ FilledByAll(logs, orders) = Total(s)
  BY DEF FilledByAll
<1> QED
  BY <1>0, <1>2, <1>3, <1>4

LEMMA FilledByAllEmpty ==
  ASSUME NEW orders
  PROVE  FilledByAll(<<>>, orders) = 0
<1> DEFINE s == [i \in 1..Len(<<>>) |-> FilledBy(<<>>[i], orders)]
<1>1. Len(s) = 0
  OBVIOUS
<1>2. Total(s) = 0
  <2> HIDE DEF s
  <2> QED
    BY <1>1, TotalEmpty
<1> QED
  BY <1>2 DEF FilledByAll

\* Amounts filled, with one block more.
LEMMA FilledWith ==
  ASSUME NEW blocks \in Seq(BlockRecord), NEW b \in Nat, NEW logs \in Seq(LogRecord), NEW orders
  PROVE  FilledIn(With(blocks, b, logs), orders) = FilledIn(blocks, orders) + FilledByAll(logs, orders)
<1>0. PICK all : all = With(blocks, b, logs)
  OBVIOUS
<1>1. /\ Len(all) = Len(blocks) + 1 /\ Len(blocks) \in Nat
      /\ \A n \in 1..Len(blocks) : all[n] = blocks[n]
      /\ all[Len(blocks) + 1].logs = logs
  <2>1. Len(blocks) \in Nat
    OBVIOUS
  <2>2. Len(With(blocks, b, logs)) = Len(blocks) + 1
    BY WithIs
  <2>3. With(blocks, b, logs)[Len(blocks) + 1].logs = logs
    BY WithLast
  <2>4. \A n \in 1..Len(blocks) : With(blocks, b, logs)[n] = blocks[n]
    BY WithOld
  <2> QED
    BY <1>0, <2>1, <2>2, <2>3, <2>4
<1> DEFINE s == [n \in 1..Len(blocks) |-> FilledByAll(blocks[n].logs, orders)]
           t == [n \in 1..Len(all) |-> FilledByAll(all[n].logs, orders)]
<1>2. /\ Len(s) = Len(blocks) /\ Len(t) = Len(blocks) + 1
      /\ \A n \in 1..Len(blocks) : t[n] = s[n]
      /\ t[Len(blocks) + 1] = FilledByAll(logs, orders)
  BY <1>1
<1>3. Total(t) = Total(s) + t[Len(blocks) + 1]
  <2> HIDE DEF s, t
  <2> QED
    BY <1>1, <1>2, TotalAppend
<1>4. FilledIn(all, orders) = Total(t) /\ FilledIn(blocks, orders) = Total(s)
  BY DEF FilledIn
<1> QED
  BY <1>0, <1>2, <1>3, <1>4

LEMMA FilledNothing ==
  ASSUME NEW orders
  PROVE  FilledIn(<<>>, orders) = 0
<1> DEFINE s == [n \in 1..Len(<<>>) |-> FilledByAll(<<>>[n].logs, orders)]
<1>1. Len(s) = 0
  OBVIOUS
<1>2. Total(s) = 0
  <2> HIDE DEF s
  <2> QED
    BY <1>1, TotalEmpty
<1> QED
  BY <1>2 DEF FilledIn

LEMMA FilledNat ==
  ASSUME NEW blocks \in Seq(BlockRecord), NEW orders
  PROVE  FilledIn(blocks, orders) \in Nat
<1> DEFINE s == [n \in 1..Len(blocks) |-> FilledByAll(blocks[n].logs, orders)]
<1>1. /\ Len(blocks) \in Nat /\ Len(s) = Len(blocks)
      /\ \A n \in 1..Len(blocks) : s[n] = FilledByAll(blocks[n].logs, orders)
  OBVIOUS
<1>2. \A n \in 1..Len(blocks) : blocks[n].logs \in Seq(LogRecord)
  BY BlockHasLogs
<1>3. \A n \in 1..Len(blocks) : s[n] \in Nat
  <2> HIDE DEF s
  <2> QED
    BY <1>1, <1>2, FilledByAllNat
<1>4. Total(s) \in Nat
  <2> HIDE DEF s
  <2> QED
    BY <1>1, <1>3, TotalNat
<1> QED
  BY <1>4 DEF FilledIn

LEMMA FilledEmptyBlock ==
  ASSUME NEW blocks \in Seq(BlockRecord), NEW b \in Nat, NEW orders
  PROVE  FilledIn(With(blocks, b, <<>>), orders) = FilledIn(blocks, orders)
<1>1. <<>> \in Seq(LogRecord)
  OBVIOUS
<1>2. FilledIn(With(blocks, b, <<>>), orders) = FilledIn(blocks, orders) + FilledByAll(<<>>, orders)
  BY <1>1, FilledWith
<1>3. FilledByAll(<<>>, orders) = 0 /\ FilledIn(blocks, orders) \in Nat
  BY FilledByAllEmpty, FilledNat
<1> QED
  BY <1>2, <1>3

LEMMA FilledLog ==
  ASSUME NEW blocks \in Seq(BlockRecord), NEW b \in Nat, NEW logs \in Seq(LogRecord),
         NEW l \in LogRecord, NEW orders
  PROVE  FilledIn(With(blocks, b, Append(logs, l)), orders) =
           FilledIn(With(blocks, b, logs), orders) + FilledBy(l, orders)
<1>1. Append(logs, l) \in Seq(LogRecord)
  OBVIOUS
<1>2. /\ FilledIn(With(blocks, b, Append(logs, l)), orders) =
           FilledIn(blocks, orders) + FilledByAll(Append(logs, l), orders)
      /\ FilledIn(With(blocks, b, logs), orders) = FilledIn(blocks, orders) + FilledByAll(logs, orders)
  BY <1>1, FilledWith
<1>3. FilledByAll(Append(logs, l), orders) = FilledByAll(logs, orders) + FilledBy(l, orders)
  BY FilledByAllAppend
<1>4. FilledIn(blocks, orders) \in Nat /\ FilledByAll(logs, orders) \in Nat /\ FilledBy(l, orders) \in Nat
  BY FilledNat, FilledByAllNat, FilledByNat
<1> QED
  BY <1>2, <1>3, <1>4

(***************************************************************************)
(* A lawful chain: each of its logs may follow those before it, and at any *)
(* log what is left of an order is within its amount.                      *)
(***************************************************************************)
Sane(blocks) ==
  \A o \in Order :
    /\ LeftIn(blocks, o) \in 0..Amount[o]
    /\ ~CreatedIn(blocks, o) => LeftIn(blocks, o) = Amount[o] /\ ~CanceledIn(blocks, o)

LawfulLast(blocks, b, logs) ==
  \A i \in 0..Len(logs) :
    /\ Sane(With(blocks, b, SubSeq(logs, 1, i)))
    /\ i < Len(logs) => logs[i + 1] \in Following(With(blocks, b, SubSeq(logs, 1, i)))

Lawful(blocks) ==
  /\ blocks \in Seq(BlockRecord)
  /\ \A n \in 1..Len(blocks) : LawfulLast(SubSeq(blocks, 1, n - 1), blocks[n].born, blocks[n].logs)

\* The amount left of an order is an integer.
LEMMA LeftInt ==
  ASSUME NEW blocks \in Seq(BlockRecord), NEW o \in Order
  PROVE  LeftIn(blocks, o) \in Int /\ Amount[o] \in Nat \ {0}
<1>1. FilledIn(blocks, {o}) \in Nat
  BY FilledNat
<1>2. Amount[o] \in Nat \ {0}
  BY OrderAssumption
<1> QED
  BY <1>1, <1>2 DEF LeftIn

\* A log that may follow creates an order there is not, or cancels or fills an
\* open one by no more than is left.
LEMMA FollowingIs ==
  ASSUME NEW blocks \in Seq(BlockRecord), NEW l \in Following(blocks)
  PROVE  /\ l \in LogRecord
         /\ \/ l.kind = "OrderCreated" /\ ~CreatedIn(blocks, l.order)
            \/ l.kind = "OrderCanceled" /\ CreatedIn(blocks, l.order) /\ OpenIn(blocks, l.order)
            \/ /\ l.kind = "OrderFilled" /\ CreatedIn(blocks, l.order) /\ OpenIn(blocks, l.order)
               /\ l.amount \in 1..LeftIn(blocks, l.order)
<1>1. PICK o \in Order :
        \/ ~CreatedIn(blocks, o) /\ l = Log("OrderCreated", o, 0)
        \/ CreatedIn(blocks, o) /\ OpenIn(blocks, o) /\ l = Log("OrderCanceled", o, 0)
        \/ /\ CreatedIn(blocks, o) /\ OpenIn(blocks, o)
           /\ \E n \in 1..LeftIn(blocks, o) : l = Log("OrderFilled", o, n)
  BY DEF Following
<1>2. LeftIn(blocks, o) \in Int
  BY LeftInt
<1>3. CASE ~CreatedIn(blocks, o) /\ l = Log("OrderCreated", o, 0)
  BY <1>3 DEF Log, LogRecord, Kind
<1>4. CASE CreatedIn(blocks, o) /\ OpenIn(blocks, o) /\ l = Log("OrderCanceled", o, 0)
  BY <1>4 DEF Log, LogRecord, Kind
<1>5. CASE /\ CreatedIn(blocks, o) /\ OpenIn(blocks, o)
           /\ \E n \in 1..LeftIn(blocks, o) : l = Log("OrderFilled", o, n)
  <2>1. PICK n \in 1..LeftIn(blocks, o) : l = Log("OrderFilled", o, n)
    BY <1>5
  <2>2. l.kind = "OrderFilled" /\ l.order = o /\ l.amount = n /\ n \in Nat
    BY <1>2, <2>1 DEF Log
  <2>3. l \in LogRecord
    BY <2>1, <2>2 DEF Log, LogRecord, Kind
  <2> QED
    BY <1>5, <2>2, <2>3
<1> QED
  BY <1>1, <1>3, <1>4, <1>5

\* What a log changes for each order.
LEMMA LogChanges ==
  ASSUME NEW blocks \in Seq(BlockRecord), NEW b \in Nat, NEW logs \in Seq(LogRecord),
         NEW l \in LogRecord, NEW o \in Order
  PROVE  /\ CreatedIn(With(blocks, b, Append(logs, l)), o) <=>
              CreatedIn(With(blocks, b, logs), o) \/ (l.kind = "OrderCreated" /\ l.order = o)
         /\ CanceledIn(With(blocks, b, Append(logs, l)), o) <=>
              CanceledIn(With(blocks, b, logs), o) \/ (l.kind = "OrderCanceled" /\ l.order = o)
         /\ LeftIn(With(blocks, b, Append(logs, l)), o) =
              LeftIn(With(blocks, b, logs), o) - FilledBy(l, {o})
<1>1. CreatedIn(With(blocks, b, Append(logs, l)), o) <=>
        CreatedIn(With(blocks, b, logs), o) \/ (l.kind = "OrderCreated" /\ l.order = o)
  BY HasLog DEF CreatedIn
<1>2. CanceledIn(With(blocks, b, Append(logs, l)), o) <=>
        CanceledIn(With(blocks, b, logs), o) \/ (l.kind = "OrderCanceled" /\ l.order = o)
  BY HasLog DEF CanceledIn
<1>3. FilledIn(With(blocks, b, Append(logs, l)), {o}) =
        FilledIn(With(blocks, b, logs), {o}) + FilledBy(l, {o})
  BY FilledLog
<1>4. FilledIn(With(blocks, b, logs), {o}) \in Nat /\ FilledBy(l, {o}) \in Nat
  BY WithIs, FilledNat, FilledByNat
<1>5. Amount[o] \in Nat
  BY OrderAssumption
<1>6. LeftIn(With(blocks, b, Append(logs, l)), o) = LeftIn(With(blocks, b, logs), o) - FilledBy(l, {o})
  BY <1>3, <1>4, <1>5 DEF LeftIn
<1> QED
  BY <1>1, <1>2, <1>6

LEMMA EmptyBlockChanges ==
  ASSUME NEW blocks \in Seq(BlockRecord), NEW b \in Nat, NEW o \in Order
  PROVE  /\ CreatedIn(With(blocks, b, <<>>), o) <=> CreatedIn(blocks, o)
         /\ CanceledIn(With(blocks, b, <<>>), o) <=> CanceledIn(blocks, o)
         /\ LeftIn(With(blocks, b, <<>>), o) = LeftIn(blocks, o)
<1>1. CreatedIn(With(blocks, b, <<>>), o) <=> CreatedIn(blocks, o)
  BY HasEmptyBlock DEF CreatedIn
<1>2. CanceledIn(With(blocks, b, <<>>), o) <=> CanceledIn(blocks, o)
  BY HasEmptyBlock DEF CanceledIn
<1>3. LeftIn(With(blocks, b, <<>>), o) = LeftIn(blocks, o)
  BY FilledEmptyBlock DEF LeftIn
<1> QED
  BY <1>1, <1>2, <1>3

LEMMA SaneNothing == Sane(<<>>)
<1>1. \A o \in Order : ~CreatedIn(<<>>, o) /\ ~CanceledIn(<<>>, o)
  BY NothingHas DEF CreatedIn, CanceledIn
<1>2. ASSUME NEW o \in Order
      PROVE  LeftIn(<<>>, o) = Amount[o] /\ Amount[o] \in 0..Amount[o]
  <2>1. Amount[o] \in Nat
    BY OrderAssumption
  <2> QED
    BY <2>1, FilledNothing DEF LeftIn
<1> QED
  BY <1>1, <1>2 DEF Sane

\* An empty block lets the same logs follow.
LEMMA EmptyBlockFollowing ==
  ASSUME NEW blocks \in Seq(BlockRecord), NEW b \in Nat
  PROVE  /\ Following(With(blocks, b, <<>>)) = Following(blocks)
         /\ Sane(With(blocks, b, <<>>)) <=> Sane(blocks)
<1>0. PICK more : more = With(blocks, b, <<>>)
  OBVIOUS
<1>1. \A o \in Order : /\ CreatedIn(more, o) <=> CreatedIn(blocks, o)
                       /\ CanceledIn(more, o) <=> CanceledIn(blocks, o)
                       /\ LeftIn(more, o) = LeftIn(blocks, o)
  BY <1>0, EmptyBlockChanges
<1>2. \A o \in Order : OpenIn(more, o) <=> OpenIn(blocks, o)
  BY <1>1 DEF OpenIn
<1>3. Sane(more) <=> Sane(blocks)
  BY <1>1 DEF Sane
<1>4. Following(more) = Following(blocks)
  BY <1>1, <1>2 DEF Following
<1> QED
  BY <1>0, <1>3, <1>4

\* A log that may follow leaves amounts within their bounds.
LEMMA SaneLog ==
  ASSUME NEW blocks \in Seq(BlockRecord), NEW b \in Nat, NEW logs \in Seq(LogRecord),
         Sane(With(blocks, b, logs)), NEW l \in Following(With(blocks, b, logs))
  PROVE  l \in LogRecord /\ Sane(With(blocks, b, Append(logs, l)))
<1>0. PICK old : old = With(blocks, b, logs)
  OBVIOUS
<1>1. old \in Seq(BlockRecord) /\ l \in Following(old) /\ Sane(old)
  BY <1>0, WithIs
<1>2. /\ l \in LogRecord
      /\ \/ l.kind = "OrderCreated" /\ ~CreatedIn(old, l.order)
         \/ l.kind = "OrderCanceled" /\ CreatedIn(old, l.order) /\ OpenIn(old, l.order)
         \/ /\ l.kind = "OrderFilled" /\ CreatedIn(old, l.order) /\ OpenIn(old, l.order)
            /\ l.amount \in 1..LeftIn(old, l.order)
  BY <1>1, FollowingIs
<1>3. ASSUME NEW o \in Order
      PROVE  /\ LeftIn(With(blocks, b, Append(logs, l)), o) \in 0..Amount[o]
             /\ ~CreatedIn(With(blocks, b, Append(logs, l)), o) =>
                  /\ LeftIn(With(blocks, b, Append(logs, l)), o) = Amount[o]
                  /\ ~CanceledIn(With(blocks, b, Append(logs, l)), o)
  <2>0. PICK new : new = With(blocks, b, Append(logs, l))
    OBVIOUS
  <2>1. /\ CreatedIn(new, o) <=> CreatedIn(old, o) \/ (l.kind = "OrderCreated" /\ l.order = o)
        /\ CanceledIn(new, o) <=> CanceledIn(old, o) \/ (l.kind = "OrderCanceled" /\ l.order = o)
        /\ LeftIn(new, o) = LeftIn(old, o) - FilledBy(l, {o})
    <3>1. /\ CreatedIn(With(blocks, b, Append(logs, l)), o) <=>
               CreatedIn(With(blocks, b, logs), o) \/ (l.kind = "OrderCreated" /\ l.order = o)
          /\ CanceledIn(With(blocks, b, Append(logs, l)), o) <=>
               CanceledIn(With(blocks, b, logs), o) \/ (l.kind = "OrderCanceled" /\ l.order = o)
          /\ LeftIn(With(blocks, b, Append(logs, l)), o) =
               LeftIn(With(blocks, b, logs), o) - FilledBy(l, {o})
      BY <1>2, LogChanges
    <3> QED
      BY <1>0, <2>0, <3>1
  <2>2. /\ LeftIn(old, o) \in 0..Amount[o] /\ Amount[o] \in Nat
        /\ ~CreatedIn(old, o) => LeftIn(old, o) = Amount[o] /\ ~CanceledIn(old, o)
    BY <1>1, OrderAssumption DEF Sane
  <2>3. CASE l.kind = "OrderFilled" /\ l.order = o
    <3>1. FilledBy(l, {o}) = l.amount
      BY <2>3 DEF FilledBy
    <3>2. CreatedIn(old, o) /\ l.amount \in 1..LeftIn(old, o)
      BY <1>2, <2>3
    <3>3. LeftIn(new, o) \in 0..Amount[o]
      BY <2>1, <2>2, <3>1, <3>2
    <3> QED
      BY <2>0, <2>1, <3>2, <3>3
  <2>4. CASE ~(l.kind = "OrderFilled" /\ l.order = o)
    <3>1. FilledBy(l, {o}) = 0
      BY <2>4 DEF FilledBy
    <3>2. LeftIn(new, o) = LeftIn(old, o)
      BY <2>1, <2>2, <3>1
    <3>3. ~CreatedIn(new, o) => ~CanceledIn(new, o)
      BY <1>2, <2>1, <2>2
    <3> QED
      BY <2>0, <2>1, <2>2, <3>2, <3>3
  <2> QED
    BY <2>3, <2>4
<1>4. Sane(With(blocks, b, Append(logs, l)))
  BY <1>3 DEF Sane
<1> QED
  BY <1>2, <1>4

\* The first logs of a block and one more.
LEMMA PrefixOfAppend ==
  ASSUME NEW logs \in Seq(LogRecord), NEW l \in LogRecord
  PROVE  /\ \A i \in 0..Len(logs) : SubSeq(Append(logs, l), 1, i) = SubSeq(logs, 1, i)
         /\ SubSeq(Append(logs, l), 1, Len(logs) + 1) = Append(logs, l)
         /\ SubSeq(logs, 1, Len(logs)) = logs
         /\ SubSeq(logs, 1, 0) = <<>>
OBVIOUS

LEMMA PrefixStep ==
  ASSUME NEW logs \in Seq(LogRecord), NEW i \in 1..Len(logs)
  PROVE  /\ SubSeq(logs, 1, i) = Append(SubSeq(logs, 1, i - 1), logs[i])
         /\ SubSeq(logs, 1, i - 1) \in Seq(LogRecord) /\ logs[i] \in LogRecord
         /\ Len(SubSeq(logs, 1, i - 1)) = i - 1
OBVIOUS

LEMMA PrefixIsLogs ==
  ASSUME NEW logs \in Seq(LogRecord), NEW i \in 0..Len(logs)
  PROVE  SubSeq(logs, 1, i) \in Seq(LogRecord) /\ Len(SubSeq(logs, 1, i)) = i
OBVIOUS

LEMMA LawfulEmptyBlock ==
  ASSUME NEW blocks \in Seq(BlockRecord), Sane(blocks), NEW b \in Nat
  PROVE  LawfulLast(blocks, b, <<>>)
<1>0. PICK none : none = <<>>
  OBVIOUS
<1>1. Len(none) = 0 /\ SubSeq(none, 1, 0) = none
  BY <1>0
<1>2. Sane(With(blocks, b, none))
  BY <1>0, EmptyBlockFollowing
<1>3. ASSUME NEW i \in 0..Len(none)
      PROVE  /\ Sane(With(blocks, b, SubSeq(none, 1, i)))
             /\ ~(i < Len(none))
  <2>1. i = 0 /\ ~(i < Len(none))
    BY <1>1
  <2>2. SubSeq(none, 1, i) = none
    BY <1>1, <2>1
  <2> QED
    BY <1>2, <2>1, <2>2
<1>4. LawfulLast(blocks, b, none)
  BY <1>3 DEF LawfulLast
<1> QED
  BY <1>0, <1>4

LEMMA LawfulLog ==
  ASSUME NEW blocks \in Seq(BlockRecord), NEW b \in Nat, NEW logs \in Seq(LogRecord),
         LawfulLast(blocks, b, logs), NEW l \in Following(With(blocks, b, logs))
  PROVE  l \in LogRecord /\ LawfulLast(blocks, b, Append(logs, l))
<1>0. Len(logs) \in Nat /\ Len(logs) \in 0..Len(logs) /\ SubSeq(logs, 1, Len(logs)) = logs
  OBVIOUS
<1>1. Sane(With(blocks, b, logs))
  BY <1>0 DEF LawfulLast
<1>2. l \in LogRecord /\ Sane(With(blocks, b, Append(logs, l)))
  BY <1>1, SaneLog
<1>3. PICK all : all = Append(logs, l)
  OBVIOUS
<1>4. /\ Len(all) = Len(logs) + 1 /\ \A i \in 1..Len(logs) : all[i] = logs[i]
      /\ all[Len(logs) + 1] = l
  BY <1>2, <1>3
<1>5. /\ \A i \in 0..Len(logs) : SubSeq(all, 1, i) = SubSeq(logs, 1, i)
      /\ SubSeq(all, 1, Len(logs) + 1) = all
  BY <1>2, <1>3, PrefixOfAppend
<1>6. ASSUME NEW i \in 0..Len(all)
      PROVE  /\ Sane(With(blocks, b, SubSeq(all, 1, i)))
             /\ i < Len(all) => all[i + 1] \in Following(With(blocks, b, SubSeq(all, 1, i)))
  <2>1. CASE i = Len(logs) + 1
    <3>1. SubSeq(all, 1, i) = all
      BY <1>5, <2>1
    <3>2. Sane(With(blocks, b, all)) /\ ~(i < Len(all))
      BY <1>0, <1>2, <1>3, <1>4, <2>1
    <3> QED
      BY <3>1, <3>2
  <2>2. CASE i = Len(logs)
    <3>1. SubSeq(all, 1, i) = logs
      BY <1>0, <1>5, <2>2
    <3> QED
      BY <1>1, <1>4, <2>2, <3>1
  <2>3. CASE i < Len(logs)
    <3>1. i \in 0..Len(logs) /\ i + 1 \in 1..Len(logs)
      BY <1>0, <2>3
    <3>2. SubSeq(all, 1, i) = SubSeq(logs, 1, i) /\ all[i + 1] = logs[i + 1]
      BY <1>4, <1>5, <3>1
    <3>3. /\ Sane(With(blocks, b, SubSeq(logs, 1, i)))
          /\ logs[i + 1] \in Following(With(blocks, b, SubSeq(logs, 1, i)))
      BY <2>3, <3>1 DEF LawfulLast
    <3> QED
      BY <3>2, <3>3
  <2>4. i = Len(logs) + 1 \/ i = Len(logs) \/ i < Len(logs)
    <3>1. i \in 0..(Len(logs) + 1) /\ Len(logs) \in Nat
      BY <1>0, <1>4
    <3> QED
      BY <3>1
  <2> QED
    BY <2>1, <2>2, <2>3, <2>4
<1>7. LawfulLast(blocks, b, all)
  BY <1>6 DEF LawfulLast
<1> QED
  BY <1>2, <1>3, <1>7

\* A chain is its first blocks and its last one.
LEMMA LastBlock ==
  ASSUME NEW blocks \in Seq(BlockRecord), NEW n \in 1..Len(blocks)
  PROVE  /\ SubSeq(blocks, 1, n - 1) \in Seq(BlockRecord) /\ Len(SubSeq(blocks, 1, n - 1)) = n - 1
         /\ SubSeq(blocks, 1, n) = With(SubSeq(blocks, 1, n - 1), blocks[n].born, blocks[n].logs)
<1>1. SubSeq(blocks, 1, n - 1) \in Seq(BlockRecord) /\ Len(SubSeq(blocks, 1, n - 1)) = n - 1
  OBVIOUS
<1>2. blocks[n] = [born |-> blocks[n].born, logs |-> blocks[n].logs]
  <2>1. blocks[n] \in BlockRecord
    OBVIOUS
  <2> QED
    BY <2>1 DEF BlockRecord
<1>3. SubSeq(blocks, 1, n) = Append(SubSeq(blocks, 1, n - 1), blocks[n])
  OBVIOUS
<1> QED
  BY <1>1, <1>2, <1>3 DEF With

\* Lawful chains are sane, have lawful beginnings and lawful extensions.
LEMMA LawfulIsSane ==
  ASSUME NEW blocks, Lawful(blocks)
  PROVE  blocks \in Seq(BlockRecord) /\ Sane(blocks)
<1>1. blocks \in Seq(BlockRecord)
  BY DEF Lawful
<1>2. CASE Len(blocks) = 0
  <2>1. blocks = <<>>
    BY <1>1, <1>2
  <2> QED
    BY <1>1, <2>1, SaneNothing
<1>3. CASE Len(blocks) # 0
  <2>0. PICK n : n = Len(blocks)
    OBVIOUS
  <2>1. n \in 1..Len(blocks) /\ SubSeq(blocks, 1, n) = blocks
    BY <1>1, <1>3, <2>0
  <2>2. LawfulLast(SubSeq(blocks, 1, n - 1), blocks[n].born, blocks[n].logs)
    BY <2>1 DEF Lawful
  <2>3. blocks[n].logs \in Seq(LogRecord)
    BY <1>1, <2>1, BlockHasLogs
  <2>4. PICK logs \in Seq(LogRecord) : logs = blocks[n].logs
    BY <2>3
  <2>5. Len(logs) \in 0..Len(logs) /\ SubSeq(logs, 1, Len(logs)) = logs
    OBVIOUS
  <2>6. Sane(With(SubSeq(blocks, 1, n - 1), blocks[n].born, logs))
    BY <2>2, <2>4, <2>5 DEF LawfulLast
  <2>7. blocks = With(SubSeq(blocks, 1, n - 1), blocks[n].born, logs)
    BY <1>1, <2>1, <2>4, LastBlock
  <2> QED
    BY <1>1, <2>6, <2>7
<1> QED
  BY <1>2, <1>3

LEMMA LawfulPrefix ==
  ASSUME NEW blocks, Lawful(blocks), NEW m \in 0..Len(blocks)
  PROVE  Lawful(SubSeq(blocks, 1, m))
<1>1. blocks \in Seq(BlockRecord)
  BY DEF Lawful
<1>2. PICK first : first = SubSeq(blocks, 1, m)
  OBVIOUS
<1>3. first \in Seq(BlockRecord) /\ Len(first) = m /\ m <= Len(blocks) /\ m \in Nat /\ Len(blocks) \in Nat
  BY <1>1, <1>2
<1>4. ASSUME NEW n \in 1..Len(first)
      PROVE  LawfulLast(SubSeq(first, 1, n - 1), first[n].born, first[n].logs)
  <2>1. n \in 1..Len(blocks) /\ first[n] = blocks[n] /\ SubSeq(first, 1, n - 1) = SubSeq(blocks, 1, n - 1)
    BY <1>1, <1>2, <1>3
  <2>2. LawfulLast(SubSeq(blocks, 1, n - 1), blocks[n].born, blocks[n].logs)
    BY <2>1 DEF Lawful
  <2> QED
    BY <2>1, <2>2
<1> QED
  BY <1>2, <1>3, <1>4 DEF Lawful

LEMMA LawfulWith ==
  ASSUME NEW blocks, Lawful(blocks), NEW b \in Nat, NEW logs \in Seq(LogRecord),
         LawfulLast(blocks, b, logs)
  PROVE  Lawful(With(blocks, b, logs))
<1>1. blocks \in Seq(BlockRecord)
  BY DEF Lawful
<1>2. PICK all : all = With(blocks, b, logs)
  OBVIOUS
<1>3. all \in Seq(BlockRecord) /\ Len(all) = Len(blocks) + 1 /\ Len(blocks) \in Nat
  <2>1. Len(blocks) \in Nat
    BY <1>1
  <2> QED
    BY <1>1, <1>2, <2>1, WithIs
<1>4. all[Len(blocks) + 1].logs = logs /\ all[Len(blocks) + 1].born = b
  <2>1. PICK n : n = Len(blocks) + 1
    OBVIOUS
  <2>2. With(blocks, b, logs)[n].logs = logs /\ With(blocks, b, logs)[n].born = b
    BY <1>1, <2>1, WithLast
  <2> QED
    BY <1>2, <2>1, <2>2
<1>5. \A n \in 1..Len(blocks) : all[n] = blocks[n]
  BY <1>1, <1>2, WithOld
<1>6. \A n \in 0..Len(blocks) : SubSeq(all, 1, n) = SubSeq(blocks, 1, n)
  BY <1>1, <1>3, <1>5
<1>7. SubSeq(blocks, 1, Len(blocks)) = blocks
  BY <1>1
<1>8. ASSUME NEW n \in 1..Len(all)
      PROVE  LawfulLast(SubSeq(all, 1, n - 1), all[n].born, all[n].logs)
  <2>1. CASE n \in 1..Len(blocks)
    <3>1. n - 1 \in 0..Len(blocks)
      BY <1>3, <2>1
    <3>2. all[n] = blocks[n] /\ SubSeq(all, 1, n - 1) = SubSeq(blocks, 1, n - 1)
      BY <1>5, <1>6, <2>1, <3>1
    <3>3. LawfulLast(SubSeq(blocks, 1, n - 1), blocks[n].born, blocks[n].logs)
      BY <2>1 DEF Lawful
    <3> QED
      BY <3>2, <3>3
  <2>2. CASE n = Len(blocks) + 1
    <3>1. n - 1 = Len(blocks) /\ Len(blocks) \in 0..Len(blocks)
      BY <1>3, <2>2
    <3>2. SubSeq(all, 1, n - 1) = blocks
      BY <1>6, <1>7, <3>1
    <3> QED
      BY <1>4, <2>2, <3>2
  <2> QED
    BY <1>3, <2>1, <2>2
<1> QED
  BY <1>2, <1>3, <1>8 DEF Lawful

LEMMA LawfulNothing == Lawful(<<>>)
BY DEF Lawful

\* f is the function that BlockLogs defines: the logs a block can have, by number.
Firsts(f, n) ==
  f = [i \in 0..n |-> IF i = 0 THEN {<<>>} ELSE UNION {OneMore(logs) : logs \in f[i - 1]}]

\* There is such a function, up to any number.
LEMMA FirstsExist ==
  ASSUME NEW n \in Nat
  PROVE  \E f : Firsts(f, n)
<1> DEFINE S == {m \in Nat : \E f : Firsts(f, m)}
<1>1. 0 \in S
  <2>1. Firsts([i \in 0..0 |-> {<<>>}], 0)
    BY DEF Firsts
  <2> QED
    BY <2>1
<1>2. ASSUME NEW m \in Nat, m \in S
      PROVE  m + 1 \in S
  <2>1. PICK f : Firsts(f, m)
    BY <1>2
  <2> DEFINE more(i) == UNION {OneMore(logs) : logs \in f[i]}
             g == [i \in 0..(m + 1) |-> IF i = m + 1 THEN more(m) ELSE f[i]]
  <2>2. \A i \in 0..m : f[i] = IF i = 0 THEN {<<>>} ELSE more(i - 1)
    BY <2>1 DEF Firsts
  <2>3. ASSUME NEW i \in 0..(m + 1)
        PROVE  g[i] = IF i = 0 THEN {<<>>} ELSE UNION {OneMore(logs) : logs \in g[i - 1]}
    <3>1. CASE i = m + 1
      <4>1. i # 0 /\ i - 1 = m /\ m \in 0..(m + 1) /\ m # m + 1
        BY <3>1
      <4>2. g[i] = more(m) /\ g[m] = f[m]
        BY <3>1, <4>1
      <4> QED
        BY <3>1, <4>1, <4>2
    <3>2. CASE i = 0
      <4>1. i \in 0..m /\ i # m + 1
        BY <3>2
      <4> QED
        BY <2>2, <3>2, <4>1
    <3>3. CASE i # 0 /\ i # m + 1
      <4>1. i \in 0..m /\ i - 1 \in 0..(m + 1) /\ i - 1 # m + 1
        BY <3>3
      <4>2. g[i] = f[i] /\ g[i - 1] = f[i - 1]
        BY <3>3, <4>1
      <4> QED
        BY <2>2, <3>3, <4>1, <4>2
    <3> QED
      BY <3>1, <3>2, <3>3
  <2>4. Firsts(g, m + 1)
    BY <2>3 DEF Firsts
  <2> QED
    BY <2>4
<1>3. Nat \subseteq S
  <2> HIDE DEF S
  <2> QED
    BY <1>1, <1>2, SetInduction
<1> QED
  BY <1>3

\* However many logs a block may have, they are lawful ones.
LEMMA BlockLogsLawful ==
  ASSUME Lawful(chain), reorgs \in Nat, NEW logs \in BlockLogs
  PROVE  logs \in Seq(LogRecord) /\ LawfulLast(chain, reorgs, logs)
<1> DEFINE Good(ls) == ls \in Seq(LogRecord) /\ LawfulLast(chain, reorgs, ls)
<1>1. chain \in Seq(BlockRecord) /\ Sane(chain) /\ MaxLogs \in Nat
  BY LawfulIsSane, OrderAssumption
<1>2. Good(<<>>)
  <2>1. PICK none : none = <<>>
    OBVIOUS
  <2>2. none \in Seq(LogRecord) /\ LawfulLast(chain, reorgs, none)
    BY <1>1, <2>1, LawfulEmptyBlock
  <2> QED
    BY <2>1, <2>2
<1>3. ASSUME NEW ls, Good(ls), NEW more \in OneMore(ls)
      PROVE  Good(more)
  <2>1. PICK l \in Following(Append(chain, Block(ls))) : more = Append(ls, l)
    BY <1>3 DEF OneMore
  <2>2. Append(chain, Block(ls)) = With(chain, reorgs, ls)
    BY DEF Block, With
  <2>3. l \in LogRecord /\ LawfulLast(chain, reorgs, Append(ls, l))
    BY <1>1, <1>3, <2>1, <2>2, LawfulLog
  <2>4. Append(ls, l) \in Seq(LogRecord)
    BY <1>3, <2>3
  <2> QED
    BY <2>1, <2>3, <2>4
<1>4. PICK f : Firsts(f, MaxLogs)
  BY <1>1, FirstsExist
<1> DEFINE first == CHOOSE g : Firsts(g, MaxLogs)
<1>5. Firsts(first, MaxLogs)
  BY <1>4
<1>6. /\ \A i \in 0..MaxLogs :
           first[i] = IF i = 0 THEN {<<>>} ELSE UNION {OneMore(ls) : ls \in first[i - 1]}
      /\ BlockLogs = UNION {first[i] : i \in 0..MaxLogs}
  <2>1. BlockLogs = UNION {first[i] : i \in 0..MaxLogs}
    BY DEF BlockLogs, Firsts
  <2> HIDE DEF first
  <2> QED
    BY <1>5, <2>1 DEF Firsts
<1> HIDE DEF first
<1> DEFINE S == {n \in Nat : n <= MaxLogs => \A ls \in first[n] : Good(ls)}
<1>7. 0 \in S
  <2>1. 0 \in 0..MaxLogs
    BY <1>1
  <2>2. first[0] = {<<>>}
    BY <1>6, <2>1
  <2> HIDE DEF Good
  <2> QED
    BY <1>2, <2>2
<1>8. ASSUME NEW n \in Nat, n \in S
      PROVE  n + 1 \in S
  <2> SUFFICES ASSUME n + 1 <= MaxLogs, NEW ls \in first[n + 1]
               PROVE  Good(ls)
    OBVIOUS
  <2>1. n + 1 \in 0..MaxLogs /\ n + 1 # 0 /\ (n + 1) - 1 = n /\ n <= MaxLogs
    BY <1>1
  <2>2. first[n + 1] = UNION {OneMore(fewer) : fewer \in first[n]}
    BY <1>6, <2>1
  <2>3. PICK fewer \in first[n] : ls \in OneMore(fewer)
    BY <2>2
  <2>4. Good(fewer)
    BY <1>8, <2>1, <2>3
  <2> QED
    BY <1>3, <2>3, <2>4
<1>9. Nat \subseteq S
  <2> HIDE DEF S
  <2> QED
    BY <1>7, <1>8, SetInduction
<1>10. PICK n \in 0..MaxLogs : logs \in first[n]
  BY <1>6
<1>11. n \in Nat /\ n <= MaxLogs
  BY <1>1
<1> QED
  BY <1>9, <1>10, <1>11

\* The chain stays lawful.
LEMMA LawfulMined ==
  ASSUME Lawful(chain), reorgs \in Nat, MineBlock
  PROVE  Lawful(chain') /\ \E b \in Nat, logs \in Seq(LogRecord) :
           b = reorgs /\ LawfulLast(chain, b, logs) /\ chain' = With(chain, b, logs)
<1>1. PICK logs \in BlockLogs : chain' = Append(chain, Block(logs))
  BY DEF MineBlock
<1>2. chain' = With(chain, reorgs, logs)
  BY <1>1 DEF Block, With
<1>3. logs \in Seq(LogRecord) /\ LawfulLast(chain, reorgs, logs)
  BY BlockLogsLawful
<1>4. Lawful(With(chain, reorgs, logs))
  BY <1>3, LawfulWith
<1> QED
  BY <1>2, <1>3, <1>4

(***************************************************************************)
(* The tables, and what each operator on them changes.                     *)
(***************************************************************************)
OrderRow == [state : {"OPEN", "CANCELED", "FILLED"}, left : Int, orphaned : BOOLEAN]
Books == UNION {[S -> OrderRow] : S \in SUBSET Order}
Metrics == UNION {[S -> Int] : S \in SUBSET Order}
Trade == [order : Order, block : Nat, index : Nat, amount : Nat]
Tables ==
  [book : Books, canceled : SUBSET Order, trades : SUBSET Trade, volume : Int, lastTrade : Nat,
   pendingOrphan : SUBSET Side, pendingLiquidity : BOOLEAN, metrics : Metrics, thrown : BOOLEAN]

\* A book has rows for some of the orders.
LEMMA BookIs ==
  ASSUME NEW book
  PROVE  book \in Books <=> /\ DOMAIN book \subseteq Order /\ book = [o \in DOMAIN book |-> book[o]]
                            /\ \A o \in DOMAIN book : book[o] \in OrderRow
<1>1. ASSUME book \in Books
      PROVE  /\ DOMAIN book \subseteq Order /\ book = [o \in DOMAIN book |-> book[o]]
             /\ \A o \in DOMAIN book : book[o] \in OrderRow
  <2>1. PICK S \in SUBSET Order : book \in [S -> OrderRow]
    BY <1>1 DEF Books
  <2> QED
    BY <2>1
<1>2. ASSUME /\ DOMAIN book \subseteq Order /\ book = [o \in DOMAIN book |-> book[o]]
             /\ \A o \in DOMAIN book : book[o] \in OrderRow
      PROVE  book \in Books
  <2>1. book \in [DOMAIN book -> OrderRow]
    BY <1>2
  <2> QED
    BY <1>2, <2>1 DEF Books
<1> QED
  BY <1>1, <1>2

LEMMA RowIs ==
  ASSUME NEW row \in OrderRow
  PROVE  /\ row.state \in {"OPEN", "CANCELED", "FILLED"} /\ row.left \in Int /\ row.orphaned \in BOOLEAN
         /\ row = [state |-> row.state, left |-> row.left, orphaned |-> row.orphaned]
BY DEF OrderRow

\* The open orders are a value that "metrics" may have.
LEMMA OpenOrdersIs ==
  ASSUME NEW d, d.book \in Books
  PROVE  OpenOrders(d) \in Metrics
<1> DEFINE S == {p \in DOMAIN d.book : d.book[p].state = "OPEN"}
<1>1. S \subseteq Order /\ \A o \in S : d.book[o] \in OrderRow
  BY BookIs
<1>2. \A o \in S : d.book[o].left \in Int
  BY <1>1, RowIs
<1>3. [o \in S |-> d.book[o].left] \in [S -> Int]
  <2> HIDE DEF S
  <2> QED
    BY <1>2
<1> QED
  BY <1>1, <1>3 DEF OpenOrders, Metrics

LEMMA OpenOrdersSame ==
  ASSUME NEW d, NEW e, d.book = e.book
  PROVE  OpenOrders(d) = OpenOrders(e)
BY DEF OpenOrders

\* The type of the fields.
LEMMA TablesAre ==
  ASSUME NEW d \in Tables
  PROVE  /\ d.book \in Books /\ d.canceled \subseteq Order /\ d.trades \subseteq Trade /\ d.volume \in Int
         /\ d.lastTrade \in Nat /\ d.pendingOrphan \subseteq Side /\ d.pendingLiquidity \in BOOLEAN
         /\ d.metrics \in Metrics /\ d.thrown \in BOOLEAN
BY DEF Tables

\* updateLiquidityMetricsForMarketAndOutcomes changes the metrics only.
LEMMA MetricsEffect ==
  ASSUME NEW d \in Tables
  PROVE  /\ UpdateLiquidityMetrics(d) \in Tables
         /\ UpdateLiquidityMetrics(d).book = d.book /\ UpdateLiquidityMetrics(d).canceled = d.canceled
         /\ UpdateLiquidityMetrics(d).trades = d.trades /\ UpdateLiquidityMetrics(d).volume = d.volume
         /\ UpdateLiquidityMetrics(d).lastTrade = d.lastTrade
         /\ UpdateLiquidityMetrics(d).pendingOrphan = d.pendingOrphan
         /\ UpdateLiquidityMetrics(d).pendingLiquidity = d.pendingLiquidity
         /\ UpdateLiquidityMetrics(d).thrown = d.thrown
         /\ UpdateLiquidityMetrics(d).metrics = OpenOrders(UpdateLiquidityMetrics(d))
<1>1. PICK m \in Metrics : m = OpenOrders(d)
  BY TablesAre, OpenOrdersIs
<1>2. PICK e : e = [d EXCEPT !.metrics = m]
  OBVIOUS
<1>3. /\ e \in Tables /\ e.book = d.book /\ e.canceled = d.canceled /\ e.trades = d.trades
      /\ e.volume = d.volume /\ e.lastTrade = d.lastTrade /\ e.pendingOrphan = d.pendingOrphan
      /\ e.pendingLiquidity = d.pendingLiquidity /\ e.thrown = d.thrown /\ e.metrics = m
  BY <1>2 DEF Tables
<1>4. OpenOrders(e) = m
  BY <1>1, <1>3, OpenOrdersSame
<1>5. UpdateLiquidityMetrics(d) = e
  BY <1>1, <1>2 DEF UpdateLiquidityMetrics
<1> QED
  BY <1>3, <1>4, <1>5

\* A throw changes no table.
LEMMA ThrowEffect ==
  ASSUME NEW d \in Tables
  PROVE  Throw(d) \in Tables /\ Throw(d).thrown
<1>1. PICK e : e = [d EXCEPT !.thrown = TRUE]
  OBVIOUS
<1>2. e \in Tables /\ e.thrown
  BY <1>1 DEF Tables
<1> QED
  BY <1>1, <1>2 DEF Throw

\* Of some trades one has the least index.
LEMMA FirstIs ==
  ASSUME NEW trades \in SUBSET Trade, trades # {}
  PROVE  FirstOf(trades) \in trades
<1> DEFINE T == {t.index : t \in trades}
           R == {p \in Nat \X Nat : p[1] < p[2]}
<1>1. \A t \in trades : t.index \in Nat
  BY DEF Trade
<1>2. T \subseteq Nat /\ T # {}
  BY <1>1
<1>3. PICK x \in T : \A y \in T : ~(<<y, x>> \in R)
  <2>1. IsWellFoundedOn(R, Nat)
    BY LessIsWellFounded
  <2> HIDE DEF T, R
  <2> QED
    BY <1>2, <2>1, WFMin
<1>4. PICK t \in trades : t.index = x
  OBVIOUS
<1>5. ASSUME NEW u \in trades
      PROVE  t.index <= u.index
  <2>1. u.index \in T /\ t.index \in Nat /\ u.index \in Nat
    BY <1>1
  <2>2. ~(u.index < t.index)
    BY <1>3, <1>4, <2>1
  <2> QED
    BY <2>1, <2>2
<1> QED
  BY <1>5 DEF FirstOf

\* updateVolumetrics changes the volume and the last trade only.
LEMMA VolumetricsEffect ==
  ASSUME NEW d \in Tables, NEW o, NEW n \in Nat, TradesOf(d, o, n) # {}, NEW isIncrease \in BOOLEAN
  PROVE  /\ FirstOf(TradesOf(d, o, n)) \in TradesOf(d, o, n)
         /\ UpdateVolumetrics(d, o, n, isIncrease) \in Tables
         /\ UpdateVolumetrics(d, o, n, isIncrease).book = d.book
         /\ UpdateVolumetrics(d, o, n, isIncrease).canceled = d.canceled
         /\ UpdateVolumetrics(d, o, n, isIncrease).trades = d.trades
         /\ UpdateVolumetrics(d, o, n, isIncrease).volume =
              IF isIncrease THEN d.volume + FirstOf(TradesOf(d, o, n)).amount
              ELSE d.volume - FirstOf(TradesOf(d, o, n)).amount
         /\ UpdateVolumetrics(d, o, n, isIncrease).lastTrade = n
         /\ UpdateVolumetrics(d, o, n, isIncrease).pendingOrphan = d.pendingOrphan
         /\ UpdateVolumetrics(d, o, n, isIncrease).pendingLiquidity = d.pendingLiquidity
         /\ UpdateVolumetrics(d, o, n, isIncrease).metrics = d.metrics
         /\ UpdateVolumetrics(d, o, n, isIncrease).thrown = d.thrown
<1>1. TradesOf(d, o, n) \in SUBSET Trade
  BY TablesAre DEF TradesOf
<1>2. FirstOf(TradesOf(d, o, n)) \in TradesOf(d, o, n)
  BY <1>1, FirstIs
<1>3. PICK a \in Nat : a = FirstOf(TradesOf(d, o, n)).amount
  <2>1. FirstOf(TradesOf(d, o, n)) \in Trade
    BY <1>1, <1>2
  <2> QED
    BY <2>1 DEF Trade
<1>4. PICK v \in Int : v = IF isIncrease THEN d.volume + a ELSE d.volume - a
  <2>1. d.volume \in Int
    BY TablesAre
  <2> QED
    BY <2>1
<1>5. PICK e : e = [d EXCEPT !.volume = v, !.lastTrade = n]
  OBVIOUS
<1>6. UpdateVolumetrics(d, o, n, isIncrease) = e
  BY <1>3, <1>4, <1>5 DEF UpdateVolumetrics
<1>7. /\ e \in Tables /\ e.book = d.book /\ e.canceled = d.canceled /\ e.trades = d.trades
      /\ e.volume = v /\ e.lastTrade = n /\ e.pendingOrphan = d.pendingOrphan
      /\ e.pendingLiquidity = d.pendingLiquidity /\ e.metrics = d.metrics /\ e.thrown = d.thrown
  BY <1>5 DEF Tables
<1> QED
  BY <1>2, <1>3, <1>4, <1>6, <1>7

\* A book in which one order has a new row.
Put(book, o, row) == [p \in DOMAIN book \cup {o} |-> IF p = o THEN row ELSE book[p]]

LEMMA PutIs ==
  ASSUME NEW book \in Books, NEW o \in Order, NEW row \in OrderRow
  PROVE  Put(book, o, row) \in Books
<1>1. DOMAIN book \subseteq Order /\ \A p \in DOMAIN book : book[p] \in OrderRow
  BY BookIs
<1>2. Put(book, o, row) \in [DOMAIN book \cup {o} -> OrderRow]
  BY <1>1 DEF Put
<1>3. DOMAIN book \cup {o} \in SUBSET Order
  BY <1>1
<1> QED
  BY <1>2, <1>3 DEF Books

LEMMA PutExcept ==
  ASSUME NEW book \in Books, NEW o \in DOMAIN book, NEW row
  PROVE  [book EXCEPT ![o] = row] = Put(book, o, row)
<1>1. book = [p \in DOMAIN book |-> book[p]]
  BY BookIs
<1>2. DOMAIN book \cup {o} = DOMAIN book
  OBVIOUS
<1> QED
  BY <1>1, <1>2 DEF Put

\* The tables d but for the book and the fields a log processor sets.
LEMMA CreatedEffect ==
  ASSUME NEW d \in Tables, NEW o \in Order
  PROVE  /\ OrderCreated(d, o) \in Tables
         /\ OrderCreated(d, o).book =
              Put(d.book, o, [state |-> "OPEN", left |-> Amount[o],
                              orphaned |-> o \in DOMAIN d.book /\ d.book[o].orphaned])
         /\ OrderCreated(d, o).canceled = d.canceled /\ OrderCreated(d, o).trades = d.trades
         /\ OrderCreated(d, o).volume = d.volume /\ OrderCreated(d, o).lastTrade = d.lastTrade
         /\ OrderCreated(d, o).thrown = d.thrown /\ OrderCreated(d, o).pendingLiquidity
<1>1. PICK row : row = [state |-> "OPEN", left |-> Amount[o],
                        orphaned |-> o \in DOMAIN d.book /\ d.book[o].orphaned]
  OBVIOUS
<1>2. row \in OrderRow
  <2>1. Amount[o] \in Int
    BY OrderAssumption
  <2>2. (o \in DOMAIN d.book /\ d.book[o].orphaned) \in BOOLEAN
    OBVIOUS
  <2> QED
    BY <1>1, <2>1, <2>2 DEF OrderRow
<1>3. PICK book \in Books : book = Put(d.book, o, row)
  BY <1>2, TablesAre, PutIs
<1>4. PICK sides \in SUBSET Side : sides = d.pendingOrphan \cup {SideOf[o]}
  <2>1. SideOf[o] \in Side
    BY OrderAssumption
  <2> QED
    BY <2>1, TablesAre
<1>5. PICK e : e = [d EXCEPT !.book = book, !.pendingOrphan = sides, !.pendingLiquidity = TRUE]
  OBVIOUS
<1>6. /\ e \in Tables /\ e.book = book /\ e.canceled = d.canceled /\ e.trades = d.trades
      /\ e.volume = d.volume /\ e.lastTrade = d.lastTrade /\ e.thrown = d.thrown /\ e.pendingLiquidity
  BY <1>5 DEF Tables
<1>7. OrderCreated(d, o) = e
  BY <1>1, <1>3, <1>4, <1>5 DEF OrderCreated, Put
<1> QED
  BY <1>1, <1>3, <1>6, <1>7

LEMMA CreatedRemovalEffect ==
  ASSUME NEW d \in Tables, NEW o \in DOMAIN d.book
  PROVE  /\ OrderCreatedRemoval(d, o) \in Tables
         /\ OrderCreatedRemoval(d, o).book = Without(d.book, o)
         /\ OrderCreatedRemoval(d, o).canceled = d.canceled /\ OrderCreatedRemoval(d, o).trades = d.trades
         /\ OrderCreatedRemoval(d, o).volume = d.volume
         /\ OrderCreatedRemoval(d, o).lastTrade = d.lastTrade
         /\ OrderCreatedRemoval(d, o).thrown = d.thrown
         /\ OrderCreatedRemoval(d, o).metrics = OpenOrders(OrderCreatedRemoval(d, o))
<1>1. PICK book \in Books : book = Without(d.book, o)
  <2>1. d.book \in Books
    BY TablesAre
  <2>2. DOMAIN d.book \subseteq Order /\ \A p \in DOMAIN d.book : d.book[p] \in OrderRow
    BY <2>1, BookIs
  <2>3. Without(d.book, o) \in [DOMAIN d.book \ {o} -> OrderRow]
    BY <2>2 DEF Without
  <2>4. DOMAIN d.book \ {o} \in SUBSET Order
    BY <2>2
  <2> QED
    BY <2>3, <2>4 DEF Books
<1>2. PICK e : e = [d EXCEPT !.book = book]
  OBVIOUS
<1>3. /\ e \in Tables /\ e.book = book /\ e.canceled = d.canceled /\ e.trades = d.trades
      /\ e.volume = d.volume /\ e.lastTrade = d.lastTrade /\ e.thrown = d.thrown
  BY <1>2 DEF Tables
<1>4. OrderCreatedRemoval(d, o) = UpdateLiquidityMetrics(e)
  BY <1>1, <1>2 DEF OrderCreatedRemoval
<1> QED
  BY <1>1, <1>3, <1>4, MetricsEffect

LEMMA CanceledEffect ==
  ASSUME NEW d \in Tables, NEW o \in DOMAIN d.book
  PROVE  /\ OrderCanceled(d, o) \in Tables
         /\ OrderCanceled(d, o).book =
              Put(d.book, o, [state |-> "CANCELED", left |-> d.book[o].left, orphaned |-> d.book[o].orphaned])
         /\ OrderCanceled(d, o).canceled = d.canceled \cup {o} /\ OrderCanceled(d, o).trades = d.trades
         /\ OrderCanceled(d, o).volume = d.volume /\ OrderCanceled(d, o).lastTrade = d.lastTrade
         /\ OrderCanceled(d, o).thrown = d.thrown /\ OrderCanceled(d, o).pendingLiquidity
<1>1. d.book \in Books /\ o \in Order /\ d.book[o] \in OrderRow
  BY TablesAre, BookIs
<1>2. PICK row : row = [state |-> "CANCELED", left |-> d.book[o].left, orphaned |-> d.book[o].orphaned]
  OBVIOUS
<1>3. row \in OrderRow /\ row = [d.book[o] EXCEPT !.state = "CANCELED"]
  BY <1>1, <1>2 DEF OrderRow
<1>4. PICK book \in Books : book = Put(d.book, o, row)
  BY <1>1, <1>3, PutIs
<1>5. book = [d.book EXCEPT ![o] = row]
  BY <1>1, <1>4, PutExcept
<1>6. PICK gone \in SUBSET Order : gone = d.canceled \cup {o}
  BY <1>1, TablesAre
<1>7. PICK e : e = [d EXCEPT !.book = book, !.canceled = gone, !.pendingLiquidity = TRUE]
  OBVIOUS
<1>8. /\ e \in Tables /\ e.book = book /\ e.canceled = gone /\ e.trades = d.trades
      /\ e.volume = d.volume /\ e.lastTrade = d.lastTrade /\ e.thrown = d.thrown /\ e.pendingLiquidity
  BY <1>7 DEF Tables
<1>9. OrderCanceled(d, o) = e
  <2>1. book = [d.book EXCEPT ![o].state = "CANCELED"]
    BY <1>3, <1>5
  <2> QED
    BY <1>6, <1>7, <2>1 DEF OrderCanceled
<1> QED
  BY <1>2, <1>4, <1>6, <1>8, <1>9

LEMMA CanceledRemovalEffect ==
  ASSUME NEW d \in Tables, NEW o \in DOMAIN d.book
  PROVE  /\ OrderCanceledRemoval(d, o) \in Tables
         /\ OrderCanceledRemoval(d, o).book =
              Put(d.book, o, [state |-> "OPEN", left |-> d.book[o].left, orphaned |-> d.book[o].orphaned])
         /\ OrderCanceledRemoval(d, o).canceled = d.canceled \ {o}
         /\ OrderCanceledRemoval(d, o).trades = d.trades
         /\ OrderCanceledRemoval(d, o).volume = d.volume
         /\ OrderCanceledRemoval(d, o).lastTrade = d.lastTrade
         /\ OrderCanceledRemoval(d, o).thrown = d.thrown
         /\ OrderCanceledRemoval(d, o).metrics = OpenOrders(OrderCanceledRemoval(d, o))
<1>1. d.book \in Books /\ o \in Order /\ d.book[o] \in OrderRow
  BY TablesAre, BookIs
<1>2. PICK row : row = [state |-> "OPEN", left |-> d.book[o].left, orphaned |-> d.book[o].orphaned]
  OBVIOUS
<1>3. row \in OrderRow /\ row = [d.book[o] EXCEPT !.state = "OPEN"]
  BY <1>1, <1>2 DEF OrderRow
<1>4. PICK book \in Books : book = Put(d.book, o, row)
  BY <1>1, <1>3, PutIs
<1>5. book = [d.book EXCEPT ![o] = row]
  BY <1>1, <1>4, PutExcept
<1>6. PICK gone \in SUBSET Order : gone = d.canceled \ {o}
  BY TablesAre
<1>7. PICK e : e = [d EXCEPT !.book = book, !.canceled = gone]
  OBVIOUS
<1>8. /\ e \in Tables /\ e.book = book /\ e.canceled = gone /\ e.trades = d.trades
      /\ e.volume = d.volume /\ e.lastTrade = d.lastTrade /\ e.thrown = d.thrown
  BY <1>7 DEF Tables
<1>9. OrderCanceledRemoval(d, o) = UpdateLiquidityMetrics(e)
  <2>1. book = [d.book EXCEPT ![o].state = "OPEN"]
    BY <1>3, <1>5
  <2> QED
    BY <1>6, <1>7, <2>1 DEF OrderCanceledRemoval
<1> QED
  BY <1>2, <1>4, <1>6, <1>8, <1>9, MetricsEffect

\* updateOrder changes the row of the order only.
LEMMA UpdateOrderEffect ==
  ASSUME NEW d \in Tables, NEW o \in DOMAIN d.book, NEW amount \in Int
  PROVE  /\ UpdateOrder(d, o, amount) \in Tables
         /\ UpdateOrder(d, o, amount).book =
              Put(d.book, o, [state |-> IF d.book[o].left = amount THEN "FILLED" ELSE "OPEN",
                              left |-> d.book[o].left - amount, orphaned |-> d.book[o].orphaned])
         /\ UpdateOrder(d, o, amount).canceled = d.canceled /\ UpdateOrder(d, o, amount).trades = d.trades
         /\ UpdateOrder(d, o, amount).volume = d.volume
         /\ UpdateOrder(d, o, amount).lastTrade = d.lastTrade
         /\ UpdateOrder(d, o, amount).pendingLiquidity = d.pendingLiquidity
         /\ UpdateOrder(d, o, amount).thrown = d.thrown
<1>1. d.book \in Books /\ o \in Order /\ d.book[o] \in OrderRow
  BY TablesAre, BookIs
<1>2. PICK s : s = IF d.book[o].left = amount THEN "FILLED" ELSE "OPEN"
  OBVIOUS
<1>3. PICK left \in Int : left = d.book[o].left - amount
  BY <1>1, RowIs
<1>4. PICK row : row = [state |-> s, left |-> left, orphaned |-> d.book[o].orphaned]
  OBVIOUS
<1>5. row \in OrderRow
  BY <1>1, <1>2, <1>4 DEF OrderRow
<1>6. PICK book \in Books : book = Put(d.book, o, row)
  BY <1>1, <1>5, PutIs
<1>7. book = [d.book EXCEPT ![o] = row]
  BY <1>1, <1>6, PutExcept
<1>8. PICK e : e = [d EXCEPT !.book = book]
  OBVIOUS
<1>9. /\ e \in Tables /\ e.book = book /\ e.canceled = d.canceled /\ e.trades = d.trades
      /\ e.volume = d.volume /\ e.lastTrade = d.lastTrade /\ e.thrown = d.thrown
      /\ e.pendingLiquidity = d.pendingLiquidity
  BY <1>8 DEF Tables
<1>10. UpdateOrder(d, o, amount) = e
  <2>1. UpdateOrder(d, o, amount) = [d EXCEPT !.book = [d.book EXCEPT ![o] = row]]
    BY <1>2, <1>3, <1>4 DEF UpdateOrder
  <2> QED
    BY <1>7, <1>8, <2>1
<1> QED
  BY <1>2, <1>3, <1>4, <1>6, <1>9, <1>10

TradeRow(o, n, i, amount) == [order |-> o, block |-> n, index |-> i, amount |-> amount]

\* The first of one trade.
LEMMA FirstOfOne ==
  ASSUME NEW t \in Trade
  PROVE  FirstOf({t}) = t
<1>1. {t} \in SUBSET Trade /\ {t} # {}
  OBVIOUS
<1>2. FirstOf({t}) \in {t}
  BY <1>1, FirstIs
<1> QED
  BY <1>2

\* processOrderFilledLog: the row, the volume, the order.
LEMMA FilledEffect ==
  ASSUME NEW d \in Tables, NEW o \in DOMAIN d.book, NEW amount \in Nat, NEW n \in Nat, NEW i \in Nat
  PROVE  /\ OrderFilled(d, o, amount, n, i) \in Tables
         /\ OrderFilled(d, o, amount, n, i).book =
              Put(d.book, o, [state |-> IF d.book[o].left = amount THEN "FILLED" ELSE "OPEN",
                              left |-> d.book[o].left - amount, orphaned |-> d.book[o].orphaned])
         /\ OrderFilled(d, o, amount, n, i).canceled = d.canceled
         /\ OrderFilled(d, o, amount, n, i).trades = d.trades \cup {TradeRow(o, n, i, amount)}
         /\ OrderFilled(d, o, amount, n, i).lastTrade = n
         /\ OrderFilled(d, o, amount, n, i).thrown = d.thrown
         /\ OrderFilled(d, o, amount, n, i).pendingLiquidity
         /\ TradesOf(d, o, n) = {} => OrderFilled(d, o, amount, n, i).volume = d.volume + amount
<1>0. PICK row : row = TradeRow(o, n, i, amount)
  OBVIOUS
<1>1. row \in Trade /\ row.order = o /\ row.block = n /\ row.amount = amount
  <2>1. o \in Order
    BY TablesAre, BookIs
  <2> QED
    BY <1>0, <2>1 DEF TradeRow, Trade
<1>2. PICK trades \in SUBSET Trade : trades = d.trades \cup {row}
  BY <1>1, TablesAre
<1>3. PICK t : t = [d EXCEPT !.trades = trades]
  OBVIOUS
<1>4. /\ t \in Tables /\ t.book = d.book /\ t.canceled = d.canceled /\ t.trades = trades
      /\ t.volume = d.volume /\ t.thrown = d.thrown
  BY <1>3 DEF Tables
<1>5. row \in TradesOf(t, o, n)
  BY <1>1, <1>2, <1>4 DEF TradesOf
<1>6. PICK v : v = UpdateVolumetrics(t, o, n, TRUE)
  OBVIOUS
<1>7. /\ v \in Tables /\ v.book = d.book /\ v.canceled = d.canceled /\ v.trades = trades
      /\ v.volume = d.volume + FirstOf(TradesOf(t, o, n)).amount /\ v.lastTrade = n /\ v.thrown = d.thrown
  <2>1. PICK inc \in BOOLEAN : inc = TRUE
    OBVIOUS
  <2>2. t \in Tables /\ TradesOf(t, o, n) # {}
    BY <1>4, <1>5
  <2>3. PICK w : w = UpdateVolumetrics(t, o, n, inc)
    OBVIOUS
  <2>4. /\ w \in Tables /\ w.book = t.book /\ w.canceled = t.canceled /\ w.trades = t.trades
        /\ w.volume = IF inc THEN t.volume + FirstOf(TradesOf(t, o, n)).amount
                      ELSE t.volume - FirstOf(TradesOf(t, o, n)).amount
        /\ w.lastTrade = n /\ w.thrown = t.thrown
    BY <2>2, <2>3, VolumetricsEffect
  <2> QED
    BY <1>4, <1>6, <2>1, <2>3, <2>4
<1>8. PICK u : u = UpdateOrder(v, o, amount)
  OBVIOUS
<1>9. /\ u \in Tables
      /\ u.book = Put(d.book, o, [state |-> IF d.book[o].left = amount THEN "FILLED" ELSE "OPEN",
                                  left |-> d.book[o].left - amount, orphaned |-> d.book[o].orphaned])
      /\ u.canceled = d.canceled /\ u.trades = trades /\ u.volume = v.volume
      /\ u.lastTrade = n /\ u.thrown = d.thrown
  <2>1. amount \in Int /\ v \in Tables /\ o \in DOMAIN v.book
    BY <1>7
  <2>2. /\ UpdateOrder(v, o, amount) \in Tables
        /\ UpdateOrder(v, o, amount).book =
              Put(v.book, o, [state |-> IF v.book[o].left = amount THEN "FILLED" ELSE "OPEN",
                              left |-> v.book[o].left - amount, orphaned |-> v.book[o].orphaned])
        /\ UpdateOrder(v, o, amount).canceled = v.canceled /\ UpdateOrder(v, o, amount).trades = v.trades
        /\ UpdateOrder(v, o, amount).volume = v.volume
        /\ UpdateOrder(v, o, amount).lastTrade = v.lastTrade
        /\ UpdateOrder(v, o, amount).thrown = v.thrown
    BY <2>1, UpdateOrderEffect
  <2> QED
    BY <1>7, <1>8, <2>2
<1>10. PICK e : e = [u EXCEPT !.pendingLiquidity = TRUE]
  OBVIOUS
<1>11. /\ e \in Tables /\ e.book = u.book /\ e.canceled = u.canceled /\ e.trades = u.trades
       /\ e.volume = u.volume /\ e.lastTrade = u.lastTrade /\ e.thrown = u.thrown /\ e.pendingLiquidity
  BY <1>9, <1>10 DEF Tables
<1>12. OrderFilled(d, o, amount, n, i) = e
  BY <1>0, <1>2, <1>3, <1>6, <1>8, <1>10 DEF OrderFilled, TradeRow
<1>13. TradesOf(d, o, n) = {} => v.volume = d.volume + amount
  <2>1. SUFFICES ASSUME TradesOf(d, o, n) = {}
                 PROVE  v.volume = d.volume + amount
    OBVIOUS
  <2>2. TradesOf(t, o, n) = {row}
    BY <1>1, <1>2, <1>4, <2>1 DEF TradesOf
  <2>3. FirstOf({row}) = row
    BY <1>1, FirstOfOne
  <2> QED
    BY <1>1, <1>7, <2>2, <2>3
<1>14. e.volume = v.volume /\ e.trades = d.trades \cup {row} /\ e.lastTrade = n /\ e.thrown = d.thrown
  BY <1>2, <1>9, <1>11
<1> QED
  BY <1>0, <1>9, <1>11, <1>12, <1>13, <1>14

\* processOrderFilledLogRemoval: the volume, every trade of the order in the
\* block, the order.
LEMMA FilledRemovalEffect ==
  ASSUME NEW d \in Tables, NEW o \in DOMAIN d.book, NEW amount \in Nat, NEW n \in Nat,
         TradesOf(d, o, n) # {}
  PROVE  /\ OrderFilledRemoval(d, o, amount, n) \in Tables
         /\ OrderFilledRemoval(d, o, amount, n).book =
              Put(d.book, o, [state |-> IF d.book[o].left = -amount THEN "FILLED" ELSE "OPEN",
                              left |-> d.book[o].left - (-amount), orphaned |-> d.book[o].orphaned])
         /\ OrderFilledRemoval(d, o, amount, n).canceled = d.canceled
         /\ OrderFilledRemoval(d, o, amount, n).trades = d.trades \ TradesOf(d, o, n)
         /\ OrderFilledRemoval(d, o, amount, n).lastTrade = n
         /\ OrderFilledRemoval(d, o, amount, n).thrown = d.thrown
         /\ OrderFilledRemoval(d, o, amount, n).volume = d.volume - FirstOf(TradesOf(d, o, n)).amount
         /\ OrderFilledRemoval(d, o, amount, n).metrics = OpenOrders(OrderFilledRemoval(d, o, amount, n))
<1>1. PICK v : v = UpdateVolumetrics(d, o, n, FALSE)
  OBVIOUS
<1>2. /\ v \in Tables /\ v.book = d.book /\ v.canceled = d.canceled /\ v.trades = d.trades
      /\ v.volume = d.volume - FirstOf(TradesOf(d, o, n)).amount /\ v.lastTrade = n /\ v.thrown = d.thrown
  <2>1. PICK inc \in BOOLEAN : inc = FALSE
    OBVIOUS
  <2>2. d \in Tables /\ TradesOf(d, o, n) # {}
    OBVIOUS
  <2>3. PICK w : w = UpdateVolumetrics(d, o, n, inc)
    OBVIOUS
  <2>4. /\ w \in Tables /\ w.book = d.book /\ w.canceled = d.canceled /\ w.trades = d.trades
        /\ w.volume = IF inc THEN d.volume + FirstOf(TradesOf(d, o, n)).amount
                      ELSE d.volume - FirstOf(TradesOf(d, o, n)).amount
        /\ w.lastTrade = n /\ w.thrown = d.thrown
    BY <2>2, <2>3, VolumetricsEffect
  <2> QED
    BY <1>1, <2>1, <2>3, <2>4
<1>3. PICK trades \in SUBSET Trade : trades = d.trades \ TradesOf(d, o, n)
  BY TablesAre
<1>4. PICK t : t = [v EXCEPT !.trades = trades]
  OBVIOUS
<1>5. /\ t \in Tables /\ t.book = d.book /\ t.canceled = d.canceled /\ t.trades = trades
      /\ t.volume = v.volume /\ t.lastTrade = n /\ t.thrown = d.thrown
  BY <1>2, <1>4 DEF Tables
<1>6. PICK u : u = UpdateOrder(t, o, -amount)
  OBVIOUS
<1>7. /\ u \in Tables
      /\ u.book = Put(d.book, o, [state |-> IF d.book[o].left = -amount THEN "FILLED" ELSE "OPEN",
                                  left |-> d.book[o].left - (-amount), orphaned |-> d.book[o].orphaned])
      /\ u.canceled = d.canceled /\ u.trades = trades /\ u.volume = v.volume
      /\ u.lastTrade = n /\ u.thrown = d.thrown
  <2>1. -amount \in Int /\ t \in Tables /\ o \in DOMAIN t.book
    BY <1>5
  <2>2. PICK a \in Int : a = -amount
    BY <2>1
  <2>3. /\ UpdateOrder(t, o, a) \in Tables
        /\ UpdateOrder(t, o, a).book =
              Put(t.book, o, [state |-> IF t.book[o].left = a THEN "FILLED" ELSE "OPEN",
                              left |-> t.book[o].left - a, orphaned |-> t.book[o].orphaned])
        /\ UpdateOrder(t, o, a).canceled = t.canceled /\ UpdateOrder(t, o, a).trades = t.trades
        /\ UpdateOrder(t, o, a).volume = t.volume
        /\ UpdateOrder(t, o, a).lastTrade = t.lastTrade
        /\ UpdateOrder(t, o, a).thrown = t.thrown
    BY <2>1, UpdateOrderEffect
  <2> QED
    BY <1>5, <1>6, <2>2, <2>3
<1>8. OrderFilledRemoval(d, o, amount, n) = UpdateLiquidityMetrics(u)
  <2>1. t = [UpdateVolumetrics(d, o, n, FALSE) EXCEPT !.trades = @ \ TradesOf(d, o, n)]
    BY <1>1, <1>2, <1>3, <1>4
  <2> QED
    BY <1>6, <2>1 DEF OrderFilledRemoval
<1>9. u.volume = d.volume - FirstOf(TradesOf(d, o, n)).amount /\ u.trades = d.trades \ TradesOf(d, o, n)
  BY <1>2, <1>3, <1>7
<1>10. /\ UpdateLiquidityMetrics(u) \in Tables
       /\ UpdateLiquidityMetrics(u).book = u.book /\ UpdateLiquidityMetrics(u).canceled = u.canceled
       /\ UpdateLiquidityMetrics(u).trades = u.trades /\ UpdateLiquidityMetrics(u).volume = u.volume
       /\ UpdateLiquidityMetrics(u).lastTrade = u.lastTrade
       /\ UpdateLiquidityMetrics(u).thrown = u.thrown
       /\ UpdateLiquidityMetrics(u).metrics = OpenOrders(UpdateLiquidityMetrics(u))
  BY <1>7, MetricsEffect
<1> QED
  BY <1>7, <1>8, <1>9, <1>10

(***************************************************************************)
(* A log is processed: the tables go from one position of the chain to the *)
(* next.                                                                   *)
(***************************************************************************)
StateIn(blocks, o) ==
  IF CanceledIn(blocks, o) THEN "CANCELED" ELSE IF OpenIn(blocks, o) THEN "OPEN" ELSE "FILLED"

BookAgrees(book, canceled, blocks) ==
  /\ DOMAIN book = {o \in Order : CreatedIn(blocks, o)}
  /\ \A o \in DOMAIN book : book[o].left = LeftIn(blocks, o) /\ book[o].state = StateIn(blocks, o)
  /\ canceled = {o \in Order : CanceledIn(blocks, o)}

\* No order is flagged that was not.
NoNewFlag(book, new) ==
  \A o \in DOMAIN new : new[o].orphaned => o \in DOMAIN book /\ book[o].orphaned

\* Two chains tell the same of an order.
SameOrder(blocks, new, o) ==
  /\ CreatedIn(new, o) <=> CreatedIn(blocks, o)
  /\ CanceledIn(new, o) <=> CanceledIn(blocks, o)
  /\ LeftIn(new, o) = LeftIn(blocks, o)

LEMMA SameState ==
  ASSUME NEW blocks, NEW new, NEW o, SameOrder(blocks, new, o)
  PROVE  StateIn(new, o) = StateIn(blocks, o)
BY DEF SameOrder, StateIn, OpenIn

\* A new row for one order, when the chains differ in that order only.
LEMMA PutAgrees ==
  ASSUME NEW book \in Books, NEW canceled, NEW gone, NEW blocks, NEW new, NEW o \in Order, NEW row,
         BookAgrees(book, canceled, blocks),
         \A p \in Order : p # o => SameOrder(blocks, new, p),
         CreatedIn(new, o), row.left = LeftIn(new, o), row.state = StateIn(new, o),
         gone = {p \in Order : CanceledIn(new, p)}
  PROVE  BookAgrees(Put(book, o, row), gone, new)
<1>1. PICK put : put = Put(book, o, row)
  OBVIOUS
<1>2. /\ DOMAIN put = DOMAIN book \cup {o} /\ put[o] = row
      /\ \A p \in DOMAIN book : p # o => put[p] = book[p]
  BY <1>1 DEF Put
<1>3. DOMAIN book = {p \in Order : CreatedIn(blocks, p)}
  BY DEF BookAgrees
<1>4. \A p \in Order : p # o => (CreatedIn(new, p) <=> CreatedIn(blocks, p))
  BY DEF SameOrder
<1>5. DOMAIN put = {p \in Order : CreatedIn(new, p)}
  BY <1>2, <1>3, <1>4
<1>6. ASSUME NEW p \in DOMAIN put
      PROVE  put[p].left = LeftIn(new, p) /\ put[p].state = StateIn(new, p)
  <2>1. CASE p = o
    BY <1>2, <2>1
  <2>2. CASE p # o
    <3>1. p \in DOMAIN book /\ p \in Order /\ put[p] = book[p] /\ SameOrder(blocks, new, p)
      BY <1>2, <1>3, <2>2
    <3>2. book[p].left = LeftIn(blocks, p) /\ book[p].state = StateIn(blocks, p)
      BY <3>1 DEF BookAgrees
    <3>3. LeftIn(new, p) = LeftIn(blocks, p) /\ StateIn(new, p) = StateIn(blocks, p)
      BY <3>1, SameState DEF SameOrder
    <3> QED
      BY <3>1, <3>2, <3>3
  <2> QED
    BY <2>1, <2>2
<1>7. BookAgrees(put, gone, new)
  BY <1>5, <1>6 DEF BookAgrees
<1> QED
  BY <1>1, <1>7

LEMMA WithoutAgrees ==
  ASSUME NEW book \in Books, NEW canceled, NEW blocks, NEW new, NEW o \in Order,
         BookAgrees(book, canceled, blocks),
         \A p \in Order : p # o => SameOrder(blocks, new, p),
         ~CreatedIn(new, o), ~CanceledIn(new, o), ~CanceledIn(blocks, o)
  PROVE  BookAgrees(Without(book, o), canceled, new)
<1>1. PICK less : less = Without(book, o)
  OBVIOUS
<1>2. DOMAIN less = DOMAIN book \ {o} /\ \A p \in DOMAIN less : less[p] = book[p]
  BY <1>1 DEF Without
<1>3. DOMAIN book = {p \in Order : CreatedIn(blocks, p)} /\ canceled = {p \in Order : CanceledIn(blocks, p)}
  BY DEF BookAgrees
<1>4. \A p \in Order : p # o => /\ CreatedIn(new, p) <=> CreatedIn(blocks, p)
                                /\ CanceledIn(new, p) <=> CanceledIn(blocks, p)
  BY DEF SameOrder
<1>5. DOMAIN less = {p \in Order : CreatedIn(new, p)} /\ canceled = {p \in Order : CanceledIn(new, p)}
  BY <1>2, <1>3, <1>4
<1>6. ASSUME NEW p \in DOMAIN less
      PROVE  less[p].left = LeftIn(new, p) /\ less[p].state = StateIn(new, p)
  <2>1. p \in DOMAIN book /\ p \in Order /\ p # o /\ less[p] = book[p] /\ SameOrder(blocks, new, p)
    BY <1>2, <1>3
  <2>2. book[p].left = LeftIn(blocks, p) /\ book[p].state = StateIn(blocks, p)
    BY <2>1 DEF BookAgrees
  <2>3. LeftIn(new, p) = LeftIn(blocks, p) /\ StateIn(new, p) = StateIn(blocks, p)
    BY <2>1, SameState DEF SameOrder
  <2> QED
    BY <2>1, <2>2, <2>3
<1>7. BookAgrees(less, canceled, new)
  BY <1>5, <1>6 DEF BookAgrees
<1> QED
  BY <1>1, <1>7

\* What a log that may follow says of its order, and of the others nothing.
LEMMA LogSays ==
  ASSUME NEW blocks \in Seq(BlockRecord), NEW b \in Nat, NEW logs \in Seq(LogRecord),
         NEW old, NEW new, NEW l \in Following(old),
         old = With(blocks, b, logs), new = With(blocks, b, Append(logs, l)), Sane(old)
  PROVE  /\ l \in LogRecord /\ l.order \in Order
         /\ \A p \in Order : p # l.order => SameOrder(old, new, p)
         /\ CreatedIn(new, l.order)
         /\ LeftIn(new, l.order) \in Int /\ LeftIn(old, l.order) \in Int
         /\ l.kind = "OrderCreated" =>
              /\ ~CreatedIn(old, l.order) /\ ~CanceledIn(old, l.order) /\ ~CanceledIn(new, l.order)
              /\ LeftIn(new, l.order) = Amount[l.order] /\ StateIn(new, l.order) = "OPEN"
         /\ l.kind = "OrderCanceled" =>
              /\ CreatedIn(old, l.order) /\ ~CanceledIn(old, l.order) /\ CanceledIn(new, l.order)
              /\ StateIn(old, l.order) = "OPEN" /\ StateIn(new, l.order) = "CANCELED"
              /\ LeftIn(new, l.order) = LeftIn(old, l.order)
         /\ l.kind = "OrderFilled" =>
              /\ CreatedIn(old, l.order) /\ ~CanceledIn(old, l.order) /\ ~CanceledIn(new, l.order)
              /\ StateIn(old, l.order) = "OPEN" /\ l.amount \in Nat /\ l.amount > 0
              /\ LeftIn(new, l.order) = LeftIn(old, l.order) - l.amount
              /\ StateIn(new, l.order) = IF LeftIn(old, l.order) = l.amount THEN "FILLED" ELSE "OPEN"
         /\ l.kind = "OrderCreated" \/ l.kind = "OrderCanceled" \/ l.kind = "OrderFilled"
<1>1. old \in Seq(BlockRecord)
  BY WithIs
<1>2. /\ l \in LogRecord
      /\ \/ l.kind = "OrderCreated" /\ ~CreatedIn(old, l.order)
         \/ l.kind = "OrderCanceled" /\ CreatedIn(old, l.order) /\ OpenIn(old, l.order)
         \/ /\ l.kind = "OrderFilled" /\ CreatedIn(old, l.order) /\ OpenIn(old, l.order)
            /\ l.amount \in 1..LeftIn(old, l.order)
  BY <1>1, FollowingIs
<1>3. l.order \in Order /\ l.amount \in Nat
  BY <1>2 DEF LogRecord
<1>4. \A o \in Order :
        /\ CreatedIn(new, o) <=> CreatedIn(old, o) \/ (l.kind = "OrderCreated" /\ l.order = o)
        /\ CanceledIn(new, o) <=> CanceledIn(old, o) \/ (l.kind = "OrderCanceled" /\ l.order = o)
        /\ LeftIn(new, o) = LeftIn(old, o) - FilledBy(l, {o})
  <2>1. ASSUME NEW o \in Order
        PROVE  /\ CreatedIn(new, o) <=> CreatedIn(old, o) \/ (l.kind = "OrderCreated" /\ l.order = o)
               /\ CanceledIn(new, o) <=> CanceledIn(old, o) \/ (l.kind = "OrderCanceled" /\ l.order = o)
               /\ LeftIn(new, o) = LeftIn(old, o) - FilledBy(l, {o})
    <3>1. l \in LogRecord
      BY <1>2
    <3>2. CreatedIn(new, o) <=> CreatedIn(old, o) \/ (l.kind = "OrderCreated" /\ l.order = o)
      BY <3>1, LogChanges
    <3>3. CanceledIn(new, o) <=> CanceledIn(old, o) \/ (l.kind = "OrderCanceled" /\ l.order = o)
      BY <3>1, LogChanges
    <3>4. LeftIn(new, o) = LeftIn(old, o) - FilledBy(l, {o})
      BY <3>1, LogChanges
    <3> QED
      BY <3>2, <3>3, <3>4
  <2> QED
    BY <2>1
<1>5. \A o \in Order : LeftIn(old, o) \in Int
  BY <1>1, LeftInt
<1>6. PICK o \in Order : o = l.order
  BY <1>3
<1>7. ASSUME NEW p \in Order, p # o
      PROVE  SameOrder(old, new, p)
  <2>1. FilledBy(l, {p}) = 0
    BY <1>6, <1>7 DEF FilledBy
  <2>2. LeftIn(new, p) = LeftIn(old, p) - 0 /\ LeftIn(old, p) \in Int
    BY <1>4, <1>5, <2>1
  <2>3. LeftIn(new, p) = LeftIn(old, p)
    BY <2>2
  <2>4. /\ CreatedIn(new, p) <=> CreatedIn(old, p)
        /\ CanceledIn(new, p) <=> CanceledIn(old, p)
    BY <1>4, <1>6, <1>7
  <2> QED
    BY <2>3, <2>4 DEF SameOrder
<1>8. CreatedIn(new, o)
  BY <1>2, <1>4, <1>6
<1>9. FilledBy(l, {o}) = IF l.kind = "OrderFilled" THEN l.amount ELSE 0
  BY <1>6 DEF FilledBy
<1>10. LeftIn(new, o) = LeftIn(old, o) - (IF l.kind = "OrderFilled" THEN l.amount ELSE 0) /\ LeftIn(old, o) \in Int
  BY <1>4, <1>5, <1>9
<1>11. LeftIn(new, o) \in Int
  BY <1>3, <1>10
<1>12. ASSUME l.kind = "OrderCreated"
       PROVE  /\ ~CreatedIn(old, o) /\ ~CanceledIn(old, o) /\ ~CanceledIn(new, o)
              /\ LeftIn(new, o) = Amount[o] /\ StateIn(new, o) = "OPEN"
  <2>1. ~CreatedIn(old, o)
    BY <1>2, <1>6, <1>12
  <2>2. LeftIn(old, o) = Amount[o] /\ ~CanceledIn(old, o)
    BY <2>1 DEF Sane
  <2>3. LeftIn(new, o) = Amount[o] /\ Amount[o] \in Nat /\ Amount[o] > 0
    <3>1. Amount[o] \in Nat \ {0}
      BY OrderAssumption
    <3> QED
      BY <1>10, <1>12, <2>2, <3>1
  <2>4. ~CanceledIn(new, o)
    BY <1>4, <1>12, <2>2
  <2>5. OpenIn(new, o)
    BY <1>8, <2>3, <2>4 DEF OpenIn
  <2> QED
    BY <2>1, <2>2, <2>3, <2>4, <2>5 DEF StateIn
<1>13. ASSUME l.kind = "OrderCanceled"
       PROVE  /\ CreatedIn(old, o) /\ ~CanceledIn(old, o) /\ CanceledIn(new, o)
              /\ StateIn(old, o) = "OPEN" /\ StateIn(new, o) = "CANCELED"
              /\ LeftIn(new, o) = LeftIn(old, o)
  <2>1. CreatedIn(old, o) /\ OpenIn(old, o)
    BY <1>2, <1>6, <1>13
  <2>2. ~CanceledIn(old, o)
    BY <2>1 DEF OpenIn
  <2>3. CanceledIn(new, o)
    BY <1>4, <1>6, <1>13
  <2>4. LeftIn(new, o) = LeftIn(old, o)
    BY <1>10, <1>13
  <2> QED
    BY <2>1, <2>2, <2>3, <2>4 DEF StateIn
<1>14. ASSUME l.kind = "OrderFilled"
       PROVE  /\ CreatedIn(old, o) /\ ~CanceledIn(old, o) /\ ~CanceledIn(new, o)
              /\ StateIn(old, o) = "OPEN" /\ l.amount \in Nat /\ l.amount > 0
              /\ LeftIn(new, o) = LeftIn(old, o) - l.amount
              /\ StateIn(new, o) = IF LeftIn(old, o) = l.amount THEN "FILLED" ELSE "OPEN"
  <2>1. CreatedIn(old, o) /\ OpenIn(old, o) /\ l.amount \in 1..LeftIn(old, o)
    BY <1>2, <1>6, <1>14
  <2>2. ~CanceledIn(old, o) /\ ~CanceledIn(new, o)
    BY <1>4, <1>14, <2>1 DEF OpenIn
  <2>3. LeftIn(new, o) = LeftIn(old, o) - l.amount
    BY <1>10, <1>14
  <2>4. LeftIn(new, o) > 0 <=> LeftIn(old, o) # l.amount
    BY <1>3, <1>10, <2>1, <2>3
  <2>5. OpenIn(new, o) <=> LeftIn(old, o) # l.amount
    BY <1>8, <2>2, <2>4 DEF OpenIn
  <2>6. l.amount > 0
    BY <1>10, <2>1
  <2> QED
    BY <1>3, <2>1, <2>2, <2>3, <2>5, <2>6 DEF StateIn
<1> QED
  BY <1>2, <1>3, <1>6, <1>7, <1>8, <1>10, <1>11, <1>12, <1>13, <1>14

LEMMA PutFlags ==
  ASSUME NEW book, NEW o, NEW row, row.orphaned => o \in DOMAIN book /\ book[o].orphaned
  PROVE  NoNewFlag(book, Put(book, o, row))
<1>1. PICK put : put = Put(book, o, row)
  OBVIOUS
<1>2. /\ DOMAIN put = DOMAIN book \cup {o} /\ put[o] = row
      /\ \A p \in DOMAIN book : p # o => put[p] = book[p]
  BY <1>1 DEF Put
<1>3. NoNewFlag(book, put)
  BY <1>2 DEF NoNewFlag
<1> QED
  BY <1>1, <1>3

LEMMA WithoutFlags ==
  ASSUME NEW book, NEW o
  PROVE  NoNewFlag(book, Without(book, o))
BY DEF NoNewFlag, Without

\* Adding a log.
LEMMA LogProcessed ==
  ASSUME NEW blocks \in Seq(BlockRecord), NEW b \in Nat, NEW logs \in Seq(LogRecord),
         NEW old, NEW new, NEW l \in Following(old),
         old = With(blocks, b, logs), new = With(blocks, b, Append(logs, l)), Sane(old),
         NEW d \in Tables, ~d.thrown, BookAgrees(d.book, d.canceled, old),
         NEW n \in Nat, NEW i \in Nat, NEW e, e = Process(d, l, n, i)
  PROVE  /\ e \in Tables /\ ~e.thrown /\ BookAgrees(e.book, e.canceled, new)
         /\ NoNewFlag(d.book, e.book) /\ e.pendingLiquidity
         /\ l.kind = "OrderFilled" =>
              /\ e.trades = d.trades \cup {TradeRow(l.order, n, i, l.amount)} /\ e.lastTrade = n
              /\ TradesOf(d, l.order, n) = {} => e.volume = d.volume + l.amount
         /\ l.kind # "OrderFilled" =>
              e.trades = d.trades /\ e.lastTrade = d.lastTrade /\ e.volume = d.volume
<1>1. PICK o \in Order : o = l.order
  BY LogSays
<1>2. \A p \in Order : p # o => SameOrder(old, new, p)
  BY <1>1, LogSays
<1>3. d.book \in Books
  BY TablesAre
<1>4. /\ DOMAIN d.book = {p \in Order : CreatedIn(old, p)}
      /\ \A p \in DOMAIN d.book : d.book[p].left = LeftIn(old, p) /\ d.book[p].state = StateIn(old, p)
      /\ d.canceled = {p \in Order : CanceledIn(old, p)}
  BY DEF BookAgrees
<1>5. \A p \in Order : p # o => (CanceledIn(new, p) <=> CanceledIn(old, p))
  BY <1>2 DEF SameOrder
<1>6. CreatedIn(new, o)
  BY <1>1, LogSays
<1>7. CASE l.kind = "OrderCreated"
  <2>1. /\ ~CreatedIn(old, o) /\ ~CanceledIn(old, o) /\ ~CanceledIn(new, o)
        /\ LeftIn(new, o) = Amount[o] /\ StateIn(new, o) = "OPEN"
    BY <1>1, <1>7, LogSays
  <2>2. e = OrderCreated(d, o)
    BY <1>1, <1>7 DEF Process
  <2>3. PICK row : row = [state |-> "OPEN", left |-> Amount[o],
                          orphaned |-> o \in DOMAIN d.book /\ d.book[o].orphaned]
    OBVIOUS
  <2>4. /\ e \in Tables /\ e.book = Put(d.book, o, row) /\ e.canceled = d.canceled
        /\ e.trades = d.trades /\ e.volume = d.volume /\ e.lastTrade = d.lastTrade
        /\ e.thrown = d.thrown /\ e.pendingLiquidity
    BY <2>2, <2>3, CreatedEffect
  <2>5. d.canceled = {p \in Order : CanceledIn(new, p)}
    BY <1>4, <1>5, <2>1
  <2>6. row.left = LeftIn(new, o) /\ row.state = StateIn(new, o)
    BY <2>1, <2>3
  <2>7. BookAgrees(Put(d.book, o, row), d.canceled, new)
    BY <1>2, <1>3, <1>6, <2>5, <2>6, PutAgrees
  <2>8. row.orphaned => o \in DOMAIN d.book /\ d.book[o].orphaned
    BY <2>3
  <2>9. NoNewFlag(d.book, Put(d.book, o, row))
    BY <2>8, PutFlags
  <2> QED
    BY <1>7, <2>4, <2>7, <2>9
<1>8. CASE l.kind = "OrderCanceled"
  <2>1. /\ CreatedIn(old, o) /\ ~CanceledIn(old, o) /\ CanceledIn(new, o)
        /\ StateIn(new, o) = "CANCELED" /\ LeftIn(new, o) = LeftIn(old, o)
    BY <1>1, <1>8, LogSays
  <2>2. e = OrderCanceled(d, o) /\ o \in DOMAIN d.book
    BY <1>1, <1>4, <1>8, <2>1 DEF Process
  <2>3. PICK row : row = [state |-> "CANCELED", left |-> d.book[o].left, orphaned |-> d.book[o].orphaned]
    OBVIOUS
  <2>4. /\ e \in Tables /\ e.book = Put(d.book, o, row) /\ e.canceled = d.canceled \cup {o}
        /\ e.trades = d.trades /\ e.volume = d.volume /\ e.lastTrade = d.lastTrade
        /\ e.thrown = d.thrown /\ e.pendingLiquidity
    BY <2>2, <2>3, CanceledEffect
  <2>5. d.canceled \cup {o} = {p \in Order : CanceledIn(new, p)}
    BY <1>4, <1>5, <2>1
  <2>6. row.left = LeftIn(new, o) /\ row.state = StateIn(new, o)
    BY <1>4, <2>1, <2>2, <2>3
  <2>7. BookAgrees(Put(d.book, o, row), d.canceled \cup {o}, new)
    BY <1>2, <1>3, <1>6, <2>5, <2>6, PutAgrees
  <2>8. row.orphaned => o \in DOMAIN d.book /\ d.book[o].orphaned
    BY <2>2, <2>3
  <2>9. NoNewFlag(d.book, Put(d.book, o, row))
    BY <2>8, PutFlags
  <2> QED
    BY <1>8, <2>4, <2>7, <2>9
<1>9. CASE l.kind = "OrderFilled"
  <2>1. /\ CreatedIn(old, o) /\ ~CanceledIn(old, o) /\ ~CanceledIn(new, o) /\ l.amount \in Nat
        /\ LeftIn(new, o) = LeftIn(old, o) - l.amount
        /\ StateIn(new, o) = IF LeftIn(old, o) = l.amount THEN "FILLED" ELSE "OPEN"
    BY <1>1, <1>9, LogSays
  <2>2. e = OrderFilled(d, o, l.amount, n, i) /\ o \in DOMAIN d.book
    BY <1>1, <1>4, <1>9, <2>1 DEF Process
  <2>3. PICK row : row = [state |-> IF d.book[o].left = l.amount THEN "FILLED" ELSE "OPEN",
                          left |-> d.book[o].left - l.amount, orphaned |-> d.book[o].orphaned]
    OBVIOUS
  <2>4. /\ e \in Tables /\ e.book = Put(d.book, o, row) /\ e.canceled = d.canceled
        /\ e.trades = d.trades \cup {TradeRow(o, n, i, l.amount)} /\ e.lastTrade = n
        /\ e.thrown = d.thrown /\ e.pendingLiquidity
        /\ TradesOf(d, o, n) = {} => e.volume = d.volume + l.amount
    BY <2>1, <2>2, <2>3, FilledEffect
  <2>5. d.canceled = {p \in Order : CanceledIn(new, p)}
    BY <1>4, <1>5, <2>1
  <2>6. row.left = LeftIn(new, o) /\ row.state = StateIn(new, o)
    BY <1>4, <2>1, <2>2, <2>3
  <2>7. BookAgrees(Put(d.book, o, row), d.canceled, new)
    BY <1>2, <1>3, <1>6, <2>5, <2>6, PutAgrees
  <2>8. row.orphaned => o \in DOMAIN d.book /\ d.book[o].orphaned
    BY <2>2, <2>3
  <2>9. NoNewFlag(d.book, Put(d.book, o, row))
    BY <2>8, PutFlags
  <2> QED
    BY <1>1, <1>9, <2>4, <2>7, <2>9
<1>10. l.kind = "OrderCreated" \/ l.kind = "OrderCanceled" \/ l.kind = "OrderFilled"
  BY LogSays
<1> QED
  BY <1>7, <1>8, <1>9, <1>10

\* Taking it back.
\* What taking a log back does to the tables r, which it leaves as e.
OutOf(r, e, old, l, n) ==
  /\ e \in Tables
  /\ e.thrown <=> l.kind = "OrderFilled" /\ TradesOf(r, l.order, n) = {}
  /\ ~e.thrown =>
       /\ BookAgrees(e.book, e.canceled, old) /\ NoNewFlag(r.book, e.book)
       /\ e.metrics = OpenOrders(e)
       /\ l.kind = "OrderFilled" =>
            /\ e.trades = r.trades \ TradesOf(r, l.order, n) /\ e.lastTrade = n
            /\ e.volume = r.volume - FirstOf(TradesOf(r, l.order, n)).amount
       /\ l.kind # "OrderFilled" =>
            e.trades = r.trades /\ e.lastTrade = r.lastTrade /\ e.volume = r.volume

LEMMA LogRemoved ==
  ASSUME NEW blocks \in Seq(BlockRecord), NEW b \in Nat, NEW logs \in Seq(LogRecord),
         NEW old, NEW new, NEW l \in Following(old),
         old = With(blocks, b, logs), new = With(blocks, b, Append(logs, l)), Sane(old), Sane(new),
         NEW d \in Tables, ~d.thrown, BookAgrees(d.book, d.canceled, new),
         NEW n \in Nat, NEW e, e = ProcessRemoval(d, l, n)
  PROVE  OutOf(d, e, old, l, n)
<1>1. PICK o \in Order : o = l.order
  BY LogSays
<1>2. \A p \in Order : p # o => SameOrder(new, old, p)
  <2>1. \A p \in Order : p # o => SameOrder(old, new, p)
    BY <1>1, LogSays
  <2> QED
    BY <2>1 DEF SameOrder
<1>3. d.book \in Books
  BY TablesAre
<1>4. /\ DOMAIN d.book = {p \in Order : CreatedIn(new, p)}
      /\ \A p \in DOMAIN d.book : d.book[p].left = LeftIn(new, p) /\ d.book[p].state = StateIn(new, p)
      /\ d.canceled = {p \in Order : CanceledIn(new, p)}
  BY DEF BookAgrees
<1>5. \A p \in Order : p # o => (CanceledIn(old, p) <=> CanceledIn(new, p))
  BY <1>2 DEF SameOrder
<1>6. CreatedIn(new, o)
  BY <1>1, LogSays
<1>6a. o \in DOMAIN d.book
  BY <1>4, <1>6
<1>7. CASE l.kind = "OrderCreated"
  <2>1. ~CreatedIn(old, o) /\ ~CanceledIn(old, o) /\ ~CanceledIn(new, o)
    BY <1>1, <1>7, LogSays
  <2>2. e = OrderCreatedRemoval(d, o)
    BY <1>1, <1>7 DEF ProcessRemoval
  <2>3. /\ e \in Tables /\ e.book = Without(d.book, o) /\ e.canceled = d.canceled
        /\ e.trades = d.trades /\ e.volume = d.volume /\ e.lastTrade = d.lastTrade
        /\ e.thrown = d.thrown /\ e.metrics = OpenOrders(e)
    BY <1>6a, <2>2, CreatedRemovalEffect
  <2>4. BookAgrees(Without(d.book, o), d.canceled, old)
    BY <1>2, <1>3, <2>1, WithoutAgrees
  <2>5. NoNewFlag(d.book, Without(d.book, o))
    BY WithoutFlags
  <2> QED
    BY <1>7, <2>3, <2>4, <2>5 DEF OutOf
<1>8. CASE l.kind = "OrderCanceled"
  <2>1. /\ CreatedIn(old, o) /\ ~CanceledIn(old, o)
        /\ StateIn(old, o) = "OPEN" /\ LeftIn(new, o) = LeftIn(old, o)
    BY <1>1, <1>8, LogSays
  <2>2. e = OrderCanceledRemoval(d, o)
    BY <1>1, <1>8 DEF ProcessRemoval
  <2>3. PICK row : row = [state |-> "OPEN", left |-> d.book[o].left, orphaned |-> d.book[o].orphaned]
    OBVIOUS
  <2>4. /\ e \in Tables /\ e.book = Put(d.book, o, row) /\ e.canceled = d.canceled \ {o}
        /\ e.trades = d.trades /\ e.volume = d.volume /\ e.lastTrade = d.lastTrade
        /\ e.thrown = d.thrown /\ e.metrics = OpenOrders(e)
    BY <1>6a, <2>2, <2>3, CanceledRemovalEffect
  <2>5. d.canceled \ {o} = {p \in Order : CanceledIn(old, p)}
    BY <1>4, <1>5, <2>1
  <2>6. row.left = LeftIn(old, o) /\ row.state = StateIn(old, o)
    BY <1>4, <1>6a, <2>1, <2>3
  <2>7. BookAgrees(Put(d.book, o, row), d.canceled \ {o}, old)
    BY <1>2, <1>3, <2>1, <2>5, <2>6, PutAgrees
  <2>8. row.orphaned => o \in DOMAIN d.book /\ d.book[o].orphaned
    BY <1>6a, <2>3
  <2>9. NoNewFlag(d.book, Put(d.book, o, row))
    BY <2>8, PutFlags
  <2> QED
    BY <1>8, <2>4, <2>7, <2>9 DEF OutOf
<1>9. CASE l.kind = "OrderFilled" /\ TradesOf(d, o, n) = {}
  <2>1. e = Throw(d)
    BY <1>1, <1>6a, <1>9 DEF ProcessRemoval, OrderFilledRemoval
  <2> QED
    BY <1>1, <1>9, <2>1, ThrowEffect DEF OutOf
<1>10. CASE l.kind = "OrderFilled" /\ TradesOf(d, o, n) # {}
  <2>1. /\ CreatedIn(old, o) /\ ~CanceledIn(old, o) /\ ~CanceledIn(new, o)
        /\ StateIn(old, o) = "OPEN" /\ l.amount \in Nat /\ l.amount > 0
        /\ LeftIn(new, o) = LeftIn(old, o) - l.amount
    BY <1>1, <1>10, LogSays
  <2>2. e = OrderFilledRemoval(d, o, l.amount, n)
    BY <1>1, <1>10 DEF ProcessRemoval
  <2>3. PICK row : row = [state |-> IF d.book[o].left = -l.amount THEN "FILLED" ELSE "OPEN",
                          left |-> d.book[o].left - (-l.amount), orphaned |-> d.book[o].orphaned]
    OBVIOUS
  <2>4. /\ e \in Tables /\ e.book = Put(d.book, o, row) /\ e.canceled = d.canceled
        /\ e.trades = d.trades \ TradesOf(d, o, n) /\ e.lastTrade = n
        /\ e.volume = d.volume - FirstOf(TradesOf(d, o, n)).amount
        /\ e.thrown = d.thrown /\ e.metrics = OpenOrders(e)
    BY <1>6a, <1>10, <2>1, <2>2, <2>3, FilledRemovalEffect
  <2>5. d.canceled = {p \in Order : CanceledIn(old, p)}
    BY <1>4, <1>5, <2>1
  <2>6. row.left = LeftIn(old, o) /\ row.state = StateIn(old, o)
    <3>1. d.book[o].left = LeftIn(new, o)
      BY <1>4, <1>6a
    <3>2. LeftIn(old, o) \in Int /\ LeftIn(new, o) \in Nat
      <4>1. LeftIn(old, o) \in Int
        BY <1>1, LogSays
      <4>2. LeftIn(new, o) \in 0..Amount[o] /\ Amount[o] \in Nat
        BY OrderAssumption DEF Sane
      <4> QED
        BY <4>1, <4>2
    <3>3. d.book[o].left # -l.amount /\ d.book[o].left - (-l.amount) = LeftIn(old, o)
      BY <2>1, <3>1, <3>2
    <3> QED
      BY <2>1, <2>3, <3>3
  <2>7. BookAgrees(Put(d.book, o, row), d.canceled, old)
    BY <1>2, <1>3, <2>1, <2>5, <2>6, PutAgrees
  <2>8. row.orphaned => o \in DOMAIN d.book /\ d.book[o].orphaned
    BY <1>6a, <2>3
  <2>9. NoNewFlag(d.book, Put(d.book, o, row))
    BY <2>8, PutFlags
  <2> QED
    BY <1>1, <1>10, <2>4, <2>7, <2>9 DEF OutOf
<1>11. l.kind = "OrderCreated" \/ l.kind = "OrderCanceled" \/ l.kind = "OrderFilled"
  BY LogSays
<1> QED
  BY <1>1, <1>7, <1>8, <1>9, <1>10, <1>11

(***************************************************************************)
(* Trades: the rows that the fills of the blocks make, and the fills that  *)
(* share an order and a block.                                             *)
(***************************************************************************)
LEMMA RowsOfIs ==
  ASSUME NEW logs, NEW n, NEW t
  PROVE  t \in RowsOf(logs, n) <=>
           \E i \in 1..Len(logs) :
             logs[i].kind = "OrderFilled" /\ t = TradeRow(logs[i].order, n, i, logs[i].amount)
BY DEF RowsOf, TradeRow

\* The rows of a block carry its number.
LEMMA RowsOfBlock ==
  ASSUME NEW logs, NEW n, NEW t \in RowsOf(logs, n)
  PROVE  t.block = n
BY RowsOfIs DEF TradeRow

LEMMA RowsBlock ==
  ASSUME NEW blocks, NEW t \in Rows(blocks)
  PROVE  t.block \in 1..Len(blocks)
<1>1. PICK n \in 1..Len(blocks) : t \in RowsOf(blocks[n].logs, n)
  BY DEF Rows
<1> QED
  BY <1>1, RowsOfBlock

LEMMA RowsWith ==
  ASSUME NEW blocks \in Seq(BlockRecord), NEW b \in Nat, NEW logs \in Seq(LogRecord)
  PROVE  Rows(With(blocks, b, logs)) = Rows(blocks) \cup RowsOf(logs, Len(blocks) + 1)
<1>0. PICK all : all = With(blocks, b, logs)
  OBVIOUS
<1>1. /\ Len(all) = Len(blocks) + 1 /\ Len(blocks) \in Nat
      /\ \A n \in 1..Len(blocks) : all[n] = blocks[n]
      /\ all[Len(blocks) + 1].logs = logs
  <2>1. Len(blocks) \in Nat
    OBVIOUS
  <2>2. Len(With(blocks, b, logs)) = Len(blocks) + 1
    BY WithIs
  <2>3. With(blocks, b, logs)[Len(blocks) + 1].logs = logs
    BY WithLast
  <2>4. \A n \in 1..Len(blocks) : With(blocks, b, logs)[n] = blocks[n]
    BY WithOld
  <2> QED
    BY <1>0, <2>1, <2>2, <2>3, <2>4
<1>2. ASSUME NEW t \in Rows(all)
      PROVE  t \in Rows(blocks) \cup RowsOf(logs, Len(blocks) + 1)
  <2>1. PICK n \in 1..Len(all) : t \in RowsOf(all[n].logs, n)
    BY DEF Rows
  <2>2. CASE n \in 1..Len(blocks)
    BY <1>1, <2>1, <2>2 DEF Rows
  <2>3. CASE n = Len(blocks) + 1
    BY <1>1, <2>1, <2>3
  <2> QED
    BY <1>1, <2>2, <2>3
<1>3. ASSUME NEW t \in Rows(blocks)
      PROVE  t \in Rows(all)
  <2>1. PICK n \in 1..Len(blocks) : t \in RowsOf(blocks[n].logs, n)
    BY DEF Rows
  <2>2. n \in 1..Len(all) /\ all[n] = blocks[n]
    BY <1>1
  <2> QED
    BY <2>1, <2>2 DEF Rows
<1>4. ASSUME NEW t \in RowsOf(logs, Len(blocks) + 1)
      PROVE  t \in Rows(all)
  <2>1. Len(blocks) + 1 \in 1..Len(all)
    BY <1>1
  <2> QED
    BY <1>1, <1>4, <2>1 DEF Rows
<1> QED
  BY <1>0, <1>2, <1>3, <1>4

LEMMA RowsOfAppend ==
  ASSUME NEW logs \in Seq(LogRecord), NEW l \in LogRecord, NEW n
  PROVE  RowsOf(Append(logs, l), n) =
           RowsOf(logs, n) \cup
           {t \in {TradeRow(l.order, n, Len(logs) + 1, l.amount)} : l.kind = "OrderFilled"}
<1>0. PICK all : all = Append(logs, l)
  OBVIOUS
<1>1. /\ Len(all) = Len(logs) + 1 /\ Len(logs) \in Nat
      /\ \A i \in 1..Len(logs) : all[i] = logs[i]
      /\ all[Len(logs) + 1] = l
  BY <1>0
<1>2. ASSUME NEW t
      PROVE  t \in RowsOf(all, n) <=>
               t \in RowsOf(logs, n) \/
               (l.kind = "OrderFilled" /\ t = TradeRow(l.order, n, Len(logs) + 1, l.amount))
  <2>1. ASSUME NEW i \in 1..Len(all), all[i].kind = "OrderFilled",
               t = TradeRow(all[i].order, n, i, all[i].amount)
        PROVE  t \in RowsOf(logs, n) \/
               (l.kind = "OrderFilled" /\ t = TradeRow(l.order, n, Len(logs) + 1, l.amount))
    <3>1. CASE i = Len(logs) + 1
      BY <1>1, <2>1, <3>1
    <3>2. CASE i # Len(logs) + 1
      <4>1. i \in 1..Len(logs) /\ all[i] = logs[i]
        BY <1>1, <3>2
      <4> QED
        BY <2>1, <4>1, RowsOfIs
    <3> QED
      BY <3>1, <3>2
  <2>2. ASSUME NEW i \in 1..Len(logs), logs[i].kind = "OrderFilled",
               t = TradeRow(logs[i].order, n, i, logs[i].amount)
        PROVE  t \in RowsOf(all, n)
    <3>1. i \in 1..Len(all) /\ all[i] = logs[i]
      BY <1>1
    <3> QED
      BY <2>2, <3>1, RowsOfIs
  <2>3. ASSUME l.kind = "OrderFilled", t = TradeRow(l.order, n, Len(logs) + 1, l.amount)
        PROVE  t \in RowsOf(all, n)
    <3>1. Len(logs) + 1 \in 1..Len(all)
      BY <1>1
    <3> QED
      BY <1>1, <2>3, <3>1, RowsOfIs
  <2> QED
    BY <2>1, <2>2, <2>3, RowsOfIs
<1> QED
  BY <1>0, <1>2

\* The logs fill an order; they fill one twice.
FillsOf(logs, o) == \E i \in 1..Len(logs) : logs[i].kind = "OrderFilled" /\ logs[i].order = o
TwinLogs(logs) ==
  \E i, j \in 1..Len(logs) :
    /\ i < j /\ logs[i].kind = "OrderFilled" /\ logs[j].kind = "OrderFilled"
    /\ logs[i].order = logs[j].order
NoTwins(blocks) == \A n \in 1..Len(blocks) : ~TwinLogs(blocks[n].logs)

LEMMA TwinsAre ==
  ASSUME NEW block
  PROVE  Twins(block) <=> TwinLogs(block.logs)
BY DEF Twins, TwinLogs

LEMMA NoTwinsWith ==
  ASSUME NEW blocks \in Seq(BlockRecord), NEW b \in Nat, NEW logs \in Seq(LogRecord)
  PROVE  NoTwins(With(blocks, b, logs)) <=> NoTwins(blocks) /\ ~TwinLogs(logs)
<1>0. PICK all : all = With(blocks, b, logs)
  OBVIOUS
<1>1. /\ Len(all) = Len(blocks) + 1 /\ Len(blocks) \in Nat
      /\ \A n \in 1..Len(blocks) : all[n] = blocks[n]
      /\ all[Len(blocks) + 1].logs = logs
  <2>1. Len(blocks) \in Nat
    OBVIOUS
  <2>2. Len(With(blocks, b, logs)) = Len(blocks) + 1
    BY WithIs
  <2>3. With(blocks, b, logs)[Len(blocks) + 1].logs = logs
    BY WithLast
  <2>4. \A n \in 1..Len(blocks) : With(blocks, b, logs)[n] = blocks[n]
    BY WithOld
  <2> QED
    BY <1>0, <2>1, <2>2, <2>3, <2>4
<1>2. ASSUME NoTwins(all)
      PROVE  NoTwins(blocks) /\ ~TwinLogs(logs)
  <2>1. Len(blocks) + 1 \in 1..Len(all) /\ \A n \in 1..Len(blocks) : n \in 1..Len(all)
    BY <1>1
  <2>2. ~TwinLogs(logs)
    BY <1>1, <1>2, <2>1 DEF NoTwins
  <2>3. \A n \in 1..Len(blocks) : ~TwinLogs(blocks[n].logs)
    BY <1>1, <1>2, <2>1 DEF NoTwins
  <2> QED
    BY <2>2, <2>3 DEF NoTwins
<1>3. ASSUME NoTwins(blocks) /\ ~TwinLogs(logs)
      PROVE  NoTwins(all)
  <2>1. ASSUME NEW n \in 1..Len(all)
        PROVE  ~TwinLogs(all[n].logs)
    <3>1. CASE n \in 1..Len(blocks)
      BY <1>1, <1>3, <3>1 DEF NoTwins
    <3>2. CASE n = Len(blocks) + 1
      BY <1>1, <1>3, <3>2
    <3> QED
      BY <1>1, <3>1, <3>2
  <2> QED
    BY <2>1 DEF NoTwins
<1> QED
  BY <1>0, <1>2, <1>3

LEMMA TwinsAppend ==
  ASSUME NEW logs \in Seq(LogRecord), NEW l \in LogRecord
  PROVE  TwinLogs(Append(logs, l)) <=>
           TwinLogs(logs) \/ (l.kind = "OrderFilled" /\ FillsOf(logs, l.order))
<1>0. PICK all : all = Append(logs, l)
  OBVIOUS
<1>1. /\ Len(all) = Len(logs) + 1 /\ Len(logs) \in Nat
      /\ \A i \in 1..Len(logs) : all[i] = logs[i]
      /\ all[Len(logs) + 1] = l
  BY <1>0
<1>2. ASSUME TwinLogs(all)
      PROVE  TwinLogs(logs) \/ (l.kind = "OrderFilled" /\ FillsOf(logs, l.order))
  <2>1. PICK i \in 1..Len(all), j \in 1..Len(all) :
          /\ i < j /\ all[i].kind = "OrderFilled" /\ all[j].kind = "OrderFilled"
          /\ all[i].order = all[j].order
    BY <1>2 DEF TwinLogs
  <2>2. i \in 1..Len(logs) /\ all[i] = logs[i]
    BY <1>1, <2>1
  <2>3. CASE j = Len(logs) + 1
    BY <1>1, <2>1, <2>2, <2>3 DEF FillsOf
  <2>4. CASE j # Len(logs) + 1
    <3>1. j \in 1..Len(logs) /\ all[j] = logs[j]
      BY <1>1, <2>4
    <3> QED
      BY <2>1, <2>2, <3>1 DEF TwinLogs
  <2> QED
    BY <2>3, <2>4
<1>3. ASSUME TwinLogs(logs)
      PROVE  TwinLogs(all)
  <2>1. PICK i \in 1..Len(logs), j \in 1..Len(logs) :
          /\ i < j /\ logs[i].kind = "OrderFilled" /\ logs[j].kind = "OrderFilled"
          /\ logs[i].order = logs[j].order
    BY <1>3 DEF TwinLogs
  <2>2. i \in 1..Len(all) /\ j \in 1..Len(all) /\ all[i] = logs[i] /\ all[j] = logs[j]
    BY <1>1
  <2> QED
    BY <2>1, <2>2 DEF TwinLogs
<1>4. ASSUME l.kind = "OrderFilled", FillsOf(logs, l.order)
      PROVE  TwinLogs(all)
  <2>1. PICK i \in 1..Len(logs) : logs[i].kind = "OrderFilled" /\ logs[i].order = l.order
    BY <1>4 DEF FillsOf
  <2>2. i \in 1..Len(all) /\ all[i] = logs[i] /\ Len(logs) + 1 \in 1..Len(all) /\ i < Len(logs) + 1
    BY <1>1
  <2> QED
    BY <1>1, <1>4, <2>1, <2>2 DEF TwinLogs
<1> QED
  BY <1>0, <1>2, <1>3, <1>4

LEMMA FillsRows ==
  ASSUME NEW logs, NEW n, NEW o
  PROVE  FillsOf(logs, o) <=> \E t \in RowsOf(logs, n) : t.order = o
<1>1. ASSUME NEW i \in 1..Len(logs), logs[i].kind = "OrderFilled", logs[i].order = o
      PROVE  \E t \in RowsOf(logs, n) : t.order = o
  <2>1. PICK t : t = TradeRow(logs[i].order, n, i, logs[i].amount)
    OBVIOUS
  <2>2. t \in RowsOf(logs, n)
    BY <1>1, <2>1, RowsOfIs
  <2>3. t.order = o
    BY <1>1, <2>1 DEF TradeRow
  <2> QED
    BY <2>2, <2>3
<1>2. ASSUME NEW t \in RowsOf(logs, n), t.order = o
      PROVE  FillsOf(logs, o)
  <2>1. PICK i \in 1..Len(logs) :
          logs[i].kind = "OrderFilled" /\ t = TradeRow(logs[i].order, n, i, logs[i].amount)
    BY RowsOfIs
  <2> QED
    BY <1>2, <2>1 DEF FillsOf, TradeRow
<1> QED
  BY <1>1, <1>2 DEF FillsOf

(***************************************************************************)
(* The tables at a position of the chain.                                  *)
(***************************************************************************)
At(d, blocks) ==
  /\ d \in Tables /\ ~d.thrown
  /\ BookAgrees(d.book, d.canceled, blocks)
  /\ d.trades = Rows(blocks)
  /\ NoTwins(blocks) => d.volume = FilledIn(blocks, Order)

\* Before the first log of a block they are what they were after the last block.
LEMMA AtEmptyBlock ==
  ASSUME NEW blocks \in Seq(BlockRecord), NEW b \in Nat, NEW d
  PROVE  At(d, With(blocks, b, <<>>)) <=> At(d, blocks)
<1>0. PICK none : none = <<>>
  OBVIOUS
<1>1. none \in Seq(LogRecord) /\ Len(none) = 0
  BY <1>0
<1>2. PICK more : more = With(blocks, b, none)
  OBVIOUS
<1>3. Rows(more) = Rows(blocks)
  <2>1. Rows(more) = Rows(blocks) \cup RowsOf(none, Len(blocks) + 1)
    BY <1>1, <1>2, RowsWith
  <2>2. \A t : t \notin RowsOf(none, Len(blocks) + 1)
    BY <1>1, RowsOfIs
  <2> QED
    BY <2>1, <2>2
<1>4. NoTwins(more) <=> NoTwins(blocks)
  <2>1. NoTwins(more) <=> NoTwins(blocks) /\ ~TwinLogs(none)
    BY <1>1, <1>2, NoTwinsWith
  <2>2. ~TwinLogs(none)
    BY <1>1 DEF TwinLogs
  <2> QED
    BY <2>1, <2>2
<1>5. FilledIn(more, Order) = FilledIn(blocks, Order)
  BY <1>0, <1>2, FilledEmptyBlock
<1>6. \A o \in Order : SameOrder(blocks, more, o)
  BY <1>0, <1>2, EmptyBlockChanges DEF SameOrder
<1>7. \A o \in Order : /\ CreatedIn(more, o) <=> CreatedIn(blocks, o)
                       /\ CanceledIn(more, o) <=> CanceledIn(blocks, o)
                       /\ LeftIn(more, o) = LeftIn(blocks, o)
                       /\ StateIn(more, o) = StateIn(blocks, o)
  BY <1>6, SameState DEF SameOrder
<1>8. {o \in Order : CreatedIn(more, o)} = {o \in Order : CreatedIn(blocks, o)}
  BY <1>7
<1>9. {o \in Order : CanceledIn(more, o)} = {o \in Order : CanceledIn(blocks, o)}
  BY <1>7
<1>10. BookAgrees(d.book, d.canceled, more) <=> BookAgrees(d.book, d.canceled, blocks)
  <2>1. ASSUME DOMAIN d.book = {o \in Order : CreatedIn(blocks, o)}
        PROVE  (\A o \in DOMAIN d.book : /\ d.book[o].left = LeftIn(more, o)
                                         /\ d.book[o].state = StateIn(more, o)) <=>
               (\A o \in DOMAIN d.book : /\ d.book[o].left = LeftIn(blocks, o)
                                         /\ d.book[o].state = StateIn(blocks, o))
    BY <1>7, <2>1
  <2> QED
    BY <1>8, <1>9, <2>1 DEF BookAgrees
<1>11. At(d, more) <=> At(d, blocks)
  BY <1>3, <1>4, <1>5, <1>10 DEF At
<1> QED
  BY <1>0, <1>2, <1>11

\* What one log more, l, adds to a block's trades and volume.
LogAdds(logs, old, new, l, n) ==
  /\ l.kind = "OrderFilled" =>
       /\ Rows(new) = Rows(old) \cup {TradeRow(l.order, n, Len(logs) + 1, l.amount)}
       /\ NoTwins(new) <=> NoTwins(old) /\ ~FillsOf(logs, l.order)
       /\ FilledIn(new, Order) = FilledIn(old, Order) + l.amount
  /\ l.kind # "OrderFilled" =>
       /\ Rows(new) = Rows(old)
       /\ NoTwins(new) <=> NoTwins(old)
       /\ FilledIn(new, Order) = FilledIn(old, Order)
  /\ FilledIn(old, Order) \in Nat
  /\ \A o : FillsOf(logs, o) <=> \E t \in Rows(old) : t.order = o /\ t.block = n

\* What the next log adds to the rows, the twins and the amounts.
LEMMA NextLog ==
  ASSUME NEW blocks \in Seq(BlockRecord), NEW b \in Nat, NEW logs \in Seq(LogRecord),
         NEW old, NEW new, NEW l \in LogRecord, NEW n,
         old = With(blocks, b, logs), new = With(blocks, b, Append(logs, l)), n = Len(blocks) + 1
  PROVE  LogAdds(logs, old, new, l, n)
<1>1. Append(logs, l) \in Seq(LogRecord)
  OBVIOUS
<1>2. /\ Rows(old) = Rows(blocks) \cup RowsOf(logs, n)
      /\ Rows(new) = Rows(blocks) \cup RowsOf(Append(logs, l), n)
  BY <1>1, RowsWith
<1>3. RowsOf(Append(logs, l), n) =
        RowsOf(logs, n) \cup
        {t \in {TradeRow(l.order, n, Len(logs) + 1, l.amount)} : l.kind = "OrderFilled"}
  BY RowsOfAppend
<1>4. /\ NoTwins(old) <=> NoTwins(blocks) /\ ~TwinLogs(logs)
      /\ NoTwins(new) <=> NoTwins(blocks) /\ ~TwinLogs(Append(logs, l))
  BY <1>1, NoTwinsWith
<1>5. TwinLogs(Append(logs, l)) <=> TwinLogs(logs) \/ (l.kind = "OrderFilled" /\ FillsOf(logs, l.order))
  BY TwinsAppend
<1>6. FilledIn(new, Order) = FilledIn(old, Order) + FilledBy(l, Order) /\ FilledIn(old, Order) \in Nat
  <2>1. old \in Seq(BlockRecord)
    BY WithIs
  <2>2. FilledIn(new, Order) = FilledIn(old, Order) + FilledBy(l, Order)
    BY FilledLog
  <2> QED
    BY <2>1, <2>2, FilledNat
<1>7. FilledBy(l, Order) = IF l.kind = "OrderFilled" THEN l.amount ELSE 0
  BY DEF FilledBy, LogRecord
<1>8. l.kind # "OrderFilled" => FilledIn(new, Order) = FilledIn(old, Order)
  BY <1>6, <1>7
<1>9. l.kind # "OrderFilled" => Rows(new) = Rows(old)
  BY <1>2, <1>3
<1>10. l.kind = "OrderFilled" => Rows(new) = Rows(old) \cup {TradeRow(l.order, n, Len(logs) + 1, l.amount)}
  BY <1>2, <1>3
<1>11. ASSUME NEW o
       PROVE  FillsOf(logs, o) <=> \E t \in Rows(old) : t.order = o /\ t.block = n
  <2>1. ASSUME NEW t \in Rows(blocks)
        PROVE  t.block # n
    <3>1. t.block \in 1..Len(blocks) /\ Len(blocks) \in Nat
      BY RowsBlock
    <3> QED
      BY <3>1
  <2>2. \A t \in RowsOf(logs, n) : t.block = n
    BY RowsOfBlock
  <2>3. FillsOf(logs, o) <=> \E t \in RowsOf(logs, n) : t.order = o
    BY FillsRows
  <2> QED
    BY <1>2, <2>1, <2>2, <2>3
<1> QED
  BY <1>4, <1>5, <1>6, <1>7, <1>8, <1>9, <1>10, <1>11 DEF LogAdds

\* Adding a log takes the tables to the next position.
LEMMA AddStep ==
  ASSUME NEW blocks \in Seq(BlockRecord), NEW b \in Nat, NEW logs \in Seq(LogRecord),
         NEW old, NEW new, NEW l \in Following(old),
         old = With(blocks, b, logs), new = With(blocks, b, Append(logs, l)), Sane(old),
         NEW d, At(d, old), NEW n, n = Len(blocks) + 1, NEW i, i = Len(logs) + 1,
         NEW e, e = Process(d, l, n, i)
  PROVE  /\ At(e, new) /\ NoNewFlag(d.book, e.book) /\ e.pendingLiquidity
         /\ e.lastTrade = IF l.kind = "OrderFilled" THEN n ELSE d.lastTrade
<1>1. d \in Tables /\ ~d.thrown /\ BookAgrees(d.book, d.canceled, old) /\ d.trades = Rows(old)
  BY DEF At
<1>2. NoTwins(old) => d.volume = FilledIn(old, Order)
  BY DEF At
<1>3. n \in Nat /\ i \in Nat
  <2>1. Len(blocks) \in Nat /\ Len(logs) \in Nat
    OBVIOUS
  <2> QED
    BY <2>1
<1>4. /\ e \in Tables /\ ~e.thrown /\ BookAgrees(e.book, e.canceled, new)
      /\ NoNewFlag(d.book, e.book) /\ e.pendingLiquidity
      /\ l.kind = "OrderFilled" =>
           /\ e.trades = d.trades \cup {TradeRow(l.order, n, i, l.amount)} /\ e.lastTrade = n
           /\ TradesOf(d, l.order, n) = {} => e.volume = d.volume + l.amount
      /\ l.kind # "OrderFilled" =>
           e.trades = d.trades /\ e.lastTrade = d.lastTrade /\ e.volume = d.volume
  BY <1>1, <1>3, LogProcessed
<1>5. l \in LogRecord
  BY LogSays
<1>6. /\ l.kind = "OrderFilled" =>
           /\ Rows(new) = Rows(old) \cup {TradeRow(l.order, n, i, l.amount)}
           /\ NoTwins(new) <=> NoTwins(old) /\ ~FillsOf(logs, l.order)
           /\ FilledIn(new, Order) = FilledIn(old, Order) + l.amount
      /\ l.kind # "OrderFilled" =>
           /\ Rows(new) = Rows(old)
           /\ NoTwins(new) <=> NoTwins(old)
           /\ FilledIn(new, Order) = FilledIn(old, Order)
      /\ \A o : FillsOf(logs, o) <=> \E t \in Rows(old) : t.order = o /\ t.block = n
  <2>1. LogAdds(logs, old, new, l, n)
    BY <1>5, NextLog
  <2> QED
    BY <2>1 DEF LogAdds
<1>7. e.trades = Rows(new)
  BY <1>1, <1>4, <1>6
<1>8. NoTwins(new) => e.volume = FilledIn(new, Order)
  <2>1. ASSUME NoTwins(new), l.kind = "OrderFilled"
        PROVE  e.volume = FilledIn(new, Order)
    <3>1. NoTwins(old) /\ ~FillsOf(logs, l.order)
      BY <1>6, <2>1
    <3>2. ~\E t \in Rows(old) : t.order = l.order /\ t.block = n
      BY <1>6, <3>1
    <3>3. TradesOf(d, l.order, n) = {}
      BY <1>1, <3>2 DEF TradesOf
    <3> QED
      BY <1>2, <1>4, <1>6, <2>1, <3>1, <3>3
  <2>2. ASSUME NoTwins(new), l.kind # "OrderFilled"
        PROVE  e.volume = FilledIn(new, Order)
    BY <1>2, <1>4, <1>6, <2>2
  <2> QED
    BY <2>1, <2>2
<1>9. At(e, new)
  BY <1>4, <1>7, <1>8 DEF At
<1> QED
  BY <1>4, <1>9

\* The first logs of a block have a fill.
FillUpTo(logs, i) == \E j \in 1..i : logs[j].kind = "OrderFilled"

\* Adding a block takes the tables from the end of one block to that of the next.
LEMMA BlockProcessed ==
  ASSUME NEW blocks \in Seq(BlockRecord), NEW b \in Nat, NEW logs \in Seq(LogRecord),
         LawfulLast(blocks, b, logs), NEW d, At(d, blocks), NEW n, n = Len(blocks) + 1,
         NEW e, e = ProcessAll(d, logs, n)
  PROVE  /\ At(e, With(blocks, b, logs)) /\ NoNewFlag(d.book, e.book)
         /\ e = d \/ e.pendingLiquidity
         /\ e.lastTrade = IF FillUpTo(logs, Len(logs)) THEN n ELSE d.lastTrade
<1>1. PICK m \in Nat : m = Len(logs)
  OBVIOUS
<1>2. PICK f : /\ f[0] = d /\ e = f[m]
               /\ \A i \in 1..m : f[i] = Process(f[i - 1], logs[i], n, i)
  BY <1>1, ProcessAllSteps
<1> DEFINE upto(i) == With(blocks, b, SubSeq(logs, 1, i))
           P(i) == /\ At(f[i], upto(i)) /\ NoNewFlag(d.book, f[i].book)
                   /\ f[i] = d \/ f[i].pendingLiquidity
                   /\ f[i].lastTrade = IF FillUpTo(logs, i) THEN n ELSE d.lastTrade
           S == {i \in Nat : i <= m => P(i)}
<1>3. 0 \in S
  <2>1. SubSeq(logs, 1, 0) = <<>>
    BY PrefixOfAppend
  <2>2. At(f[0], upto(0))
    BY <1>2, <2>1, AtEmptyBlock
  <2>3. ~FillUpTo(logs, 0)
    BY DEF FillUpTo
  <2>4. NoNewFlag(d.book, f[0].book)
    BY <1>2 DEF NoNewFlag
  <2> QED
    BY <1>2, <2>2, <2>3, <2>4
<1>4. ASSUME NEW i \in Nat, i \in S
      PROVE  i + 1 \in S
  <2>1. SUFFICES ASSUME i + 1 <= m
                 PROVE  P(i + 1)
    OBVIOUS
  <2>2. i + 1 \in 1..m /\ i + 1 \in 1..Len(logs) /\ i \in 0..Len(logs) /\ (i + 1) - 1 = i /\ i <= m /\ i < Len(logs)
    BY <1>1, <2>1
  <2>3. P(i)
    BY <1>4, <2>2
  <2>4. PICK l : l = logs[i + 1]
    OBVIOUS
  <2>5. PICK first : first = SubSeq(logs, 1, i)
    OBVIOUS
  <2>6. first \in Seq(LogRecord) /\ Len(first) = i
    BY <2>2, <2>5, PrefixIsLogs
  <2>7. SubSeq(logs, 1, i + 1) = Append(first, l)
    <3>1. PICK k \in 1..Len(logs) : k = i + 1
      BY <2>2
    <3>2. SubSeq(logs, 1, k) = Append(SubSeq(logs, 1, k - 1), logs[k])
      BY PrefixStep
    <3> QED
      BY <2>2, <2>4, <2>5, <3>1, <3>2
  <2>8. PICK old : old = With(blocks, b, first)
    OBVIOUS
  <2>9. l \in Following(old) /\ Sane(old)
    BY <2>2, <2>4, <2>5, <2>8 DEF LawfulLast
  <2>10. PICK new : new = With(blocks, b, Append(first, l))
    OBVIOUS
  <2>11. PICK g : g = f[i]
    OBVIOUS
  <2>12. /\ At(g, old) /\ NoNewFlag(d.book, g.book)
         /\ g.lastTrade = IF FillUpTo(logs, i) THEN n ELSE d.lastTrade
    BY <2>3, <2>5, <2>8, <2>11
  <2>13. PICK h : h = f[i + 1]
    OBVIOUS
  <2>14. h = Process(g, l, n, i + 1)
    BY <1>2, <2>2, <2>4, <2>11, <2>13
  <2>15. PICK k : k = i + 1
    OBVIOUS
  <2>16. /\ At(h, new) /\ NoNewFlag(g.book, h.book) /\ h.pendingLiquidity
         /\ h.lastTrade = IF l.kind = "OrderFilled" THEN n ELSE g.lastTrade
    BY <2>6, <2>8, <2>9, <2>10, <2>12, <2>14, <2>15, AddStep
  <2>17. NoNewFlag(d.book, h.book)
    BY <2>12, <2>16 DEF NoNewFlag
  <2>18. FillUpTo(logs, i + 1) <=> FillUpTo(logs, i) \/ l.kind = "OrderFilled"
    <3>1. \A j \in 1..(i + 1) : j \in 1..i \/ j = i + 1
      OBVIOUS
    <3>2. i + 1 \in 1..(i + 1) /\ \A j \in 1..i : j \in 1..(i + 1)
      OBVIOUS
    <3> QED
      BY <2>4, <3>1, <3>2 DEF FillUpTo
  <2>19. h.lastTrade = IF FillUpTo(logs, i + 1) THEN n ELSE d.lastTrade
    BY <2>12, <2>16, <2>18
  <2>20. At(f[i + 1], upto(i + 1))
    BY <2>7, <2>10, <2>13, <2>16
  <2> QED
    BY <2>13, <2>16, <2>17, <2>19, <2>20
<1>5. Nat \subseteq S
  <2> HIDE DEF S
  <2> QED
    BY <1>3, <1>4, SetInduction
<1>6. P(m)
  BY <1>5
<1>7. SubSeq(logs, 1, m) = logs
  BY <1>1
<1> QED
  BY <1>1, <1>2, <1>6, <1>7

(***************************************************************************)
(* Taking a block back: its logs after the i-th are, unless a fill found   *)
(* no trade, which takes two fills of an order.                            *)
(***************************************************************************)
TakenBack(logs, i, o) == \E p \in (i + 1)..Len(logs) : logs[p].kind = "OrderFilled" /\ logs[p].order = o
FillAfter(logs, i) == \E p \in (i + 1)..Len(logs) : logs[p].kind = "OrderFilled"
TwinsAfter(logs, i) ==
  \E p, q \in (i + 1)..Len(logs) :
    /\ p < q /\ logs[p].kind = "OrderFilled" /\ logs[q].kind = "OrderFilled"
    /\ logs[p].order = logs[q].order

Unwinding(d, r, blocks, b, logs, n, i) ==
  /\ r \in Tables
  /\ r.thrown => TwinLogs(logs)
  /\ ~r.thrown =>
       /\ BookAgrees(r.book, r.canceled, With(blocks, b, SubSeq(logs, 1, i)))
       /\ r.trades = {t \in Rows(With(blocks, b, SubSeq(logs, 1, i))) :
                        t.block = n => ~TakenBack(logs, i, t.order)}
       /\ ~TwinsAfter(logs, i)
       /\ NoTwins(With(blocks, b, logs)) =>
            r.volume = FilledIn(With(blocks, b, SubSeq(logs, 1, i)), Order)
       /\ NoNewFlag(d.book, r.book)
       /\ r = d \/ r.metrics = OpenOrders(r)
       /\ r.lastTrade = IF FillAfter(logs, i) THEN n ELSE d.lastTrade

\* One more log is taken back.
LEMMA AfterStep ==
  ASSUME NEW logs \in Seq(LogRecord), NEW i \in 1..Len(logs)
  PROVE  /\ \A o : TakenBack(logs, i - 1, o) <=>
               TakenBack(logs, i, o) \/ (logs[i].kind = "OrderFilled" /\ logs[i].order = o)
         /\ FillAfter(logs, i - 1) <=> FillAfter(logs, i) \/ logs[i].kind = "OrderFilled"
         /\ TwinsAfter(logs, i - 1) <=>
              TwinsAfter(logs, i) \/ (logs[i].kind = "OrderFilled" /\ TakenBack(logs, i, logs[i].order))
<1>0. PICK m \in Nat : m = Len(logs)
  OBVIOUS
<1>1. i \in 1..m /\ (i - 1) + 1 = i
  BY <1>0
<1>2. \A p \in i..m : p = i \/ p \in (i + 1)..m
  BY <1>1
<1>3. i \in i..m /\ \A p \in (i + 1)..m : p \in i..m /\ i < p
  BY <1>1
<1>4. \A o : TakenBack(logs, i - 1, o) <=>
        TakenBack(logs, i, o) \/ (logs[i].kind = "OrderFilled" /\ logs[i].order = o)
  BY <1>0, <1>1, <1>2, <1>3 DEF TakenBack
<1>5. FillAfter(logs, i - 1) <=> FillAfter(logs, i) \/ logs[i].kind = "OrderFilled"
  BY <1>0, <1>1, <1>2, <1>3 DEF FillAfter
<1>6. ASSUME TwinsAfter(logs, i - 1)
      PROVE  TwinsAfter(logs, i) \/ (logs[i].kind = "OrderFilled" /\ TakenBack(logs, i, logs[i].order))
  <2>1. PICK p \in i..m, q \in i..m :
          /\ p < q /\ logs[p].kind = "OrderFilled" /\ logs[q].kind = "OrderFilled"
          /\ logs[p].order = logs[q].order
    BY <1>0, <1>1, <1>6 DEF TwinsAfter
  <2>2. q \in (i + 1)..m
    BY <1>1, <2>1
  <2>3. CASE p = i
    BY <1>0, <2>1, <2>2, <2>3 DEF TakenBack
  <2>4. CASE p \in (i + 1)..m
    BY <1>0, <2>1, <2>2, <2>4 DEF TwinsAfter
  <2> QED
    BY <1>2, <2>3, <2>4
<1>7. ASSUME TwinsAfter(logs, i)
      PROVE  TwinsAfter(logs, i - 1)
  BY <1>0, <1>1, <1>3, <1>7 DEF TwinsAfter
<1>8. ASSUME logs[i].kind = "OrderFilled", TakenBack(logs, i, logs[i].order)
      PROVE  TwinsAfter(logs, i - 1)
  <2>1. PICK p \in (i + 1)..m : logs[p].kind = "OrderFilled" /\ logs[p].order = logs[i].order
    BY <1>0, <1>8 DEF TakenBack
  <2>2. i \in i..m /\ p \in i..m /\ i < p
    BY <1>3
  <2> QED
    BY <1>0, <1>1, <1>8, <2>1, <2>2 DEF TwinsAfter
<1> QED
  BY <1>4, <1>5, <1>6, <1>7, <1>8

\* A fill with one of the same order before or after it.
LEMMA TwinsAround ==
  ASSUME NEW logs \in Seq(LogRecord), NEW i \in 1..Len(logs), logs[i].kind = "OrderFilled",
         TakenBack(logs, i, logs[i].order) \/ FillsOf(SubSeq(logs, 1, i - 1), logs[i].order)
  PROVE  TwinLogs(logs)
<1>0. PICK m \in Nat : m = Len(logs)
  OBVIOUS
<1>1. CASE TakenBack(logs, i, logs[i].order)
  <2>1. PICK p \in (i + 1)..m : logs[p].kind = "OrderFilled" /\ logs[p].order = logs[i].order
    BY <1>0, <1>1 DEF TakenBack
  <2>2. p \in 1..m /\ i < p /\ i \in 1..m
    BY <1>0
  <2> QED
    BY <1>0, <2>1, <2>2 DEF TwinLogs
<1>2. CASE FillsOf(SubSeq(logs, 1, i - 1), logs[i].order)
  <2>1. PICK first : first = SubSeq(logs, 1, i - 1)
    OBVIOUS
  <2>2. Len(first) = i - 1 /\ \A j \in 1..(i - 1) : first[j] = logs[j]
    BY <2>1
  <2>3. PICK j \in 1..(i - 1) : first[j].kind = "OrderFilled" /\ first[j].order = logs[i].order
    BY <1>2, <2>1, <2>2 DEF FillsOf
  <2>4. j \in 1..m /\ j < i /\ i \in 1..m /\ first[j] = logs[j]
    BY <1>0, <2>2
  <2> QED
    BY <1>0, <2>3, <2>4 DEF TwinLogs
<1> QED
  BY <1>1, <1>2

\* A log that follows, and the trades and the volume of the blocks before it.
NextTo(blocks, b, first, l, old, new) ==
  /\ old = With(blocks, b, first) /\ new = With(blocks, b, Append(first, l))
  /\ l \in Following(old) /\ Sane(old) /\ Sane(new)
RowsNext(first, old, new, l, n, i) ==
  /\ l.kind = "OrderFilled" =>
       /\ Rows(new) = Rows(old) \cup {TradeRow(l.order, n, i, l.amount)}
       /\ FilledIn(new, Order) = FilledIn(old, Order) + l.amount
  /\ l.kind # "OrderFilled" =>
       /\ Rows(new) = Rows(old)
       /\ FilledIn(new, Order) = FilledIn(old, Order)
  /\ FilledIn(old, Order) \in Nat
  /\ \A o : FillsOf(first, o) <=> \E t \in Rows(old) : t.order = o /\ t.block = n

LEMMA LogRows ==
  ASSUME NEW blocks \in Seq(BlockRecord), NEW b \in Nat, NEW first \in Seq(LogRecord),
         NEW old, NEW new, NEW l \in LogRecord,
         old = With(blocks, b, first), new = With(blocks, b, Append(first, l)),
         NEW n, n = Len(blocks) + 1, NEW i, i = Len(first) + 1
  PROVE  RowsNext(first, old, new, l, n, i)
<1>1. LogAdds(first, old, new, l, n)
  BY NextLog
<1> QED
  BY <1>1 DEF LogAdds, RowsNext

LEMMA RemoveLog ==
  ASSUME NEW blocks \in Seq(BlockRecord), NEW b \in Nat, NEW logs \in Seq(LogRecord),
         NEW n, n = Len(blocks) + 1, NEW i \in 1..Len(logs),
         NEW l \in LogRecord, l = logs[i], NEW first \in Seq(LogRecord), first = SubSeq(logs, 1, i - 1),
         NEW old, NEW new, NextTo(blocks, b, first, l, old, new),
         NEW d, NEW r, Unwinding(d, r, blocks, b, logs, n, i), ~r.thrown,
         NEW e, e = ProcessRemoval(r, l, n)
  PROVE  Unwinding(d, e, blocks, b, logs, n, i - 1)
<1>3. Len(first) + 1 = i /\ SubSeq(logs, 1, i) = Append(first, l) /\ i - 1 \in 0..Len(logs)
      /\ i \in 0..Len(logs) /\ (i - 1) + 1 = i /\ i - 1 < Len(logs) /\ n \in Nat /\ i \in Nat
  <2>1. SubSeq(logs, 1, i) = Append(first, l) /\ Len(first) = i - 1
    BY PrefixStep
  <2>2. Len(blocks) \in Nat /\ Len(logs) \in Nat
    OBVIOUS
  <2> QED
    BY <2>1, <2>2
<1>7. /\ r \in Tables
      /\ BookAgrees(r.book, r.canceled, new)
      /\ r.trades = {t \in Rows(new) : t.block = n => ~TakenBack(logs, i, t.order)}
      /\ ~TwinsAfter(logs, i)
      /\ NoTwins(With(blocks, b, logs)) => r.volume = FilledIn(new, Order)
      /\ NoNewFlag(d.book, r.book)
      /\ r.lastTrade = IF FillAfter(logs, i) THEN n ELSE d.lastTrade
  <2>1. With(blocks, b, SubSeq(logs, 1, i)) = new
    BY <1>3 DEF NextTo
  <2>2. BookAgrees(r.book, r.canceled, With(blocks, b, SubSeq(logs, 1, i)))
    BY DEF Unwinding
  <2>4. r.trades = {t \in Rows(With(blocks, b, SubSeq(logs, 1, i))) :
                      t.block = n => ~TakenBack(logs, i, t.order)}
    BY DEF Unwinding
  <2>5. NoTwins(With(blocks, b, logs)) =>
          r.volume = FilledIn(With(blocks, b, SubSeq(logs, 1, i)), Order)
    BY DEF Unwinding
  <2>3. /\ r \in Tables /\ ~TwinsAfter(logs, i) /\ NoNewFlag(d.book, r.book)
        /\ r.lastTrade = IF FillAfter(logs, i) THEN n ELSE d.lastTrade
    BY DEF Unwinding
  <2> QED
    BY <2>1, <2>2, <2>3, <2>4, <2>5
<1>8. /\ e \in Tables
      /\ e.thrown <=> l.kind = "OrderFilled" /\ TradesOf(r, l.order, n) = {}
      /\ ~e.thrown =>
           /\ BookAgrees(e.book, e.canceled, old) /\ NoNewFlag(r.book, e.book)
           /\ e.metrics = OpenOrders(e)
           /\ l.kind = "OrderFilled" =>
                /\ e.trades = r.trades \ TradesOf(r, l.order, n) /\ e.lastTrade = n
                /\ e.volume = r.volume - FirstOf(TradesOf(r, l.order, n)).amount
           /\ l.kind # "OrderFilled" =>
                e.trades = r.trades /\ e.lastTrade = r.lastTrade /\ e.volume = r.volume
  <2>1. OutOf(r, e, old, l, n)
    BY <1>3, <1>7, LogRemoved DEF NextTo
  <2> QED
    BY <2>1 DEF OutOf
<1>9. /\ l.kind = "OrderFilled" =>
           /\ Rows(new) = Rows(old) \cup {TradeRow(l.order, n, i, l.amount)}
           /\ FilledIn(new, Order) = FilledIn(old, Order) + l.amount
      /\ l.kind # "OrderFilled" =>
           /\ Rows(new) = Rows(old)
           /\ FilledIn(new, Order) = FilledIn(old, Order)
      /\ FilledIn(old, Order) \in Nat
      /\ \A o : FillsOf(first, o) <=> \E t \in Rows(old) : t.order = o /\ t.block = n
  <2>1. RowsNext(first, old, new, l, n, i)
    BY <1>3, LogRows DEF NextTo
  <2> QED
    BY <2>1 DEF RowsNext
<1>10. /\ \A o : TakenBack(logs, i - 1, o) <=>
              TakenBack(logs, i, o) \/ (l.kind = "OrderFilled" /\ l.order = o)
       /\ FillAfter(logs, i - 1) <=> FillAfter(logs, i) \/ l.kind = "OrderFilled"
       /\ TwinsAfter(logs, i - 1) <=>
            TwinsAfter(logs, i) \/ (l.kind = "OrderFilled" /\ TakenBack(logs, i, l.order))
  BY AfterStep
<1>11. PICK row : row = TradeRow(l.order, n, i, l.amount)
  OBVIOUS
<1>12. row \in Trade /\ row.order = l.order /\ row.block = n /\ row.amount = l.amount /\ l.amount \in Nat
  BY <1>3, <1>11 DEF TradeRow, Trade, LogRecord
<1>13. ASSUME e.thrown
       PROVE  TwinLogs(logs)
  <2>1. l.kind = "OrderFilled" /\ TradesOf(r, l.order, n) = {}
    BY <1>8, <1>13
  <2>2. row \in Rows(new) /\ row \notin r.trades
    BY <1>9, <1>11, <1>12, <2>1 DEF TradesOf
  <2>3. TakenBack(logs, i, l.order)
    BY <1>7, <1>12, <2>2
  <2> QED
    BY <2>1, <2>3, TwinsAround
<1>14. ASSUME ~e.thrown, l.kind = "OrderFilled"
       PROVE  /\ e.trades = {t \in Rows(old) : t.block = n => ~TakenBack(logs, i - 1, t.order)}
              /\ ~TwinsAfter(logs, i - 1)
              /\ NoTwins(With(blocks, b, logs)) => e.volume = FilledIn(old, Order)
              /\ e.lastTrade = IF FillAfter(logs, i - 1) THEN n ELSE d.lastTrade
  <2>1. TradesOf(r, l.order, n) # {}
    BY <1>8, <1>14
  <2>2. ~TakenBack(logs, i, l.order)
    BY <1>7, <2>1 DEF TradesOf
  <2>3. e.trades = r.trades \ TradesOf(r, l.order, n) /\ e.lastTrade = n
    BY <1>8, <1>14
  <2>4. \A t : t \in e.trades <=>
          t \in Rows(new) /\ (t.block = n => ~TakenBack(logs, i, t.order)) /\ ~(t.order = l.order /\ t.block = n)
    BY <1>7, <2>3 DEF TradesOf
  <2>5. \A t : t \in Rows(new) <=> t \in Rows(old) \/ t = row
    BY <1>9, <1>11, <1>14
  <2>6. \A o : TakenBack(logs, i - 1, o) <=> TakenBack(logs, i, o) \/ o = l.order
    BY <1>10, <1>14
  <2>7. e.trades = {t \in Rows(old) : t.block = n => ~TakenBack(logs, i - 1, t.order)}
    BY <1>12, <2>4, <2>5, <2>6
  <2>8. ASSUME NoTwins(With(blocks, b, logs))
        PROVE  e.volume = FilledIn(old, Order)
    <3>1. ~TwinLogs(logs)
      BY <2>8, NoTwinsWith
    <3>2. ~FillsOf(first, l.order)
      BY <1>14, <3>1, TwinsAround
    <3>3. TradesOf(r, l.order, n) \subseteq {row}
      BY <1>7, <1>9, <2>5, <3>2 DEF TradesOf
    <3>4. TradesOf(r, l.order, n) = {row}
      BY <2>1, <3>3
    <3>5. FirstOf({row}) = row
      BY <1>12, FirstOfOne
    <3>6. r.volume = FilledIn(old, Order) + l.amount
      BY <1>7, <1>9, <1>14, <2>8
    <3>7. e.volume = r.volume - FirstOf(TradesOf(r, l.order, n)).amount
      BY <1>8, <1>14
    <3>8. FirstOf(TradesOf(r, l.order, n)).amount = l.amount
      BY <1>12, <3>4, <3>5
    <3> QED
      BY <1>9, <1>12, <3>6, <3>7, <3>8
  <2> QED
    BY <1>7, <1>10, <1>14, <2>2, <2>3, <2>7, <2>8
<1>15. ASSUME ~e.thrown, l.kind # "OrderFilled"
       PROVE  /\ e.trades = {t \in Rows(old) : t.block = n => ~TakenBack(logs, i - 1, t.order)}
              /\ ~TwinsAfter(logs, i - 1)
              /\ NoTwins(With(blocks, b, logs)) => e.volume = FilledIn(old, Order)
              /\ e.lastTrade = IF FillAfter(logs, i - 1) THEN n ELSE d.lastTrade
  <2>1. e.trades = r.trades /\ e.lastTrade = r.lastTrade /\ e.volume = r.volume
    BY <1>8, <1>15
  <2>2. \A o : TakenBack(logs, i - 1, o) <=> TakenBack(logs, i, o)
    BY <1>10, <1>15
  <2>3. Rows(new) = Rows(old) /\ FilledIn(new, Order) = FilledIn(old, Order)
    BY <1>9, <1>15
  <2>4. e.trades = {t \in Rows(old) : t.block = n => ~TakenBack(logs, i - 1, t.order)}
    BY <1>7, <2>1, <2>2, <2>3
  <2> QED
    BY <1>7, <1>10, <1>15, <2>1, <2>3, <2>4
<1>16. ~e.thrown => /\ BookAgrees(e.book, e.canceled, old) /\ NoNewFlag(d.book, e.book)
                    /\ e.metrics = OpenOrders(e)
  <2>1. NoNewFlag(d.book, r.book) /\ (~e.thrown => NoNewFlag(r.book, e.book))
    BY <1>7, <1>8
  <2>2. ~e.thrown => NoNewFlag(d.book, e.book)
    BY <2>1 DEF NoNewFlag
  <2> QED
    BY <1>8, <2>2
<1> QED
  <2>1. old = With(blocks, b, SubSeq(logs, 1, i - 1)) /\ e \in Tables
    BY <1>8 DEF NextTo
  <2>2. ~e.thrown =>
          /\ e.trades = {t \in Rows(old) : t.block = n => ~TakenBack(logs, i - 1, t.order)}
          /\ ~TwinsAfter(logs, i - 1)
          /\ NoTwins(With(blocks, b, logs)) => e.volume = FilledIn(old, Order)
          /\ e.lastTrade = IF FillAfter(logs, i - 1) THEN n ELSE d.lastTrade
    BY <1>14, <1>15
  <2> QED
    BY <1>13, <1>16, <2>1, <2>2 DEF Unwinding

LEMMA RemoveStep ==
  ASSUME NEW blocks \in Seq(BlockRecord), NEW b \in Nat, NEW logs \in Seq(LogRecord),
         LawfulLast(blocks, b, logs), NEW n, n = Len(blocks) + 1, NEW i \in 1..Len(logs),
         NEW d, NEW r, Unwinding(d, r, blocks, b, logs, n, i), ~r.thrown,
         NEW e, e = ProcessRemoval(r, logs[i], n)
  PROVE  Unwinding(d, e, blocks, b, logs, n, i - 1)
<1>1. PICK l \in LogRecord : l = logs[i]
  BY PrefixStep
<1>2. PICK first \in Seq(LogRecord) : first = SubSeq(logs, 1, i - 1)
  BY PrefixStep
<1>3. SubSeq(logs, 1, i) = Append(first, l) /\ i - 1 \in 0..Len(logs)
      /\ i \in 0..Len(logs) /\ (i - 1) + 1 = i /\ i - 1 < Len(logs)
  <2>1. SubSeq(logs, 1, i) = Append(first, l) /\ Len(first) = i - 1
    BY <1>1, <1>2, PrefixStep
  <2>2. Len(logs) \in Nat
    OBVIOUS
  <2> QED
    BY <2>1, <2>2
<1>4. PICK old : old = With(blocks, b, first)
  OBVIOUS
<1>5. PICK new : new = With(blocks, b, Append(first, l))
  OBVIOUS
<1>6. l \in Following(old) /\ Sane(old) /\ Sane(new)
  <2>1. /\ Sane(With(blocks, b, SubSeq(logs, 1, i - 1)))
        /\ logs[(i - 1) + 1] \in Following(With(blocks, b, SubSeq(logs, 1, i - 1)))
    BY <1>3 DEF LawfulLast
  <2>2. Sane(With(blocks, b, SubSeq(logs, 1, i)))
    BY <1>3 DEF LawfulLast
  <2> QED
    BY <1>1, <1>2, <1>3, <1>4, <1>5, <2>1, <2>2
<1>7. NextTo(blocks, b, first, l, old, new)
  BY <1>4, <1>5, <1>6 DEF NextTo
<1>8. e = ProcessRemoval(r, l, n)
  BY <1>1
<1> QED
  BY <1>1, <1>2, <1>7, <1>8, RemoveLog

\* Nothing of the block is taken back at the start.
LEMMA UnwindingStarts ==
  ASSUME NEW blocks \in Seq(BlockRecord), NEW b \in Nat, NEW logs \in Seq(LogRecord),
         NEW d, At(d, With(blocks, b, logs)), NEW n
  PROVE  Unwinding(d, d, blocks, b, logs, n, Len(logs))
<1>1. SubSeq(logs, 1, Len(logs)) = logs
  BY PrefixOfAppend
<1>2. (Len(logs) + 1)..Len(logs) = {}
  <2>1. Len(logs) \in Nat
    OBVIOUS
  <2> QED
    BY <2>1
<1>3. ~FillAfter(logs, Len(logs)) /\ ~TwinsAfter(logs, Len(logs)) /\ \A o : ~TakenBack(logs, Len(logs), o)
  BY <1>2 DEF FillAfter, TwinsAfter, TakenBack
<1>4. d \in Tables /\ ~d.thrown /\ BookAgrees(d.book, d.canceled, With(blocks, b, logs))
  BY DEF At
<1>5. d.trades = Rows(With(blocks, b, logs))
  BY DEF At
<1>6. NoTwins(With(blocks, b, logs)) => d.volume = FilledIn(With(blocks, b, logs), Order)
  BY DEF At
<1>7. d.trades = {t \in Rows(With(blocks, b, logs)) : t.block = n => ~TakenBack(logs, Len(logs), t.order)}
  BY <1>3, <1>5
<1>8. NoNewFlag(d.book, d.book)
  BY DEF NoNewFlag
<1> QED
  BY <1>1, <1>3, <1>4, <1>6, <1>7, <1>8 DEF Unwinding

\* Taking all the logs of a block back gives the tables of the blocks before it,
\* unless a processor threw: an order is filled twice in the block then.
Unwound(d, e, blocks, logs, n) ==
  /\ e.thrown => TwinLogs(logs)
  /\ ~e.thrown =>
       /\ At(e, blocks) /\ NoNewFlag(d.book, e.book)
       /\ e = d \/ e.metrics = OpenOrders(e)
       /\ e.lastTrade = IF FillAfter(logs, 0) THEN n ELSE d.lastTrade

LEMMA UnwindingEnds ==
  ASSUME NEW blocks \in Seq(BlockRecord), NEW b \in Nat, NEW logs \in Seq(LogRecord),
         NEW n, n = Len(blocks) + 1, NEW d, NEW e, Unwinding(d, e, blocks, b, logs, n, 0)
  PROVE  Unwound(d, e, blocks, logs, n)
<1>1. e.thrown => TwinLogs(logs)
  BY DEF Unwinding
<1>2. SUFFICES ASSUME ~e.thrown
               PROVE  /\ At(e, blocks) /\ NoNewFlag(d.book, e.book)
                      /\ e = d \/ e.metrics = OpenOrders(e)
                      /\ e.lastTrade = IF FillAfter(logs, 0) THEN n ELSE d.lastTrade
  BY <1>1 DEF Unwound
<1>3. SubSeq(logs, 1, 0) = <<>>
  BY PrefixOfAppend
<1>4. PICK none : none = <<>>
  OBVIOUS
<1>5. none \in Seq(LogRecord)
  BY <1>4
<1>6. PICK empty : empty = With(blocks, b, none)
  OBVIOUS
<1>7. With(blocks, b, SubSeq(logs, 1, 0)) = empty
  BY <1>3, <1>4, <1>6
<1>8. /\ e \in Tables /\ ~TwinsAfter(logs, 0) /\ NoNewFlag(d.book, e.book)
      /\ e = d \/ e.metrics = OpenOrders(e)
      /\ e.lastTrade = IF FillAfter(logs, 0) THEN n ELSE d.lastTrade
  BY <1>2 DEF Unwinding
<1>9. BookAgrees(e.book, e.canceled, empty)
  BY <1>2, <1>7 DEF Unwinding
<1>10. e.trades = {t \in Rows(With(blocks, b, SubSeq(logs, 1, 0))) : t.block = n => ~TakenBack(logs, 0, t.order)}
  BY <1>2 DEF Unwinding
<1>11. NoTwins(With(blocks, b, logs)) =>
         e.volume = FilledIn(With(blocks, b, SubSeq(logs, 1, 0)), Order)
  BY <1>2 DEF Unwinding
<1>12. Rows(empty) = Rows(blocks)
  <2>1. Rows(empty) = Rows(blocks) \cup RowsOf(none, Len(blocks) + 1)
    BY <1>5, <1>6, RowsWith
  <2>2. RowsOf(none, Len(blocks) + 1) = {}
    BY <1>4 DEF RowsOf
  <2> QED
    BY <2>1, <2>2
<1>13. \A t \in Rows(blocks) : t.block # n
  <2>1. \A t \in Rows(blocks) : t.block \in 1..Len(blocks)
    BY RowsBlock
  <2>2. Len(blocks) \in Nat
    OBVIOUS
  <2> QED
    BY <2>1, <2>2
<1>14. e.trades = Rows(empty)
  BY <1>7, <1>10, <1>12, <1>13
<1>15. NoTwins(empty) => e.volume = FilledIn(empty, Order)
  <2>1. ~TwinLogs(logs)
    <3>1. \A j \in 1..Len(logs) : j \in (0 + 1)..Len(logs)
      OBVIOUS
    <3> QED
      BY <1>8, <3>1 DEF TwinsAfter, TwinLogs
  <2>2. NoTwins(empty) => NoTwins(blocks)
    BY <1>5, <1>6, NoTwinsWith
  <2>3. NoTwins(blocks) => NoTwins(With(blocks, b, logs))
    BY <2>1, NoTwinsWith
  <2> QED
    BY <1>7, <1>11, <2>2, <2>3
<1>16. At(e, empty)
  BY <1>2, <1>8, <1>9, <1>14, <1>15 DEF At
<1>17. At(e, blocks)
  BY <1>4, <1>6, <1>16, AtEmptyBlock
<1> QED
  BY <1>8, <1>17

LEMMA InReverseIs ==
  ASSUME NEW logs \in Seq(LogRecord), NEW k \in 1..Len(logs)
  PROVE  InReverse(logs)[k] = logs[(Len(logs) - k) + 1]
BY DEF InReverse, Reverse

LEMMA InReverseLength ==
  ASSUME NEW logs \in Seq(LogRecord)
  PROVE  Len(InReverse(logs)) = Len(logs)
BY DEF InReverse, Reverse

LEMMA BlockRemoved ==
  ASSUME NEW blocks \in Seq(BlockRecord), NEW b \in Nat, NEW logs \in Seq(LogRecord),
         LawfulLast(blocks, b, logs), NEW d, At(d, With(blocks, b, logs)),
         NEW n, n = Len(blocks) + 1,
         NEW e, e = ProcessRemovals(d, InReverse(logs), n)
  PROVE  Unwound(d, e, blocks, logs, n)
<1>1. PICK m \in Nat : m = Len(logs)
  OBVIOUS
<1>2. PICK back : back = InReverse(logs)
  OBVIOUS
<1>3. Len(back) = m
  BY <1>1, <1>2, InReverseLength
<1>4. PICK f : /\ f[0] = d /\ e = f[m]
               /\ \A i \in 1..m : f[i] = ProcessRemoval(f[i - 1], back[i], n)
  BY <1>1, <1>2, <1>3, ProcessRemovalsSteps
<1> DEFINE S == {k \in Nat : k <= m => Unwinding(d, f[k], blocks, b, logs, n, m - k)}
<1>5. 0 \in S
  <2>1. m - 0 = Len(logs)
    BY <1>1
  <2>2. Unwinding(d, d, blocks, b, logs, n, Len(logs))
    BY UnwindingStarts
  <2> QED
    BY <1>4, <2>1, <2>2
<1>6. ASSUME NEW k \in Nat, k \in S
      PROVE  k + 1 \in S
  <2>1. SUFFICES ASSUME k + 1 <= m
                 PROVE  Unwinding(d, f[k + 1], blocks, b, logs, n, m - (k + 1))
    OBVIOUS
  <2>2. PICK i \in 1..Len(logs) : i = m - k
    <3>1. m - k \in 1..m
      BY <2>1
    <3> QED
      BY <1>1, <3>1
  <2>3. m - (k + 1) = i - 1 /\ k + 1 \in 1..m /\ (k + 1) - 1 = k /\ k <= m /\ (Len(logs) - (k + 1)) + 1 = i
    BY <1>1, <2>1, <2>2
  <2>4. PICK r : r = f[k]
    OBVIOUS
  <2>5. Unwinding(d, r, blocks, b, logs, n, i)
    BY <1>6, <2>2, <2>3, <2>4
  <2>6. back[k + 1] = logs[i]
    <3>1. PICK j \in 1..Len(logs) : j = k + 1
      BY <1>1, <2>3
    <3>2. back[j] = logs[(Len(logs) - j) + 1]
      BY <1>2, InReverseIs
    <3> QED
      BY <2>3, <3>1, <3>2
  <2>7. PICK g : g = f[k + 1]
    OBVIOUS
  <2>8. g = ProcessRemoval(r, logs[i], n)
    BY <1>4, <2>3, <2>4, <2>6, <2>7
  <2>9. CASE r.thrown
    <3>1. g = r
      BY <2>8, <2>9 DEF ProcessRemoval
    <3>2. r \in Tables /\ TwinLogs(logs)
      BY <2>5, <2>9 DEF Unwinding
    <3>3. Unwinding(d, g, blocks, b, logs, n, i - 1)
      BY <2>9, <3>1, <3>2 DEF Unwinding
    <3> QED
      BY <2>3, <2>7, <3>3
  <2>10. CASE ~r.thrown
    <3>1. Unwinding(d, g, blocks, b, logs, n, i - 1)
      BY <2>5, <2>8, <2>10, RemoveStep
    <3> QED
      BY <2>3, <2>7, <3>1
  <2> QED
    BY <2>9, <2>10
<1>7. Nat \subseteq S
  <2> HIDE DEF S
  <2> QED
    BY <1>5, <1>6, SetInduction
<1>8. Unwinding(d, e, blocks, b, logs, n, 0)
  <2>1. m \in S /\ m - m = 0 /\ m <= m
    BY <1>7
  <2> QED
    BY <1>4, <2>1
<1> QED
  BY <1>8, UnwindingEnds

(***************************************************************************)
(* The inductive invariant: the chains are made of logs that may follow,   *)
(* the tables are those of the indexed blocks, and what the steps of the   *)
(* chain and of the node keep of each other's state.                       *)
(***************************************************************************)
Chains ==
  /\ Lawful(chain) /\ Lawful(indexed) /\ reorgs \in Nat
  /\ Len(chain) <= MaxHeight /\ Len(indexed) <= MaxHeight

\* A block that left the chain is never mined again: indexed blocks above the
\* chain are of an earlier reorganisation than the blocks that will be mined.
Births ==
  /\ \A n \in 1..Len(chain) : chain[n].born <= reorgs
  /\ \A n \in 1..Len(indexed) : indexed[n].born <= reorgs
  /\ \A n \in 1..Len(indexed) : n > Len(chain) => indexed[n].born < reorgs
  /\ reorgs = 0 => OnChain

Stages == stage \in {"bulk", "ready", "checking"} /\ halted \in BOOLEAN /\ unwound \in BOOLEAN

LastTradeKnown ==
  /\ db.lastTrade \in 0..MaxHeight
  /\ ~unwound =>
       /\ db.lastTrade = 0 \/ (db.lastTrade \in 1..Len(indexed) /\ HasFill(indexed[db.lastTrade]))
       /\ \A n \in 1..Len(indexed) : n > db.lastTrade => ~HasFill(indexed[n])

IInv ==
  /\ Chains /\ Births /\ Stages /\ At(db, indexed) /\ LastTradeKnown
  /\ HaltsOnlyOnTwins /\ HiddenOnlyIfGone /\ MetricsFresh

LEMMA Bounds ==
  /\ MaxHeight \in Nat /\ HandoffBlocks \in Nat /\ MaxReorg \in Nat /\ MaxReorgs \in Nat
  /\ SideOf \in [Order -> Side]
BY OrderAssumption

\* Being a prefix, block by block.
LEMMA PrefixIs ==
  ASSUME NEW x \in Seq(BlockRecord), NEW y \in Seq(BlockRecord)
  PROVE  (Len(x) <= Len(y) /\ x = SubSeq(y, 1, Len(x))) <=>
           (Len(x) <= Len(y) /\ \A k \in 1..Len(x) : x[k] = y[k])
<1>1. Len(x) \in Nat /\ Len(y) \in Nat
  OBVIOUS
<1>2. ASSUME Len(x) <= Len(y)
      PROVE  /\ Len(SubSeq(y, 1, Len(x))) = Len(x) /\ SubSeq(y, 1, Len(x)) \in Seq(BlockRecord)
             /\ \A k \in 1..Len(x) : SubSeq(y, 1, Len(x))[k] = y[k]
  BY <1>1, <1>2
<1>3. ASSUME Len(x) <= Len(y), \A k \in 1..Len(x) : x[k] = y[k]
      PROVE  x = SubSeq(y, 1, Len(x))
  <2>1. PICK z \in Seq(BlockRecord) : z = SubSeq(y, 1, Len(x))
    BY <1>2, <1>3
  <2>2. Len(z) = Len(x) /\ \A k \in 1..Len(x) : z[k] = x[k]
    BY <1>2, <1>3, <2>1
  <2>3. x = z
    BY <2>1, <2>2, SeqEqual
  <2> QED
    BY <2>1, <2>3
<1> QED
  BY <1>2, <1>3

LEMMA OnChainIs ==
  ASSUME indexed \in Seq(BlockRecord), chain \in Seq(BlockRecord)
  PROVE  OnChain <=> Len(indexed) <= Len(chain) /\ \A k \in 1..Len(indexed) : indexed[k] = chain[k]
BY PrefixIs DEF OnChain

LEMMA OnChainNext ==
  ASSUME indexed' \in Seq(BlockRecord), chain' \in Seq(BlockRecord)
  PROVE  OnChain' <=> Len(indexed') <= Len(chain') /\ \A k \in 1..Len(indexed') : indexed'[k] = chain'[k]
<1>1. PICK x \in Seq(BlockRecord) : x = indexed'
  OBVIOUS
<1>2. PICK y \in Seq(BlockRecord) : y = chain'
  OBVIOUS
<1>3. OnChain' <=> Len(x) <= Len(y) /\ x = SubSeq(y, 1, Len(x))
  BY <1>1, <1>2 DEF OnChain
<1> QED
  BY <1>1, <1>2, <1>3, PrefixIs

LEMMA EmptyTablesAt == At(EmptyTables, <<>>)
<1>1. PICK e : e = EmptyTables
  OBVIOUS
<1>2. PICK none : none = <<>>
  OBVIOUS
<1>3. DOMAIN none = {} /\ none = [o \in DOMAIN none |-> none[o]]
  BY <1>2
<1>4. none \in Books /\ none \in Metrics
  <2>1. none \in [{} -> OrderRow] /\ none \in [{} -> Int] /\ {} \in SUBSET Order
    BY <1>3
  <2> QED
    BY <2>1 DEF Books, Metrics
<1>5. /\ e = [book |-> none, canceled |-> {}, trades |-> {}, volume |-> 0, lastTrade |-> 0,
              pendingOrphan |-> {}, pendingLiquidity |-> FALSE, metrics |-> none, thrown |-> FALSE]
  BY <1>1, <1>2 DEF EmptyTables
<1>6. e \in Tables /\ e.book = none /\ e.canceled = {} /\ e.trades = {} /\ e.volume = 0 /\ ~e.thrown
  BY <1>4, <1>5 DEF Tables
<1>7. BookAgrees(none, {}, none)
  <2>1. \A o : ~CreatedIn(none, o) /\ ~CanceledIn(none, o)
    BY <1>2, NothingHas DEF CreatedIn, CanceledIn
  <2> QED
    BY <1>3, <2>1 DEF BookAgrees
<1>8. Rows(none) = {}
  BY <1>2 DEF Rows
<1>9. FilledIn(none, Order) = 0
  BY <1>2, FilledNothing
<1>10. At(e, none)
  BY <1>6, <1>7, <1>8, <1>9 DEF At
<1> QED
  BY <1>1, <1>2, <1>10

LEMMA InitIInv == Init => IInv
<1> SUFFICES ASSUME Init
             PROVE  IInv
  OBVIOUS
<1>1. /\ chain = <<>> /\ indexed = <<>> /\ reorgs = 0 /\ db = EmptyTables /\ stage = "bulk"
      /\ halted = FALSE /\ unwound = FALSE
  BY DEF Init
<1>2. Chains
  BY <1>1, LawfulNothing, Bounds DEF Chains
<1>3. Births
  BY <1>1 DEF Births, OnChain
<1>4. Stages
  BY <1>1 DEF Stages
<1>5. At(db, indexed)
  BY <1>1, EmptyTablesAt
<1>6. db.book = <<>> /\ db.metrics = <<>> /\ db.lastTrade = 0
  BY <1>1 DEF EmptyTables
<1>7. LastTradeKnown
  BY <1>1, <1>6, Bounds DEF LastTradeKnown
<1>8. HaltsOnlyOnTwins
  BY <1>1 DEF HaltsOnlyOnTwins
<1>9. HiddenOnlyIfGone
  BY <1>6 DEF HiddenOnlyIfGone
<1>10. MetricsFresh
  <2>1. PICK none : none = <<>>
    OBVIOUS
  <2>2. DOMAIN none = {} /\ none = [o \in {} |-> none[o]]
    BY <2>1
  <2>3. db.book = none /\ db.metrics = none
    BY <1>6, <2>1
  <2>4. {p \in DOMAIN db.book : db.book[p].state = "OPEN"} = {}
    BY <2>2, <2>3
  <2>5. OpenOrders(db) = [o \in {} |-> db.book[o].left]
    BY <2>4 DEF OpenOrders
  <2>6. OpenOrders(db) = none
    BY <2>2, <2>5
  <2> QED
    BY <1>1, <2>3, <2>6 DEF MetricsFresh
<1> QED
  BY <1>2, <1>3, <1>4, <1>5, <1>7, <1>8, <1>9, <1>10 DEF IInv

(***************************************************************************)
(* The steps of the chain.                                                 *)
(***************************************************************************)
\* An order that was created and is not open any more stays so.
LEMMA StaysGone ==
  ASSUME NEW blocks \in Seq(BlockRecord), NEW b \in Nat, NEW logs \in Seq(LogRecord),
         NEW o \in Order, CreatedIn(blocks, o), ~OpenIn(blocks, o)
  PROVE  ~OpenIn(With(blocks, b, logs), o)
<1>1. PICK new : new = With(blocks, b, logs)
  OBVIOUS
<1>2. CanceledIn(blocks, o) => CanceledIn(new, o)
  BY <1>1, HasWith DEF CanceledIn
<1>3. FilledIn(new, {o}) = FilledIn(blocks, {o}) + FilledByAll(logs, {o})
  BY <1>1, FilledWith
<1>4. FilledByAll(logs, {o}) \in Nat /\ FilledIn(blocks, {o}) \in Nat /\ Amount[o] \in Nat
  BY FilledByAllNat, FilledNat, OrderAssumption
<1>5. LeftIn(new, o) <= LeftIn(blocks, o) /\ LeftIn(new, o) \in Int /\ LeftIn(blocks, o) \in Int
  BY <1>3, <1>4 DEF LeftIn
<1>6. CanceledIn(blocks, o) \/ ~(LeftIn(blocks, o) > 0)
  BY DEF OpenIn
<1>7. CanceledIn(new, o) \/ ~(LeftIn(new, o) > 0)
  BY <1>2, <1>5, <1>6
<1> QED
  BY <1>1, <1>7 DEF OpenIn

LEMMA CreatedInPrefix ==
  ASSUME NEW x \in Seq(BlockRecord), NEW y \in Seq(BlockRecord), Len(x) <= Len(y),
         \A k \in 1..Len(x) : x[k] = y[k], NEW o, CreatedIn(x, o)
  PROVE  CreatedIn(y, o)
<1>1. PICK n \in 1..Len(x) : \E i \in 1..Len(x[n].logs) :
        x[n].logs[i].kind = "OrderCreated" /\ x[n].logs[i].order = o
  BY DEF CreatedIn, Has
<1>2. n \in 1..Len(y) /\ x[n] = y[n]
  <2>1. Len(x) \in Nat /\ Len(y) \in Nat
    OBVIOUS
  <2> QED
    BY <2>1
<1> QED
  BY <1>1, <1>2 DEF CreatedIn, Has

\* The database does not change.
LEMMA TablesKept ==
  ASSUME At(db, indexed), LastTradeKnown, MetricsFresh, UNCHANGED <<indexed, db, stage, unwound>>
  PROVE  At(db, indexed)' /\ LastTradeKnown' /\ MetricsFresh'
<1>1. At(db, indexed)'
  OBVIOUS
<1>2. LastTradeKnown'
  BY DEF LastTradeKnown
<1>3. MetricsFresh'
  BY DEF MetricsFresh
<1> QED
  BY <1>1, <1>2, <1>3

LEMMA MineStep ==
  ASSUME IInv, MineBlock
  PROVE  IInv'
<1>1. /\ Lawful(chain) /\ Lawful(indexed) /\ reorgs \in Nat /\ Len(chain) <= MaxHeight
      /\ Len(indexed) <= MaxHeight /\ chain \in Seq(BlockRecord) /\ indexed \in Seq(BlockRecord)
  BY DEF IInv, Chains, Lawful
<1>2. /\ UNCHANGED <<lost, reorgs, indexed, db, stage, halted, unwound>> /\ Len(chain) < MaxHeight
  BY DEF MineBlock
<1>3. PICK b \in Nat, logs \in Seq(LogRecord) :
        b = reorgs /\ LawfulLast(chain, b, logs) /\ chain' = With(chain, b, logs)
  BY <1>1, LawfulMined
<1>4. Lawful(chain') /\ chain' \in Seq(BlockRecord)
  BY <1>1, LawfulMined DEF Lawful
<1>5. Len(chain') = Len(chain) + 1 /\ Len(chain) \in Nat /\ Len(indexed) \in Nat
  <2>1. Len(With(chain, b, logs)) = Len(chain) + 1
    BY <1>1, <1>3, WithIs
  <2>2. Len(chain) \in Nat /\ Len(indexed) \in Nat
    BY <1>1
  <2> QED
    BY <1>3, <2>1, <2>2
<1>6. \A n \in 1..Len(chain) : chain'[n] = chain[n]
  BY <1>1, <1>3, WithOld
<1>7. chain'[Len(chain) + 1].born = reorgs
  BY <1>1, <1>3, WithLast
<1>8. Chains'
  BY <1>1, <1>2, <1>4, <1>5, Bounds DEF Chains
<1>9. /\ \A n \in 1..Len(chain) : chain[n].born <= reorgs
      /\ \A n \in 1..Len(indexed) : indexed[n].born <= reorgs
      /\ \A n \in 1..Len(indexed) : n > Len(chain) => indexed[n].born < reorgs
      /\ reorgs = 0 => OnChain
  BY DEF IInv, Births
<1>10. OnChain <=> Len(indexed) <= Len(chain) /\ \A k \in 1..Len(indexed) : indexed[k] = chain[k]
  BY <1>1, OnChainIs
<1>11. OnChain' <=> Len(indexed) <= Len(chain') /\ \A k \in 1..Len(indexed) : indexed[k] = chain'[k]
  BY <1>1, <1>2, <1>4, OnChainNext
<1>12. OnChain => OnChain'
  <2>1. SUFFICES ASSUME OnChain
                 PROVE  OnChain'
    OBVIOUS
  <2>2. Len(indexed) <= Len(chain) /\ \A k \in 1..Len(indexed) : indexed[k] = chain[k]
    BY <1>10, <2>1
  <2>3. \A k \in 1..Len(indexed) : k \in 1..Len(chain)
    BY <1>5, <2>2
  <2> QED
    BY <1>5, <1>6, <1>11, <2>2, <2>3
<1>13. ~OnChain => ~OnChain'
  <2>1. SUFFICES ASSUME ~OnChain, OnChain'
                 PROVE  FALSE
    OBVIOUS
  <2>2. Len(indexed) <= Len(chain') /\ \A k \in 1..Len(indexed) : indexed[k] = chain'[k]
    BY <1>11, <2>1
  <2>3. CASE Len(indexed) <= Len(chain)
    <3>1. \A k \in 1..Len(indexed) : k \in 1..Len(chain)
      BY <1>5, <2>3
    <3> QED
      BY <1>6, <1>10, <2>1, <2>2, <2>3, <3>1
  <2>4. CASE Len(indexed) > Len(chain)
    <3>1. Len(indexed) = Len(chain) + 1 /\ Len(chain) + 1 \in 1..Len(indexed) /\ Len(chain) + 1 > Len(chain)
      BY <1>5, <2>2, <2>4
    <3>2. indexed[Len(chain) + 1].born < reorgs /\ indexed[Len(chain) + 1].born = reorgs
      BY <1>7, <1>9, <2>2, <3>1
    <3> QED
      BY <1>1, <3>2
  <2> QED
    BY <1>5, <2>3, <2>4
<1>14. Births'
  <2>1. \A n \in 1..Len(chain') : n \in 1..Len(chain) \/ n = Len(chain) + 1
    BY <1>5
  <2>2. \A n \in 1..Len(chain') : chain'[n].born <= reorgs
    BY <1>1, <1>6, <1>7, <1>9, <2>1
  <2>3. \A n \in 1..Len(indexed) : n > Len(chain') => n > Len(chain)
    BY <1>5
  <2> QED
    BY <1>2, <1>9, <1>12, <2>2, <2>3 DEF Births
<1>15. Stages'
  BY <1>2 DEF IInv, Stages
<1>16. At(db, indexed)' /\ LastTradeKnown' /\ MetricsFresh'
  BY <1>2, TablesKept DEF IInv
<1>17. HaltsOnlyOnTwins'
  BY <1>2, <1>13 DEF IInv, HaltsOnlyOnTwins
<1>18. HiddenOnlyIfGone'
  <2>1. SUFFICES ASSUME reorgs = 0, NEW o \in DOMAIN db.book, db.book[o].orphaned, o \notin lost
                 PROVE  ~OpenIn(chain', o)
    BY <1>2 DEF HiddenOnlyIfGone
  <2>2. ~OpenIn(chain, o)
    BY <2>1 DEF IInv, HiddenOnlyIfGone
  <2>3. o \in Order /\ CreatedIn(indexed, o)
    BY DEF IInv, At, BookAgrees
  <2>4. CreatedIn(chain, o)
    BY <1>1, <1>9, <1>10, <2>1, <2>3, CreatedInPrefix
  <2> QED
    BY <1>1, <1>3, <2>2, <2>3, <2>4, StaysGone
<1> QED
  BY <1>8, <1>14, <1>15, <1>16, <1>17, <1>18 DEF IInv

LEMMA ReorganiseStep ==
  ASSUME IInv, NEW m \in 1..MaxReorg, Reorganise(m)
  PROVE  IInv'
<1>1. /\ Lawful(chain) /\ Lawful(indexed) /\ reorgs \in Nat /\ Len(chain) <= MaxHeight
      /\ Len(indexed) <= MaxHeight /\ chain \in Seq(BlockRecord) /\ indexed \in Seq(BlockRecord)
  BY DEF IInv, Chains, Lawful
<1>2. /\ UNCHANGED <<lost, indexed, db, stage, halted, unwound>> /\ reorgs' = reorgs + 1
      /\ chain' = SubSeq(chain, 1, Len(chain) - m) /\ m <= Len(chain)
  BY DEF Reorganise
<1>3. Len(chain) \in Nat /\ Len(indexed) \in Nat /\ m \in Nat /\ m > 0
  BY <1>1, Bounds
<1>4. PICK k \in 0..Len(chain) : k = Len(chain) - m
  <2>1. Len(chain) - m \in 0..Len(chain)
    BY <1>2, <1>3
  <2> QED
    BY <2>1
<1>5. Lawful(chain') /\ chain' \in Seq(BlockRecord)
  <2>1. Lawful(SubSeq(chain, 1, k))
    BY <1>1, LawfulPrefix
  <2> QED
    BY <1>2, <1>4, <2>1 DEF Lawful
<1>6. Len(chain') = k /\ k <= Len(chain) /\ k \in Nat /\ \A n \in 1..k : chain'[n] = chain[n] /\ n \in 1..Len(chain)
  BY <1>1, <1>2, <1>3, <1>4
<1>7. Chains'
  BY <1>1, <1>2, <1>3, <1>5, <1>6, Bounds DEF Chains
<1>8. /\ \A n \in 1..Len(chain) : chain[n].born <= reorgs
      /\ \A n \in 1..Len(indexed) : indexed[n].born <= reorgs
  BY DEF IInv, Births
<1>9. Births'
  <2>1. \A n \in 1..Len(chain') : chain'[n].born <= reorgs'
    <3>1. SUFFICES ASSUME NEW n \in 1..Len(chain')
                   PROVE  chain'[n].born <= reorgs'
      OBVIOUS
    <3>2. n \in 1..Len(chain) /\ chain'[n].born = chain[n].born /\ chain[n].born \in Nat
      BY <1>1, <1>6, BlockHasLogs
    <3> QED
      BY <1>1, <1>2, <1>8, <3>2
  <2>2. \A n \in 1..Len(indexed) : indexed[n].born <= reorgs' /\ indexed[n].born < reorgs'
    <3>1. SUFFICES ASSUME NEW n \in 1..Len(indexed)
                   PROVE  indexed[n].born <= reorgs' /\ indexed[n].born < reorgs'
      OBVIOUS
    <3>2. indexed[n].born \in Nat
      BY <1>1, BlockHasLogs
    <3> QED
      BY <1>1, <1>2, <1>8, <3>2
  <2>3. reorgs' # 0
    BY <1>1, <1>2
  <2> QED
    BY <1>2, <2>1, <2>2, <2>3 DEF Births
<1>10. ~OnChain => ~OnChain'
  <2>1. OnChain <=> Len(indexed) <= Len(chain) /\ \A j \in 1..Len(indexed) : indexed[j] = chain[j]
    BY <1>1, OnChainIs
  <2>2. OnChain' <=> Len(indexed) <= Len(chain') /\ \A j \in 1..Len(indexed) : indexed[j] = chain'[j]
    BY <1>1, <1>2, <1>5, OnChainNext
  <2>3. SUFFICES ASSUME Len(indexed) <= Len(chain'), \A j \in 1..Len(indexed) : indexed[j] = chain'[j]
                 PROVE  Len(indexed) <= Len(chain) /\ \A j \in 1..Len(indexed) : indexed[j] = chain[j]
    BY <2>1, <2>2
  <2>4. \A j \in 1..Len(indexed) : j \in 1..k
    BY <1>3, <1>6, <2>3
  <2>5. \A j \in 1..Len(indexed) : indexed[j] = chain[j]
    BY <1>6, <2>3, <2>4
  <2>6. Len(indexed) <= Len(chain)
    BY <1>3, <1>6, <2>3
  <2> QED
    BY <2>5, <2>6
<1>11. Stages'
  BY <1>2 DEF IInv, Stages
<1>12. At(db, indexed)' /\ LastTradeKnown' /\ MetricsFresh'
  BY <1>2, TablesKept DEF IInv
<1>13. HaltsOnlyOnTwins'
  BY <1>2, <1>10 DEF IInv, HaltsOnlyOnTwins
<1>14. HiddenOnlyIfGone'
  BY <1>1, <1>2 DEF HiddenOnlyIfGone
<1> QED
  BY <1>7, <1>9, <1>11, <1>12, <1>13, <1>14 DEF IInv

\* Steps that leave the two chains alone.
LEMMA ChainsKept ==
  ASSUME Chains, Births, UNCHANGED <<chain, reorgs, indexed>>
  PROVE  Chains' /\ Births' /\ (OnChain' <=> OnChain)
<1>1. Chains'
  BY DEF Chains
<1>2. OnChain' <=> OnChain
  BY DEF OnChain
<1>3. Births'
  BY <1>2 DEF Births
<1> QED
  BY <1>1, <1>2, <1>3

LEMMA LoseStep ==
  ASSUME IInv, NEW o \in Order, LoseOrder(o)
  PROVE  IInv'
<1>1. UNCHANGED <<chain, reorgs, indexed, db, stage, halted, unwound>> /\ lost' = lost \cup {o}
  BY DEF LoseOrder
<1>2. Chains' /\ Births' /\ (OnChain' <=> OnChain)
  BY <1>1, ChainsKept DEF IInv
<1>3. Stages'
  BY <1>1 DEF IInv, Stages
<1>4. At(db, indexed)' /\ LastTradeKnown' /\ MetricsFresh'
  BY <1>1, TablesKept DEF IInv
<1>5. HaltsOnlyOnTwins'
  BY <1>1, <1>2 DEF IInv, HaltsOnlyOnTwins
<1>6. HiddenOnlyIfGone'
  BY <1>1 DEF IInv, HiddenOnlyIfGone
<1> QED
  BY <1>2, <1>3, <1>4, <1>5, <1>6 DEF IInv

(***************************************************************************)
(* The steps of the node.                                                  *)
(***************************************************************************)
LEMMA HasFillIs ==
  ASSUME NEW block
  PROVE  /\ HasFill(block) <=> FillUpTo(block.logs, Len(block.logs))
         /\ HasFill(block) <=> FillAfter(block.logs, 0)
BY DEF HasFill, FillUpTo, FillAfter

\* Only orders that were flagged are flagged.
LEMMA HiddenKept ==
  ASSUME HiddenOnlyIfGone, NoNewFlag(db.book, db'.book), UNCHANGED <<chain, lost, reorgs>>
  PROVE  HiddenOnlyIfGone'
BY DEF HiddenOnlyIfGone, NoNewFlag

LEMMA AddBlockStep ==
  ASSUME IInv, AddBlock
  PROVE  IInv'
<1>1. /\ Lawful(chain) /\ Lawful(indexed) /\ reorgs \in Nat /\ Len(chain) <= MaxHeight
      /\ Len(indexed) <= MaxHeight /\ chain \in Seq(BlockRecord) /\ indexed \in Seq(BlockRecord)
  BY DEF IInv, Chains, Lawful
<1>2. PICK n : n = Len(indexed) + 1
  OBVIOUS
<1>3. Len(chain) \in Nat /\ Len(indexed) \in Nat /\ n \in Nat /\ n > 0 /\ n - 1 = Len(indexed)
  BY <1>1, <1>2
<1>4. ~halted /\ OnChain /\ UNCHANGED unwound
  BY DEF AddBlock
<1>5. n \in 1..Len(chain)
  <2>1. n <= Len(chain) - (IF stage = "bulk" THEN HandoffBlocks ELSE 0)
    BY <1>2 DEF AddBlock
  <2>2. (IF stage = "bulk" THEN HandoffBlocks ELSE 0) \in Nat
    BY Bounds
  <2> QED
    BY <1>3, <2>1, <2>2
<1>6. PICK b \in Nat, logs \in Seq(LogRecord) : b = chain[n].born /\ logs = chain[n].logs
  BY <1>1, <1>5, BlockHasLogs
<1>7. LawfulLast(indexed, b, logs)
  <2>1. LawfulLast(SubSeq(chain, 1, n - 1), chain[n].born, chain[n].logs)
    BY <1>1, <1>5 DEF Lawful
  <2>2. SubSeq(chain, 1, n - 1) = indexed
    BY <1>3, <1>4 DEF OnChain
  <2> QED
    BY <1>6, <2>1, <2>2
<1>8. PICK new : new = With(indexed, b, logs)
  OBVIOUS
<1>9. Append(indexed, chain[n]) = new
  <2>1. chain[n] = [born |-> b, logs |-> logs]
    <3>1. chain[n] \in BlockRecord
      BY <1>1, <1>5, BlockHasLogs
    <3> QED
      BY <1>6, <3>1 DEF BlockRecord
  <2> QED
    BY <1>8, <2>1 DEF With
<1>10. PICK e : e = ProcessAll(db, logs, n)
  OBVIOUS
<1>11. At(db, indexed)
  BY DEF IInv
<1>12. /\ At(e, new) /\ NoNewFlag(db.book, e.book)
       /\ e = db \/ e.pendingLiquidity
       /\ e.lastTrade = IF FillUpTo(logs, Len(logs)) THEN n ELSE db.lastTrade
  BY <1>1, <1>2, <1>6, <1>7, <1>8, <1>10, <1>11, BlockProcessed
<1>13. Commit(e, new)
  BY <1>2, <1>6, <1>9, <1>10 DEF AddBlock
<1>14. /\ indexed' = new /\ db' = e /\ halted' = halted
       /\ stage' = (IF stage = "bulk" THEN "bulk" ELSE "checking")
       /\ UNCHANGED <<chain, lost, reorgs>>
  BY <1>12, <1>13 DEF Commit, At
<1>15. Lawful(new) /\ new \in Seq(BlockRecord) /\ Len(new) = n
  <2>1. Lawful(new)
    BY <1>1, <1>6, <1>7, <1>8, LawfulWith
  <2>2. Len(With(indexed, b, logs)) = Len(indexed) + 1
    BY <1>1, <1>6, WithIs
  <2> QED
    BY <1>2, <1>8, <2>1, <2>2 DEF Lawful
<1>16. Chains'
  BY <1>1, <1>3, <1>5, <1>14, <1>15, Bounds DEF Chains
<1>17. /\ \A k \in 1..Len(indexed) : new[k] = indexed[k] /\ indexed[k] = chain[k]
       /\ new[n] = chain[n]
  <2>1. \A k \in 1..Len(indexed) : new[k] = indexed[k]
    BY <1>1, <1>6, <1>8, WithOld
  <2>2. \A k \in 1..Len(indexed) : indexed[k] = chain[k]
    BY <1>1, <1>4, OnChainIs
  <2>3. new[n] = chain[n]
    BY <1>1, <1>2, <1>3, <1>9
  <2> QED
    BY <2>1, <2>2, <2>3
<1>18. \A k \in 1..Len(new) : new[k] = chain[k] /\ k \in 1..Len(chain) /\ (k \in 1..Len(indexed) \/ k = n)
  <2>1. \A k \in 1..n : k \in 1..Len(chain) /\ (k \in 1..Len(indexed) \/ k = n)
    BY <1>2, <1>3, <1>5
  <2> QED
    BY <1>15, <1>17, <2>1
<1>19. Births'
  <2>1. \A k \in 1..Len(chain) : chain[k].born <= reorgs
    BY DEF IInv, Births
  <2>2. \A k \in 1..Len(new) : new[k].born <= reorgs
    BY <1>18, <2>1
  <2>3. \A k \in 1..Len(new) : ~(k > Len(chain))
    BY <1>3, <1>18
  <2>4. OnChain'
    <3>1. OnChain' <=> Len(indexed') <= Len(chain') /\ \A k \in 1..Len(indexed') : indexed'[k] = chain'[k]
      BY <1>1, <1>14, <1>15, OnChainNext
    <3>2. Len(new) <= Len(chain)
      BY <1>3, <1>5, <1>15
    <3> QED
      BY <1>14, <1>18, <3>1, <3>2
  <2> QED
    BY <1>14, <2>1, <2>2, <2>3, <2>4 DEF Births
<1>20. Stages'
  BY <1>4, <1>14 DEF IInv, Stages
<1>21. At(db, indexed)'
  BY <1>12, <1>14
<1>22. LastTradeKnown'
  <2>1. db.lastTrade \in 0..MaxHeight
    BY DEF IInv, LastTradeKnown
  <2>2. n \in 0..MaxHeight
    BY <1>1, <1>3, <1>5, Bounds
  <2>3. HasFill(new[n]) <=> FillUpTo(logs, Len(logs))
    BY <1>6, <1>17, HasFillIs
  <2>4. ASSUME ~unwound
        PROVE  /\ e.lastTrade = 0 \/ (e.lastTrade \in 1..Len(new) /\ HasFill(new[e.lastTrade]))
               /\ \A k \in 1..Len(new) : k > e.lastTrade => ~HasFill(new[k])
    <3>1. /\ db.lastTrade = 0 \/ (db.lastTrade \in 1..Len(indexed) /\ HasFill(indexed[db.lastTrade]))
          /\ \A k \in 1..Len(indexed) : k > db.lastTrade => ~HasFill(indexed[k])
      BY <2>4 DEF IInv, LastTradeKnown
    <3>2. CASE FillUpTo(logs, Len(logs))
      <4>1. e.lastTrade = n /\ n \in 1..Len(new)
        BY <1>3, <1>12, <1>15, <3>2
      <4>2. \A k \in 1..Len(new) : ~(k > n)
        BY <1>3, <1>15
      <4> QED
        BY <2>3, <3>2, <4>1, <4>2
    <3>3. CASE ~FillUpTo(logs, Len(logs))
      <4>1. e.lastTrade = db.lastTrade
        BY <1>12, <3>3
      <4>2. \A k \in 1..Len(indexed) : k \in 1..Len(new)
        BY <1>3, <1>15
      <4> QED
        BY <1>17, <1>18, <2>3, <3>1, <3>3, <4>1, <4>2
    <3> QED
      BY <3>2, <3>3
  <2>5. e.lastTrade \in 0..MaxHeight
    BY <1>12, <2>1, <2>2
  <2> QED
    BY <1>4, <1>14, <2>4, <2>5 DEF LastTradeKnown
<1>23. HaltsOnlyOnTwins'
  BY <1>4, <1>14 DEF HaltsOnlyOnTwins
<1>24. HiddenOnlyIfGone'
  BY <1>12, <1>14, HiddenKept DEF IInv
<1>25. MetricsFresh'
  <2>1. db.pendingLiquidity \/ db.metrics = OpenOrders(db)
    BY DEF IInv, MetricsFresh
  <2>2. e.pendingLiquidity \/ e.metrics = OpenOrders(e)
    BY <1>12, <2>1
  <2> QED
    BY <1>14, <2>2 DEF MetricsFresh
<1> QED
  BY <1>16, <1>19, <1>20, <1>21, <1>22, <1>23, <1>24, <1>25 DEF IInv

LEMMA RemoveBlockStep ==
  ASSUME IInv, RemoveBlock
  PROVE  IInv'
<1>1. /\ Lawful(chain) /\ Lawful(indexed) /\ reorgs \in Nat /\ Len(chain) <= MaxHeight
      /\ Len(indexed) <= MaxHeight /\ chain \in Seq(BlockRecord) /\ indexed \in Seq(BlockRecord)
  BY DEF IInv, Chains, Lawful
<1>2. PICK n : n = Len(indexed)
  OBVIOUS
<1>3. Len(chain) \in Nat /\ Len(indexed) \in Nat /\ n \in Nat
  BY <1>1, <1>2
<1>4. ~halted /\ ~OnChain /\ stage = "ready" /\ unwound' = (unwound \/ HasFill(indexed[n]))
  BY <1>2 DEF RemoveBlock
<1>5. n \in 1..Len(indexed) /\ n > 0 /\ (n - 1) + 1 = n
  <2>1. n # 0
    <3>1. SUFFICES ASSUME n = 0
                   PROVE  OnChain
      BY <1>4
    <3>2. Len(indexed) <= Len(chain) /\ \A k \in 1..Len(indexed) : indexed[k] = chain[k]
      BY <1>2, <1>3, <3>1
    <3> QED
      BY <1>1, <3>2, OnChainIs
  <2> QED
    BY <1>2, <1>3, <2>1
<1>6. PICK b \in Nat, logs \in Seq(LogRecord) : b = indexed[n].born /\ logs = indexed[n].logs
  BY <1>1, <1>5, BlockHasLogs
<1>7. PICK old \in Seq(BlockRecord) : old = SubSeq(indexed, 1, n - 1)
  BY <1>1, <1>5, LastBlock
<1>8. Len(old) = n - 1 /\ Len(old) + 1 = n /\ Lawful(old) /\ indexed = With(old, b, logs)
  <2>1. Len(old) = n - 1 /\ SubSeq(indexed, 1, n) = With(old, b, logs)
    BY <1>1, <1>5, <1>6, <1>7, LastBlock
  <2>2. SubSeq(indexed, 1, n) = indexed
    BY <1>1, <1>2
  <2>3. Lawful(old)
    <3>1. PICK m \in 0..Len(indexed) : m = n - 1
      BY <1>2, <1>3, <1>5
    <3> QED
      BY <1>1, <1>7, <3>1, LawfulPrefix
  <2> QED
    BY <1>5, <2>1, <2>2, <2>3
<1>9. LawfulLast(old, b, logs)
  BY <1>1, <1>5, <1>6, <1>7 DEF Lawful
<1>10. PICK e : e = ProcessRemovals(db, InReverse(logs), n)
  OBVIOUS
<1>11. At(db, indexed) /\ LastTradeKnown /\ MetricsFresh /\ HiddenOnlyIfGone /\ Births
  BY DEF IInv
<1>12. Unwound(db, e, old, logs, n)
  <2>1. At(db, With(old, b, logs))
    BY <1>8, <1>11
  <2>2. n = Len(old) + 1
    BY <1>8
  <2> QED
    BY <1>6, <1>9, <1>10, <2>1, <2>2, BlockRemoved
<1>13. Commit(e, old)
  <2>1. Front(indexed) = old
    BY <1>2, <1>7 DEF Front
  <2> QED
    BY <1>2, <1>6, <1>10, <2>1 DEF RemoveBlock
<1>14. UNCHANGED <<chain, lost, reorgs>>
  BY <1>13 DEF Commit
<1>15. CASE e.thrown
  <2>1. halted' = TRUE /\ UNCHANGED <<indexed, db, stage>>
    BY <1>13, <1>15 DEF Commit
  <2>2. Chains' /\ Births' /\ (OnChain' <=> OnChain)
    BY <1>14, <2>1, ChainsKept DEF IInv
  <2>3. Stages'
    BY <1>4, <2>1 DEF IInv, Stages, HasFill
  <2>4. At(db, indexed)' /\ MetricsFresh'
    BY <1>11, <2>1 DEF MetricsFresh
  <2>5. LastTradeKnown'
    BY <1>4, <1>11, <2>1 DEF LastTradeKnown
  <2>6. HaltsOnlyOnTwins'
    <3>1. Twins(indexed[n])
      BY <1>6, <1>12, <1>15, TwinsAre DEF Unwound
    <3>2. indexed # <<>>
      BY <1>2, <1>5
    <3>3. Last(indexed) = indexed[n]
      BY <1>2 DEF Last
    <3> QED
      BY <1>4, <2>1, <2>2, <3>1, <3>2, <3>3 DEF HaltsOnlyOnTwins
  <2>7. NoNewFlag(db.book, db'.book)
    BY <2>1 DEF NoNewFlag
  <2>8. HiddenOnlyIfGone'
    BY <1>11, <1>14, <2>7, HiddenKept
  <2> QED
    BY <2>2, <2>3, <2>4, <2>5, <2>6, <2>8 DEF IInv
<1>16. CASE ~e.thrown
  <2>1. indexed' = old /\ db' = e /\ halted' = halted /\ stage' = "checking"
    BY <1>4, <1>13, <1>16 DEF Commit
  <2>2. /\ At(e, old) /\ NoNewFlag(db.book, e.book)
        /\ e = db \/ e.metrics = OpenOrders(e)
        /\ e.lastTrade = IF FillAfter(logs, 0) THEN n ELSE db.lastTrade
    BY <1>12, <1>16 DEF Unwound
  <2>3. Len(old) <= MaxHeight /\ Len(old) \in Nat /\ Len(old) < Len(indexed)
    BY <1>1, <1>2, <1>3, <1>5, <1>8, Bounds
  <2>4. Chains'
    BY <1>1, <1>8, <1>14, <2>1, <2>3 DEF Chains
  <2>5. \A k \in 1..Len(old) : old[k] = indexed[k] /\ k \in 1..Len(indexed)
    <3>1. \A k \in 1..Len(old) : old[k] = indexed[k]
      BY <1>6, <1>8, WithOld
    <3> QED
      BY <1>3, <2>3, <3>1
  <2>6. Births'
    <3>1. /\ \A k \in 1..Len(chain) : chain[k].born <= reorgs
          /\ \A k \in 1..Len(indexed) : indexed[k].born <= reorgs
          /\ \A k \in 1..Len(indexed) : k > Len(chain) => indexed[k].born < reorgs
          /\ reorgs # 0
      BY <1>4, <1>11 DEF Births
    <3> QED
      BY <1>14, <2>1, <2>5, <3>1 DEF Births
  <2>7. Stages'
    BY <1>4, <2>1 DEF IInv, Stages, HasFill
  <2>8. At(db, indexed)'
    BY <2>1, <2>2
  <2>9. HasFill(indexed[n]) <=> FillAfter(logs, 0)
    BY <1>6, HasFillIs
  <2>10. LastTradeKnown'
    <3>1. e.lastTrade \in 0..MaxHeight
      <4>1. db.lastTrade \in 0..MaxHeight
        BY <1>11 DEF LastTradeKnown
      <4>2. n \in 0..MaxHeight
        BY <1>1, <1>2, <1>3, Bounds
      <4> QED
        BY <2>2, <4>1, <4>2
    <3>2. ASSUME ~unwound, ~HasFill(indexed[n])
          PROVE  /\ e.lastTrade = 0 \/ (e.lastTrade \in 1..Len(old) /\ HasFill(old[e.lastTrade]))
                 /\ \A k \in 1..Len(old) : k > e.lastTrade => ~HasFill(old[k])
      <4>1. /\ db.lastTrade = 0 \/ (db.lastTrade \in 1..Len(indexed) /\ HasFill(indexed[db.lastTrade]))
            /\ \A k \in 1..Len(indexed) : k > db.lastTrade => ~HasFill(indexed[k])
        BY <1>11, <3>2 DEF LastTradeKnown
      <4>2. e.lastTrade = db.lastTrade
        BY <2>2, <2>9, <3>2
      <4>3. \A k \in 1..Len(indexed) : k \in 1..Len(old) \/ k = n
        BY <1>2, <1>3, <1>8, <2>3
      <4>4. db.lastTrade = 0 \/ (db.lastTrade \in 1..Len(old) /\ HasFill(old[db.lastTrade]))
        BY <2>5, <3>2, <4>1, <4>3
      <4> QED
        BY <2>5, <4>1, <4>2, <4>4
    <3> QED
      BY <1>4, <2>1, <3>1, <3>2 DEF LastTradeKnown
  <2>11. HaltsOnlyOnTwins'
    BY <1>4, <2>1 DEF HaltsOnlyOnTwins
  <2>12. HiddenOnlyIfGone'
    BY <1>11, <1>14, <2>1, <2>2, HiddenKept
  <2>13. MetricsFresh'
    <3>1. db.pendingLiquidity \/ db.metrics = OpenOrders(db)
      BY <1>11 DEF MetricsFresh
    <3>2. e.pendingLiquidity \/ e.metrics = OpenOrders(e)
      BY <2>2, <3>1
    <3> QED
      BY <2>1, <3>2 DEF MetricsFresh
  <2> QED
    BY <2>4, <2>6, <2>7, <2>8, <2>10, <2>11, <2>12, <2>13 DEF IInv
<1> QED
  BY <1>15, <1>16

LEMMA FinishBulkSyncStep ==
  ASSUME IInv, FinishBulkSync
  PROVE  IInv'
<1>1. UNCHANGED <<chain, lost, reorgs, indexed, db, halted, unwound>> /\ stage' = "checking"
  BY DEF FinishBulkSync
<1>2. Chains' /\ Births' /\ (OnChain' <=> OnChain)
  BY <1>1, ChainsKept DEF IInv
<1>3. Stages'
  BY <1>1 DEF IInv, Stages
<1>4. At(db, indexed)' /\ LastTradeKnown' /\ MetricsFresh'
  BY <1>1 DEF IInv, LastTradeKnown, MetricsFresh
<1>5. HaltsOnlyOnTwins'
  BY <1>1, <1>2 DEF IInv, HaltsOnlyOnTwins
<1>6. NoNewFlag(db.book, db'.book)
  BY <1>1 DEF NoNewFlag
<1>7. HiddenOnlyIfGone'
  BY <1>1, <1>6, HiddenKept DEF IInv
<1> QED
  BY <1>2, <1>3, <1>4, <1>5, <1>7 DEF IInv

\* Flagging orders changes nothing but their flags.
Flagged(book, side, ids) ==
  [o \in DOMAIN book |-> [state |-> book[o].state, left |-> book[o].left,
                          orphaned |-> book[o].orphaned \/ (SideOf[o] = side /\ o \notin ids)]]

LEMMA FlaggedIs ==
  ASSUME NEW book \in Books, NEW side, NEW ids
  PROVE  /\ Flagged(book, side, ids) \in Books
         /\ [o \in DOMAIN book |->
               [book[o] EXCEPT !.orphaned = @ \/ (SideOf[o] = side /\ o \notin ids)]] = Flagged(book, side, ids)
<1>1. PICK new : new = Flagged(book, side, ids)
  OBVIOUS
<1>2. DOMAIN book \subseteq Order /\ \A o \in DOMAIN book : book[o] \in OrderRow
  BY BookIs
<1>3. DOMAIN new = DOMAIN book /\ new = [o \in DOMAIN new |-> new[o]]
  BY <1>1 DEF Flagged
<1>4. \A o \in DOMAIN book : new[o] \in OrderRow
  <2>1. SUFFICES ASSUME NEW o \in DOMAIN book
                 PROVE  new[o] \in OrderRow
    OBVIOUS
  <2>2. book[o].state \in {"OPEN", "CANCELED", "FILLED"} /\ book[o].left \in Int /\ book[o].orphaned \in BOOLEAN
    BY <1>2 DEF OrderRow
  <2>3. PICK f : f = (book[o].orphaned \/ (SideOf[o] = side /\ o \notin ids))
    OBVIOUS
  <2>4. f \in BOOLEAN
    BY <2>3
  <2>5. new[o] = [state |-> book[o].state, left |-> book[o].left, orphaned |-> f]
    BY <1>1, <2>3 DEF Flagged
  <2> QED
    BY <2>2, <2>4, <2>5 DEF OrderRow
<1>5. new \in Books
  BY <1>2, <1>3, <1>4, BookIs
<1>6. \A o \in DOMAIN book :
        [book[o] EXCEPT !.orphaned = @ \/ (SideOf[o] = side /\ o \notin ids)] =
        [state |-> book[o].state, left |-> book[o].left,
         orphaned |-> book[o].orphaned \/ (SideOf[o] = side /\ o \notin ids)]
  <2>1. SUFFICES ASSUME NEW o \in DOMAIN book
                 PROVE  [book[o] EXCEPT !.orphaned = @ \/ (SideOf[o] = side /\ o \notin ids)] =
                        [state |-> book[o].state, left |-> book[o].left,
                         orphaned |-> book[o].orphaned \/ (SideOf[o] = side /\ o \notin ids)]
    OBVIOUS
  <2>2. PICK row \in OrderRow : row = book[o]
    BY <1>2
  <2>3. PICK f : f = (row.orphaned \/ (SideOf[o] = side /\ o \notin ids))
    OBVIOUS
  <2>4. [row EXCEPT !.orphaned = f] = [state |-> row.state, left |-> row.left, orphaned |-> f]
    BY <2>2 DEF OrderRow
  <2> QED
    BY <2>2, <2>3, <2>4
<1> QED
  BY <1>1, <1>5, <1>6 DEF Flagged

LEMMA OpenOrdersKept ==
  ASSUME NEW d, NEW e, DOMAIN d.book = DOMAIN e.book,
         \A o \in DOMAIN d.book : e.book[o].state = d.book[o].state /\ e.book[o].left = d.book[o].left
  PROVE  OpenOrders(d) = OpenOrders(e)
<1>1. {p \in DOMAIN d.book : d.book[p].state = "OPEN"} = {p \in DOMAIN e.book : e.book[p].state = "OPEN"}
  OBVIOUS
<1> QED
  BY <1>1 DEF OpenOrders

\* The tables after the answer for one side.
AfterFlags(d, side, ids) == [FlagOrphans(d, side, ids) EXCEPT !.pendingOrphan = @ \ {side}]

LEMMA FlagEffect ==
  ASSUME NEW d \in Tables, NEW side, NEW ids,
         NEW e, e = AfterFlags(d, side, ids)
  PROVE  /\ e \in Tables /\ e.canceled = d.canceled /\ e.trades = d.trades /\ e.volume = d.volume
         /\ e.lastTrade = d.lastTrade /\ e.pendingLiquidity = d.pendingLiquidity
         /\ e.metrics = d.metrics /\ e.thrown = d.thrown
         /\ e.book = IF ids = {} THEN d.book ELSE Flagged(d.book, side, ids)
<1>1. d.book \in Books
  BY TablesAre
<1>2. PICK new : new = IF ids = {} THEN d.book ELSE Flagged(d.book, side, ids)
  OBVIOUS
<1>3. new \in Books
  BY <1>1, <1>2, FlaggedIs
<1>4. PICK g : g = FlagOrphans(d, side, ids)
  OBVIOUS
<1>5. d = [book |-> d.book, canceled |-> d.canceled, trades |-> d.trades, volume |-> d.volume,
           lastTrade |-> d.lastTrade, pendingOrphan |-> d.pendingOrphan,
           pendingLiquidity |-> d.pendingLiquidity, metrics |-> d.metrics, thrown |-> d.thrown]
  BY DEF Tables
<1>6. g = [book |-> new, canceled |-> d.canceled, trades |-> d.trades, volume |-> d.volume,
           lastTrade |-> d.lastTrade, pendingOrphan |-> d.pendingOrphan,
           pendingLiquidity |-> d.pendingLiquidity, metrics |-> d.metrics, thrown |-> d.thrown]
  <2>1. CASE ids = {}
    <3>1. g = d /\ new = d.book
      BY <1>2, <1>4, <2>1 DEF FlagOrphans
    <3> QED
      BY <1>5, <3>1
  <2>2. CASE ids # {}
    <3>1. [o \in DOMAIN d.book |->
             [d.book[o] EXCEPT !.orphaned = @ \/ (SideOf[o] = side /\ o \notin ids)]] = new
      BY <1>1, <1>2, <2>2, FlaggedIs
    <3>2. g = [d EXCEPT !.book = new]
      <4>1. FlagOrphans(d, side, ids) =
              [d EXCEPT !.book =
                 [o \in DOMAIN d.book |->
                    [d.book[o] EXCEPT !.orphaned = @ \/ (SideOf[o] = side /\ o \notin ids)]]]
        BY <2>2 DEF FlagOrphans
      <4> QED
        BY <1>4, <3>1, <4>1
    <3>3. [d EXCEPT !.book = new] =
            [book |-> new, canceled |-> d.canceled, trades |-> d.trades, volume |-> d.volume,
             lastTrade |-> d.lastTrade, pendingOrphan |-> d.pendingOrphan,
             pendingLiquidity |-> d.pendingLiquidity, metrics |-> d.metrics, thrown |-> d.thrown]
      BY DEF Tables
    <3> QED
      BY <3>2, <3>3
  <2> QED
    BY <2>1, <2>2
<1>7. PICK pending : pending = d.pendingOrphan \ {side}
  OBVIOUS
<1>8. g.pendingOrphan = d.pendingOrphan
  BY <1>6
<1>9. e = [g EXCEPT !.pendingOrphan = pending]
  BY <1>4, <1>7, <1>8 DEF AfterFlags
<1>10. e = [book |-> new, canceled |-> d.canceled, trades |-> d.trades, volume |-> d.volume,
            lastTrade |-> d.lastTrade, pendingOrphan |-> pending,
            pendingLiquidity |-> d.pendingLiquidity, metrics |-> d.metrics, thrown |-> d.thrown]
  BY <1>6, <1>9
<1>11. pending \in SUBSET Side
  BY <1>7, TablesAre
<1>12. e \in Tables
  BY <1>3, <1>10, <1>11, TablesAre DEF Tables
<1> QED
  BY <1>2, <1>10, <1>12

LEMMA CheckOrphanedOrdersStep ==
  ASSUME IInv, NEW side \in Side, CheckOrphanedOrders(side)
  PROVE  IInv'
<1>1. UNCHANGED <<chain, lost, reorgs, indexed, stage, halted, unwound>> /\ stage = "checking"
  BY DEF CheckOrphanedOrders
<1>2. PICK ids \in OrderIds(side) : db' = AfterFlags(db, side, ids)
  BY DEF CheckOrphanedOrders, AfterFlags
<1>3. ids = {} \/ ids = ExistingOrders(side)
  BY <1>2 DEF OrderIds
<1>4. db \in Tables /\ ~db.thrown /\ BookAgrees(db.book, db.canceled, indexed)
      /\ db.trades = Rows(indexed) /\ (NoTwins(indexed) => db.volume = FilledIn(indexed, Order))
  BY DEF IInv, At
<1>5. PICK e : e = db'
  OBVIOUS
<1>6. /\ e \in Tables /\ e.canceled = db.canceled /\ e.trades = db.trades /\ e.volume = db.volume
      /\ e.lastTrade = db.lastTrade /\ e.pendingLiquidity = db.pendingLiquidity
      /\ e.metrics = db.metrics /\ e.thrown = db.thrown
      /\ e.book = IF ids = {} THEN db.book ELSE Flagged(db.book, side, ids)
  <2>1. e = AfterFlags(db, side, ids)
    BY <1>2, <1>5
  <2> QED
    BY <1>4, <2>1, FlagEffect
<1>7. /\ DOMAIN e.book = DOMAIN db.book
      /\ \A o \in DOMAIN db.book :
           /\ e.book[o].state = db.book[o].state /\ e.book[o].left = db.book[o].left
           /\ e.book[o].orphaned => db.book[o].orphaned \/ (ids # {} /\ SideOf[o] = side /\ o \notin ids)
  <2>1. CASE ids = {}
    BY <1>6, <2>1
  <2>2. CASE ids # {}
    <3>1. e.book = Flagged(db.book, side, ids)
      BY <1>6, <2>2
    <3>2. DOMAIN e.book = DOMAIN db.book
      BY <3>1 DEF Flagged
    <3>3. \A o \in DOMAIN db.book :
            e.book[o] = [state |-> db.book[o].state, left |-> db.book[o].left,
                         orphaned |-> db.book[o].orphaned \/ (SideOf[o] = side /\ o \notin ids)]
      BY <3>1 DEF Flagged
    <3>4. SUFFICES ASSUME NEW o \in DOMAIN db.book
                   PROVE  /\ e.book[o].state = db.book[o].state /\ e.book[o].left = db.book[o].left
                          /\ e.book[o].orphaned =>
                               db.book[o].orphaned \/ (ids # {} /\ SideOf[o] = side /\ o \notin ids)
      BY <3>2
    <3>5. PICK f : f = (db.book[o].orphaned \/ (SideOf[o] = side /\ o \notin ids))
      OBVIOUS
    <3>6. e.book[o] = [state |-> db.book[o].state, left |-> db.book[o].left, orphaned |-> f]
      BY <3>3, <3>5
    <3>7. e.book[o].orphaned = f /\ e.book[o].state = db.book[o].state /\ e.book[o].left = db.book[o].left
      BY <3>6
    <3> QED
      BY <2>2, <3>5, <3>7
  <2> QED
    BY <2>1, <2>2
<1>8. Chains' /\ Births' /\ (OnChain' <=> OnChain)
  BY <1>1, ChainsKept DEF IInv
<1>9. Stages'
  BY <1>1 DEF IInv, Stages
<1>10. At(db, indexed)'
  <2>1. BookAgrees(e.book, e.canceled, indexed)
    BY <1>4, <1>6, <1>7 DEF BookAgrees
  <2>2. At(e, indexed)
    BY <1>4, <1>6, <2>1 DEF At
  <2> QED
    BY <1>1, <1>5, <2>2
<1>11. LastTradeKnown'
  BY <1>1, <1>5, <1>6 DEF IInv, LastTradeKnown
<1>12. HaltsOnlyOnTwins'
  BY <1>1, <1>8 DEF IInv, HaltsOnlyOnTwins
<1>13. HiddenOnlyIfGone'
  <2>1. SUFFICES ASSUME reorgs = 0, NEW o \in DOMAIN db.book, e.book[o].orphaned
                 PROVE  ~OpenIn(chain, o) \/ o \in lost
    BY <1>1, <1>5, <1>7 DEF HiddenOnlyIfGone
  <2>2. CASE db.book[o].orphaned
    BY <2>1, <2>2 DEF IInv, HiddenOnlyIfGone
  <2>3. CASE ids # {} /\ SideOf[o] = side /\ o \notin ids
    <3>1. o \in Order
      BY <1>4 DEF BookAgrees
    <3> QED
      BY <1>3, <2>3, <3>1 DEF ExistingOrders
  <2> QED
    BY <1>7, <2>1, <2>2, <2>3
<1>14. MetricsFresh'
  <2>1. db.pendingLiquidity \/ db.metrics = OpenOrders(db)
    BY DEF IInv, MetricsFresh
  <2>2. OpenOrders(db) = OpenOrders(e)
    BY <1>7, OpenOrdersKept
  <2>3. e.pendingLiquidity \/ e.metrics = OpenOrders(e)
    BY <1>6, <2>1, <2>2
  <2> QED
    BY <1>1, <1>5, <2>3 DEF MetricsFresh
<1> QED
  BY <1>8, <1>9, <1>10, <1>11, <1>12, <1>13, <1>14 DEF IInv

LEMMA CheckLiquidityStep ==
  ASSUME IInv, CheckMarketLiquidityUpdates
  PROVE  IInv'
<1>1. /\ UNCHANGED <<chain, lost, reorgs, indexed, halted, unwound>> /\ stage' = "ready"
      /\ db.pendingOrphan = {}
  BY DEF CheckMarketLiquidityUpdates
<1>2. db \in Tables /\ ~db.thrown /\ BookAgrees(db.book, db.canceled, indexed)
      /\ db.trades = Rows(indexed) /\ (NoTwins(indexed) => db.volume = FilledIn(indexed, Order))
  BY DEF IInv, At
<1>3. PICK e : e = db'
  OBVIOUS
<1>4. /\ e \in Tables /\ e.book = db.book /\ e.canceled = db.canceled /\ e.trades = db.trades
      /\ e.volume = db.volume /\ e.lastTrade = db.lastTrade /\ e.thrown = db.thrown
      /\ ~e.pendingLiquidity /\ e.pendingOrphan = {} /\ e.metrics = OpenOrders(e)
  <2>1. CASE db.pendingLiquidity
    <3>1. PICK g \in Tables : g = UpdateLiquidityMetrics(db)
      BY <1>2, MetricsEffect
    <3>2. /\ g.book = db.book /\ g.canceled = db.canceled /\ g.trades = db.trades /\ g.volume = db.volume
          /\ g.lastTrade = db.lastTrade /\ g.thrown = db.thrown /\ g.pendingOrphan = db.pendingOrphan
          /\ g.metrics = OpenOrders(g)
      BY <1>2, <3>1, MetricsEffect
    <3>3. e = [g EXCEPT !.pendingLiquidity = FALSE]
      BY <1>3, <2>1, <3>1 DEF CheckMarketLiquidityUpdates
    <3>4. e = [book |-> g.book, canceled |-> g.canceled, trades |-> g.trades, volume |-> g.volume,
               lastTrade |-> g.lastTrade, pendingOrphan |-> g.pendingOrphan,
               pendingLiquidity |-> FALSE, metrics |-> g.metrics, thrown |-> g.thrown]
      BY <3>1, <3>3 DEF Tables
    <3>5. e \in Tables
      BY <3>1, <3>4, TablesAre DEF Tables
    <3>6. OpenOrders(e) = OpenOrders(g)
      BY <3>4, OpenOrdersSame
    <3> QED
      BY <1>1, <3>2, <3>4, <3>5, <3>6
  <2>2. CASE ~db.pendingLiquidity
    <3>1. e = db
      BY <1>3, <2>2 DEF CheckMarketLiquidityUpdates
    <3>2. db.metrics = OpenOrders(db)
      BY <2>2 DEF IInv, MetricsFresh
    <3> QED
      BY <1>1, <1>2, <2>2, <3>1, <3>2
  <2> QED
    BY <2>1, <2>2
<1>5. Chains' /\ Births' /\ (OnChain' <=> OnChain)
  BY <1>1, ChainsKept DEF IInv
<1>6. Stages'
  BY <1>1 DEF IInv, Stages
<1>7. At(db, indexed)'
  <2>1. At(e, indexed)
    BY <1>2, <1>4 DEF At
  <2> QED
    BY <1>1, <1>3, <2>1
<1>8. LastTradeKnown'
  BY <1>1, <1>3, <1>4 DEF IInv, LastTradeKnown
<1>9. HaltsOnlyOnTwins'
  BY <1>1, <1>5 DEF IInv, HaltsOnlyOnTwins
<1>10. HiddenOnlyIfGone'
  BY <1>1, <1>3, <1>4 DEF IInv, HiddenOnlyIfGone
<1>11. MetricsFresh'
  BY <1>3, <1>4 DEF MetricsFresh
<1> QED
  BY <1>5, <1>6, <1>7, <1>8, <1>9, <1>10, <1>11 DEF IInv

(***************************************************************************)
(* The theorems.                                                           *)
(***************************************************************************)
LEMMA StutterStep ==
  ASSUME IInv, UNCHANGED vars
  PROVE  IInv'
<1>1. UNCHANGED <<chain, lost, reorgs, indexed, db, stage, halted, unwound>>
  BY DEF vars
<1>2. Chains' /\ Births' /\ (OnChain' <=> OnChain)
  BY <1>1, ChainsKept DEF IInv
<1>3. Stages'
  BY <1>1 DEF IInv, Stages
<1>4. At(db, indexed)' /\ LastTradeKnown' /\ MetricsFresh'
  BY <1>1, TablesKept DEF IInv
<1>5. HaltsOnlyOnTwins'
  BY <1>1, <1>2 DEF IInv, HaltsOnlyOnTwins
<1>6. HiddenOnlyIfGone'
  BY <1>1 DEF IInv, HiddenOnlyIfGone
<1> QED
  BY <1>2, <1>3, <1>4, <1>5, <1>6 DEF IInv

\* Every step keeps the invariant.
LEMMA NextIInv == IInv /\ [Next]_vars => IInv'
<1> SUFFICES ASSUME IInv, [Next]_vars
             PROVE  IInv'
  OBVIOUS
<1>1. CASE MineBlock
  BY <1>1, MineStep
<1>2. CASE \E n \in 1..MaxReorg : Reorganise(n)
  BY <1>2, ReorganiseStep
<1>3. CASE \E o \in Order : LoseOrder(o)
  BY <1>3, LoseStep
<1>4. CASE AddBlock
  BY <1>4, AddBlockStep
<1>5. CASE RemoveBlock
  BY <1>5, RemoveBlockStep
<1>6. CASE FinishBulkSync
  BY <1>6, FinishBulkSyncStep
<1>7. CASE \E side \in Side : CheckOrphanedOrders(side)
  BY <1>7, CheckOrphanedOrdersStep
<1>8. CASE CheckMarketLiquidityUpdates
  BY <1>8, CheckLiquidityStep
<1>9. CASE UNCHANGED vars
  BY <1>9, StutterStep
<1> QED
  BY <1>1, <1>2, <1>3, <1>4, <1>5, <1>6, <1>7, <1>8, <1>9 DEF Next, ChainStep, NodeStep

\* The chains, the tables and the checks stay as the inductive invariant says,
\* for any orders and amounts, any reorganisations and a chain of any length.
THEOREM OrderInvariant == Spec => []IInv
<1>1. Init => IInv
  BY InitIInv
<1>2. IInv /\ [Next]_vars => IInv'
  BY NextIInv
<1> QED
  BY <1>1, <1>2, PTL DEF Spec

LEMMA BookFollows == IInv => BookFollowsChain
<1> SUFFICES ASSUME IInv
             PROVE  BookFollowsChain
  OBVIOUS
<1>1. db \in Tables /\ ~db.thrown /\ BookAgrees(db.book, db.canceled, indexed)
  BY DEF IInv, At
<1>2. indexed \in Seq(BlockRecord) /\ Sane(indexed)
  BY LawfulIsSane DEF IInv, Chains
<1>3. /\ DOMAIN db.book = {o \in Order : CreatedIn(indexed, o)}
      /\ \A o \in DOMAIN db.book :
           db.book[o].left = LeftIn(indexed, o) /\ db.book[o].state = StateIn(indexed, o)
      /\ db.canceled = {o \in Order : CanceledIn(indexed, o)}
  BY <1>1 DEF BookAgrees
<1>4. TypeOK
  <2>1. \A o \in DOMAIN db.book :
          db.book[o] \in [state : {"OPEN", "CANCELED", "FILLED"}, left : 0..Amount[o], orphaned : BOOLEAN]
    <3>1. SUFFICES ASSUME NEW o \in DOMAIN db.book
                   PROVE  db.book[o] \in [state : {"OPEN", "CANCELED", "FILLED"}, left : 0..Amount[o],
                                          orphaned : BOOLEAN]
      OBVIOUS
    <3>2. o \in Order /\ db.book[o] \in OrderRow
      BY <1>1, <1>3, TablesAre, BookIs
    <3>3. db.book[o].left \in 0..Amount[o]
      BY <1>2, <1>3, <3>2 DEF Sane
    <3>4. PICK row \in OrderRow : row = db.book[o]
      BY <3>2
    <3>5. PICK most : most = Amount[o]
      OBVIOUS
    <3>6. row \in [state : {"OPEN", "CANCELED", "FILLED"}, left : 0..most, orphaned : BOOLEAN]
      BY <3>3, <3>4, <3>5 DEF OrderRow
    <3> QED
      BY <3>4, <3>5, <3>6
  <2>2. /\ DOMAIN db.book \subseteq Order /\ db.canceled \subseteq Order
        /\ db.pendingOrphan \subseteq Side /\ db.pendingLiquidity \in BOOLEAN /\ db.volume \in Int
    BY <1>1, <1>3, TablesAre
  <2>3. db.lastTrade \in 0..MaxHeight
    BY DEF IInv, LastTradeKnown
  <2>4. stage \in {"bulk", "ready", "checking"} /\ halted \in BOOLEAN
    BY DEF IInv, Stages
  <2> QED
    BY <1>1, <2>1, <2>2, <2>3, <2>4 DEF TypeOK
<1> QED
  BY <1>3, <1>4 DEF BookFollowsChain, StateIn

LEMMA VolumeCounts == IInv => VolumeCountsFills
<1> SUFFICES ASSUME IInv
             PROVE  VolumeCountsFills
  OBVIOUS
<1>1. db.trades = Rows(indexed) /\ (NoTwins(indexed) => db.volume = FilledIn(indexed, Order))
  BY DEF IInv, At
<1>2. (\A n \in 1..Len(indexed) : ~Twins(indexed[n])) => VolumeIsTraded
  BY <1>1, TwinsAre DEF NoTwins, VolumeIsTraded
<1>3. ~unwound =>
        /\ db.lastTrade = 0 \/ db.lastTrade \in 1..Len(indexed)
        /\ \A n \in 1..Len(indexed) : n > db.lastTrade => ~HasFill(indexed[n])
  BY DEF IInv, LastTradeKnown
<1> QED
  BY <1>1, <1>2, <1>3 DEF VolumeCountsFills

\* BookFollowsChain: the orders are those that the logs of the indexed blocks
\* give, also after blocks were taken back, for any orders, amounts and chain.
THEOREM BookFollowsTheChain == Spec => []BookFollowsChain
BY OrderInvariant, BookFollows, PTL

\* VolumeCountsFills: one trade for each fill; the volume is their sum and the
\* last trade is known within the limits that the property names.
THEOREM VolumeCountsTheFills == Spec => []VolumeCountsFills
BY OrderInvariant, VolumeCounts, PTL

\* HaltsOnlyOnTwins: the log processors throw only for a block in which an order
\* is filled twice and that the node takes back.
THEOREM OnlyTwinsHalt == Spec => []HaltsOnlyOnTwins
<1>1. IInv => HaltsOnlyOnTwins
  BY DEF IInv
<1> QED
  BY <1>1, OrderInvariant, PTL

\* HiddenOnlyIfGone: without a reorganisation the orphan check hides no order
\* that the order book of the contracts has.
THEOREM NoOpenOrderHidden == Spec => []HiddenOnlyIfGone
<1>1. IInv => HiddenOnlyIfGone
  BY DEF IInv
<1> QED
  BY <1>1, OrderInvariant, PTL

\* MetricsFresh: the liquidity metrics are those of the open orders, or an update
\* of them is pending; none is when the node is ready for the next block.
THEOREM MetricsAreFresh == Spec => []MetricsFresh
<1>1. IInv => MetricsFresh
  BY DEF IInv
<1> QED
  BY <1>1, OrderInvariant, PTL
=============================================================================
