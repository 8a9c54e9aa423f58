---------------------------- MODULE RoundsProofs ----------------------------
(***************************************************************************)
(* Proofs that the dispute rounds and the crowdsourcers of MarketReporting *)
(* are the chain's: what every log and every removal does to the window,   *)
(* the completion and the disavowal of a crowdsourcer, and to the count of *)
(* rounds, and why it is what the contracts' rounds say.                   *)
(***************************************************************************)
EXTENDS ReportingProofs
-----------------------------------------------------------------------------
(* Rounds, and the prefix of the chain each log was added to. *)

\* The last log of s that started a round of market m, and its dispute window:
\* RoundStart and RoundWindow of a chain s.
LatestStart(s, r, m) ==
  /\ r \in 1..Len(s) /\ StartsRound(s[r].log, m)
  /\ \A k \in r + 1..Len(s) : ~StartsRound(s[k].log, m)
Latest(s, m)  == CHOOSE r \in 1..Len(s) : LatestStart(s, r, m)
RoundIn(s, m) == WindowAt(HomeIn(s, m), s[Latest(s, m)].time + Duration)
Present(s, w) == w \in Prepared \/ In(s, WindowLog(w))

\* A crowdsourcer of the round its market is in.
IsOpen(s, c) ==
  \E j \in 1..Len(s) : /\ s[j].log = CrowdLog("DisputeCrowdsourcerCreated", c)
                       /\ \A k \in j + 1..Len(s) : ~StartsRound(s[k].log, MarketOf[c])

\* What the contracts guarantee of a log added at a time to the chain s.
LegalInRound(s, time, log) ==
  /\ \A k \in 1..Len(s) : s[k].time <= time
  /\ \A c \in Crowdsourcer, kind \in CrowdKinds : log = CrowdLog(kind, c) =>
       LET w == RoundIn(s, MarketOf[c]) IN StartOf(w) < time /\ time < EndOf(w)
  /\ \A c \in Crowdsourcer, kind \in CrowdKinds \ {"DisputeCrowdsourcerCreated"} :
       log = CrowdLog(kind, c) => IsOpen(s, c)
  /\ \A x \in Market \cup Crowdsourcer : log = ParticipantLog(x) => ForkedIn(s)
RoundsPresent(s) == \A m \in Market : ReportedIn(s, m) => Present(s, RoundIn(s, m))
Rounds(s) ==
  \A n \in 0..Len(s) :
    /\ RoundsPresent(SubSeq(s, 1, n))
    /\ n < Len(s) => LegalInRound(SubSeq(s, 1, n), s[n + 1].time, s[n + 1].log)

(* What the rows say of the rounds. *)

\* A crowdsourcer is filed under the window of the round it was created in.
FiledBy(s, c, w) ==
  \E n \in 0..Len(s) - 1 : /\ s[n + 1].log = CrowdLog("DisputeCrowdsourcerCreated", c)
                           /\ w = RoundIn(SubSeq(s, 1, n), MarketOf[c])
Filed(d, s) == \A c \in DOMAIN d.crowdsourcers : FiledBy(s, c, d.crowdsourcers[c].feeWindow)

\* No fork but that of market m itself.
NoOtherFork(s, m) == \A f \in Market : Was(s, "UniverseForked", f) => f = m

Winners(d, m) == {c \in CrowdsourcersOf(d, m) : d.crowdsourcers[c].completed = 1}
Won(d, s) ==
  \A c \in DOMAIN d.crowdsourcers : NoOtherFork(s, MarketOf[c]) =>
    (d.crowdsourcers[c].completed = 1 <=> Did(s, "DisputeCrowdsourcerCompleted", c))
Counted(d, s) ==
  \A m \in DOMAIN d.markets : ReportedIn(s, m) /\ NoOtherFork(s, m) =>
    d.markets[m].disputeRounds = Cardinality(Winners(d, m))

\* The row of a crowdsourcer at a time.
SettledAt(row, done, open, time) ==
  /\ row.completed = IF done THEN 1 ELSE IF open /\ time <= EndOf(row.feeWindow) THEN None ELSE 0
  /\ row.disavowed = IF done \/ open THEN 0 ELSE 1
SettledRight(d, s, time) ==
  \A c \in DOMAIN d.crowdsourcers :
    SettledAt(d.crowdsourcers[c], Did(s, "DisputeCrowdsourcerCompleted", c), IsOpen(s, c), time)

\* All of it, as far as the kinds of log taken back, u, leave it right.
Told(d, s, u, time) ==
  /\ "time" \notin u => Filed(d, s)
  /\ u \cap {"time", "UniverseForked"} = {} => Won(d, s) /\ Counted(d, s)
  /\ u \cap {"time", "UniverseForked", "DisputeCrowdsourcerCompleted"} = {} /\ ~ForkedIn(s) =>
       SettledRight(d, s, time)

-----------------------------------------------------------------------------
(* Rounds of a chain and of its prefixes. *)

LEMMA Prefix ==
  ASSUME NEW s \in Seq(Block), NEW n \in 0..Len(s)
  PROVE  LET p == SubSeq(s, 1, n)
         IN  p \in Seq(Block) /\ Len(p) = n /\ \A i \in 1..n : p[i] = s[i]
<1>1. \A i \in 1..n : s[i] \in Block
  OBVIOUS
<1> QED
  BY <1>1

LEMMA LatestIs ==
  ASSUME NEW s \in Seq(Block), NEW r, NEW m, LatestStart(s, r, m)
  PROVE  Latest(s, m) = r
<1>1. \A q \in 1..Len(s) : LatestStart(s, q, m) => q = r
  <2>1. SUFFICES ASSUME NEW q \in 1..Len(s), LatestStart(s, q, m), q # r PROVE FALSE
    OBVIOUS
  <2>2. r \in 1..Len(s) /\ Len(s) \in Nat
    BY DEF LatestStart
  <2>3. q \in r + 1..Len(s) \/ r \in q + 1..Len(s)
    BY <2>1, <2>2
  <2> QED
    BY <2>1, <2>3 DEF LatestStart
<1> QED
  BY <1>1 DEF Latest, LatestStart

LEMMA LatestOfReported ==
  ASSUME NEW s \in Seq(Block), NEW m \in Market, Sane(s), ReportedIn(s, m)
  PROVE  LatestStart(s, Latest(s, m), m)
<1>1. PICK n \in Nat : n = Len(s)
  OBVIOUS
<1>2. PICK r \in 1..n : StartsRound(s[r].log, m) /\ \A j \in 1..n : StartsRound(s[j].log, m) => j <= r
  BY <1>1 DEF Sane, LastStart
<1>3. \A k \in r + 1..n : k \in 1..n /\ ~(k <= r)
  OBVIOUS
<1>4. LatestStart(s, r, m)
  BY <1>1, <1>2, <1>3 DEF LatestStart
<1> QED
  BY <1>4, LatestIs

\* As long as no round starts, the round stays.
LEMMA RoundStays ==
  ASSUME NEW s \in Seq(Block), NEW n \in 0..Len(s), NEW r, NEW m,
         LatestStart(SubSeq(s, 1, n), r, m), \A k \in n + 1..Len(s) : ~StartsRound(s[k].log, m)
  PROVE  LatestStart(s, r, m) /\ RoundIn(s, m) = RoundIn(SubSeq(s, 1, n), m)
<1>1. PICK l \in Nat : l = Len(s)
  OBVIOUS
<1>2. PICK p \in Seq(Block) : p = SubSeq(s, 1, n) /\ Len(p) = n /\ \A i \in 1..n : p[i] = s[i]
  BY Prefix
<1>3. r \in 1..n /\ StartsRound(s[r].log, m) /\ \A k \in r + 1..n : ~StartsRound(s[k].log, m)
  <2>1. r \in 1..n /\ StartsRound(p[r].log, m) /\ \A k \in r + 1..n : ~StartsRound(p[k].log, m)
    BY <1>2 DEF LatestStart
  <2>2. \A k \in r + 1..n : k \in 1..n
    BY <2>1
  <2> QED
    BY <1>2, <2>1, <2>2
<1>4. LatestStart(s, r, m)
  <2>1. \A k \in r + 1..l : k \in r + 1..n \/ k \in n + 1..l
    BY <1>1, <1>3
  <2>2. r \in 1..l
    BY <1>1, <1>3
  <2> QED
    BY <1>1, <1>3, <2>1, <2>2 DEF LatestStart
<1>5. Latest(s, m) = r /\ Latest(p, m) = r
  BY <1>2, <1>4, LatestIs
<1>6. HomeIn(s, m) = HomeIn(p, m)
  <2>1. ASSUME NEW i \in 1..l, s[i].log = MarketLog("MarketMigrated", m)
        PROVE  i \in 1..n
    <3>1. StartsRound(s[i].log, m)
      BY <2>1 DEF StartsRound, MarketLog
    <3>2. i \notin n + 1..l
      BY <1>1, <3>1
    <3> QED
      BY <1>1, <3>2
  <2>2. \A i \in 1..n : i \in 1..l
    BY <1>1
  <2>3. Was(s, "MarketMigrated", m) <=> Was(p, "MarketMigrated", m)
    BY <1>1, <1>2, <2>1, <2>2 DEF Was, In
  <2> QED
    BY <2>3 DEF HomeIn
<1>7. p[r] = s[r]
  BY <1>2, <1>3
<1>8. RoundIn(s, m) = RoundIn(p, m)
  BY <1>5, <1>6, <1>7 DEF RoundIn
<1> QED
  BY <1>2, <1>4, <1>8

LEMMA RoundKeepsOn ==
  ASSUME NEW s \in Seq(Block), NEW b \in Block, NEW r, NEW m, LatestStart(s, r, m),
         ~StartsRound(b.log, m)
  PROVE  LatestStart(Append(s, b), r, m) /\ RoundIn(Append(s, b), m) = RoundIn(s, m)
<1>1. PICK t \in Seq(Block) : t = Append(s, b)
  BY Appended
<1>2. PICK n \in Nat : n = Len(s)
  OBVIOUS
<1>3. Len(t) = n + 1 /\ t[n + 1] = b
  BY <1>1, <1>2, Appended
<1>4. SubSeq(t, 1, n) = s
  BY <1>1, <1>2, PrefixOfAppended, WholePrefix
<1>5. n \in 0..Len(t) /\ \A k \in n + 1..Len(t) : k = n + 1
  BY <1>3
<1>6. \A k \in n + 1..Len(t) : ~StartsRound(t[k].log, m)
  BY <1>3, <1>5
<1>7. LatestStart(SubSeq(t, 1, n), r, m)
  BY <1>4
<1>8. LatestStart(t, r, m) /\ RoundIn(t, m) = RoundIn(SubSeq(t, 1, n), m)
  BY <1>5, <1>6, <1>7, RoundStays
<1> QED
  BY <1>1, <1>4, <1>8

LEMMA RoundBegins ==
  ASSUME NEW s \in Seq(Block), NEW b \in Block, NEW m, StartsRound(b.log, m)
  PROVE  LET t == Append(s, b)
         IN  /\ LatestStart(t, Len(s) + 1, m)
             /\ RoundIn(t, m) = WindowAt(HomeIn(t, m), b.time + Duration)
<1>1. PICK t \in Seq(Block) : t = Append(s, b) /\ Len(t) = Len(s) + 1 /\ t[Len(s) + 1] = b
  BY Appended
<1>2. PICK n \in Nat : n = Len(s)
  OBVIOUS
<1>3. n + 1 \in 1..n + 1 /\ \A k \in n + 1 + 1..n + 1 : FALSE
  OBVIOUS
<1>4. LatestStart(t, n + 1, m)
  BY <1>1, <1>2, <1>3 DEF LatestStart
<1>5. Latest(t, m) = n + 1
  BY <1>1, <1>4, LatestIs
<1> QED
  BY <1>1, <1>2, <1>4, <1>5 DEF RoundIn

LEMMA OpenAppended ==
  ASSUME NEW s \in Seq(Block), NEW b \in Block, NEW c
  PROVE  IsOpen(Append(s, b), c) <=>
           \/ b.log = CrowdLog("DisputeCrowdsourcerCreated", c)
           \/ IsOpen(s, c) /\ ~StartsRound(b.log, MarketOf[c])
<1>1. PICK t \in Seq(Block) : /\ t = Append(s, b) /\ Len(t) = Len(s) + 1 /\ t[Len(s) + 1] = b
                              /\ \A i \in 1..Len(s) : t[i] = s[i]
  BY Appended
<1>2. PICK n \in Nat : n = Len(s)
  OBVIOUS
<1>3. ASSUME IsOpen(t, c), b.log # CrowdLog("DisputeCrowdsourcerCreated", c)
      PROVE  IsOpen(s, c) /\ ~StartsRound(b.log, MarketOf[c])
  <2>1. PICK j \in 1..n + 1 : /\ t[j].log = CrowdLog("DisputeCrowdsourcerCreated", c)
                              /\ \A k \in j + 1..n + 1 : ~StartsRound(t[k].log, MarketOf[c])
    BY <1>1, <1>2, <1>3 DEF IsOpen
  <2>2. j \in 1..n
    BY <1>1, <1>2, <1>3, <2>1
  <2>3. n + 1 \in j + 1..n + 1 /\ \A k \in j + 1..n : k \in 1..n /\ k \in j + 1..n + 1
    BY <2>2
  <2> QED
    BY <1>1, <1>2, <2>1, <2>2, <2>3 DEF IsOpen
<1>4. ASSUME b.log = CrowdLog("DisputeCrowdsourcerCreated", c)
      PROVE  IsOpen(t, c)
  <2>1. n + 1 \in 1..n + 1 /\ \A k \in n + 1 + 1..n + 1 : FALSE
    OBVIOUS
  <2> QED
    BY <1>1, <1>2, <1>4, <2>1 DEF IsOpen
<1>5. ASSUME IsOpen(s, c), ~StartsRound(b.log, MarketOf[c])
      PROVE  IsOpen(t, c)
  <2>1. PICK j \in 1..n : /\ s[j].log = CrowdLog("DisputeCrowdsourcerCreated", c)
                          /\ \A k \in j + 1..n : ~StartsRound(s[k].log, MarketOf[c])
    BY <1>2, <1>5 DEF IsOpen
  <2>2. \A k \in j + 1..n + 1 : k = n + 1 \/ (k \in j + 1..n /\ k \in 1..n)
    OBVIOUS
  <2>3. j \in 1..n + 1
    OBVIOUS
  <2>4. \A k \in j + 1..n + 1 : ~StartsRound(t[k].log, MarketOf[c])
    BY <1>1, <1>2, <1>5, <2>1, <2>2
  <2> QED
    BY <1>1, <1>2, <2>1, <2>3, <2>4 DEF IsOpen
<1> QED
  BY <1>1, <1>3, <1>4, <1>5

LEMMA PresentGrows ==
  ASSUME NEW s \in Seq(Block), NEW b \in Block, NEW w, Present(s, w)
  PROVE  Present(Append(s, b), w)
BY InAppended DEF Present

LEMMA RoundsRetract ==
  ASSUME NEW s \in Seq(Block), NEW b \in Block, Rounds(Append(s, b))
  PROVE  Rounds(s) /\ LegalInRound(s, b.time, b.log) /\ RoundsPresent(Append(s, b))
<1>1. PICK t \in Seq(Block) : /\ t = Append(s, b) /\ Len(t) = Len(s) + 1 /\ t[Len(s) + 1] = b
                              /\ \A i \in 1..Len(s) : t[i] = s[i]
  BY Appended
<1>2. PICK n \in Nat : n = Len(s)
  OBVIOUS
<1>3. \A k \in 0..n : SubSeq(t, 1, k) = SubSeq(s, 1, k)
  BY <1>1, <1>2, PrefixOfAppended
<1>4. SubSeq(s, 1, n) = s /\ SubSeq(t, 1, n + 1) = t
  BY <1>1, <1>2, WholePrefix
<1>5. \A k \in 0..n : k \in 0..n + 1 /\ (k < n => k + 1 \in 1..n /\ k < n + 1)
  OBVIOUS
<1>6. n \in 0..n + 1 /\ n < n + 1 /\ n + 1 \in 0..n + 1 /\ n \in 0..n
  OBVIOUS
<1>7. Rounds(s)
  BY <1>1, <1>2, <1>3, <1>5 DEF Rounds
<1>8. LegalInRound(s, b.time, b.log)
  BY <1>1, <1>2, <1>3, <1>4, <1>6 DEF Rounds
<1>9. RoundsPresent(t)
  BY <1>1, <1>2, <1>4, <1>6 DEF Rounds
<1> QED
  BY <1>1, <1>7, <1>8, <1>9

LEMMA RoundsExtend ==
  ASSUME NEW s \in Seq(Block), NEW b \in Block, Rounds(s), LegalInRound(s, b.time, b.log),
         RoundsPresent(Append(s, b))
  PROVE  Rounds(Append(s, b))
<1>1. PICK t \in Seq(Block) : /\ t = Append(s, b) /\ Len(t) = Len(s) + 1 /\ t[Len(s) + 1] = b
                              /\ \A i \in 1..Len(s) : t[i] = s[i]
  BY Appended
<1>2. PICK n \in Nat : n = Len(s)
  OBVIOUS
<1>3. \A k \in 0..n : SubSeq(t, 1, k) = SubSeq(s, 1, k)
  BY <1>1, <1>2, PrefixOfAppended
<1>4. SubSeq(s, 1, n) = s /\ SubSeq(t, 1, n + 1) = t
  BY <1>1, <1>2, WholePrefix
<1>5. SUFFICES ASSUME NEW k \in 0..n + 1
               PROVE  /\ RoundsPresent(SubSeq(t, 1, k))
                      /\ k < n + 1 => LegalInRound(SubSeq(t, 1, k), t[k + 1].time, t[k + 1].log)
  BY <1>1, <1>2 DEF Rounds
<1>6. CASE k = n + 1
  <2>1. ~(k < n + 1) /\ SubSeq(t, 1, k) = t
    BY <1>4, <1>6
  <2>2. RoundsPresent(t)
    BY <1>1
  <2> QED
    BY <2>1, <2>2
<1>7. CASE k = n
  <2>1. n \in 0..n /\ RoundsPresent(SubSeq(s, 1, n))
    BY <1>2 DEF Rounds
  <2>2. SubSeq(t, 1, n) = SubSeq(s, 1, n)
    BY <1>3, <2>1
  <2>3. LegalInRound(SubSeq(t, 1, n), t[n + 1].time, t[n + 1].log)
    BY <1>1, <1>2, <1>4, <2>2
  <2> QED
    BY <1>7, <2>1, <2>2, <2>3
<1>8. CASE k \in 0..n - 1
  <2>1. k \in 0..n /\ k < n /\ k + 1 \in 1..n
    BY <1>8
  <2>2. RoundsPresent(SubSeq(s, 1, k)) /\ LegalInRound(SubSeq(s, 1, k), s[k + 1].time, s[k + 1].log)
    BY <1>2, <2>1 DEF Rounds
  <2> QED
    BY <1>1, <1>2, <1>3, <2>1, <2>2
<1> QED
  BY <1>6, <1>7, <1>8

\* A round has its window if the log that starts it finds the window there.
LEMMA PresentExtends ==
  ASSUME NEW s \in Seq(Block), NEW b \in Block, Sane(s), RoundsPresent(s),
         \A m \in Market : StartsRound(b.log, m) =>
           Present(s, WindowAt(HomeIn(Append(s, b), m), b.time + Duration))
  PROVE  RoundsPresent(Append(s, b))
<1>1. SUFFICES ASSUME NEW m \in Market, ReportedIn(Append(s, b), m)
               PROVE  Present(Append(s, b), RoundIn(Append(s, b), m))
  BY DEF RoundsPresent
<1>2. CASE StartsRound(b.log, m)
  <2>1. Present(s, WindowAt(HomeIn(Append(s, b), m), b.time + Duration))
    BY <1>2
  <2>2. RoundIn(Append(s, b), m) = WindowAt(HomeIn(Append(s, b), m), b.time + Duration)
    BY <1>2, RoundBegins
  <2> QED
    BY <2>1, <2>2, PresentGrows
<1>3. CASE ~StartsRound(b.log, m)
  <2>1. ReportedIn(s, m)
    BY <1>1, <1>3, ReportedAppended DEF StartsRound
  <2>2. LatestStart(s, Latest(s, m), m)
    BY <2>1, LatestOfReported
  <2>3. RoundIn(Append(s, b), m) = RoundIn(s, m)
    BY <1>3, <2>2, RoundKeepsOn
  <2>4. Present(s, RoundIn(s, m))
    BY <2>1 DEF RoundsPresent
  <2> QED
    BY <2>3, <2>4, PresentGrows
<1> QED
  BY <1>2, <1>3

-----------------------------------------------------------------------------
(* What the rows say, of a chain and of the chain with one more log. *)

LEMMA FiledAppended ==
  ASSUME NEW s \in Seq(Block), NEW b \in Block, NEW c, NEW w
  PROVE  FiledBy(Append(s, b), c, w) <=>
           \/ FiledBy(s, c, w)
           \/ b.log = CrowdLog("DisputeCrowdsourcerCreated", c) /\ w = RoundIn(s, MarketOf[c])
<1>1. PICK t \in Seq(Block) : t = Append(s, b)
  BY Appended
<1>2. PICK n \in Nat : n = Len(s)
  OBVIOUS
<1>3. Len(t) = n + 1 /\ t[n + 1] = b /\ \A i \in 1..n : t[i] = s[i]
  BY <1>1, <1>2, Appended
<1>4. SubSeq(t, 1, n) = s /\ \A k \in 0..n : SubSeq(t, 1, k) = SubSeq(s, 1, k)
  BY <1>1, <1>2, PrefixOfAppended, WholePrefix
<1>5. \A k \in 0..n : k = n \/ k \in 0..n - 1
  OBVIOUS
<1>6. \A k \in 0..n - 1 : k \in 0..n /\ k + 1 \in 1..n
  OBVIOUS
<1>7. Len(t) - 1 = n /\ n \in 0..n
  BY <1>3
<1>8. FiledBy(t, c, w) <=>
        \E k \in 0..n : /\ t[k + 1].log = CrowdLog("DisputeCrowdsourcerCreated", c)
                        /\ w = RoundIn(SubSeq(t, 1, k), MarketOf[c])
  BY <1>7 DEF FiledBy
<1>9. FiledBy(s, c, w) <=>
        \E k \in 0..n - 1 : /\ s[k + 1].log = CrowdLog("DisputeCrowdsourcerCreated", c)
                            /\ w = RoundIn(SubSeq(s, 1, k), MarketOf[c])
  BY <1>2 DEF FiledBy
<1>10. FiledBy(t, c, w) <=>
         \/ FiledBy(s, c, w)
         \/ b.log = CrowdLog("DisputeCrowdsourcerCreated", c) /\ w = RoundIn(s, MarketOf[c])
  BY <1>3, <1>4, <1>5, <1>6, <1>7, <1>8, <1>9
<1> QED
  BY <1>1, <1>10

\* The rows of the crowdsourcers but for their stakes, and the counts of rounds.
KeepsCasting(d, e) ==
  /\ DOMAIN e.crowdsourcers = DOMAIN d.crowdsourcers
  /\ \A c \in DOMAIN d.crowdsourcers :
       /\ e.crowdsourcers[c].feeWindow = d.crowdsourcers[c].feeWindow
       /\ e.crowdsourcers[c].completed = d.crowdsourcers[c].completed
KeepsDisavowed(d, e) ==
  \A c \in DOMAIN d.crowdsourcers : e.crowdsourcers[c].disavowed = d.crowdsourcers[c].disavowed
KeepsCounts(d, e) ==
  \A m \in DOMAIN d.markets \cap DOMAIN e.markets :
    e.markets[m].disputeRounds = d.markets[m].disputeRounds

LEMMA CastRows ==
  ASSUME MarketAssumption, NEW d \in Tables, NEW c \in DOMAIN d.crowdsourcers
  PROVE  c \in Crowdsourcer /\ MarketOf[c] \in Market /\ d.crowdsourcers[c] \in CrowdsourcerRow
BY TablesElim, RowsElim DEF MarketAssumption

LEMMA SameWinners ==
  ASSUME NEW d, NEW e, KeepsCasting(d, e), NEW m
  PROVE  Winners(e, m) = Winners(d, m)
BY DEF KeepsCasting, Winners, CrowdsourcersOf

\* The logs that neither start a round of a reported market, nor fork, nor
\* create a crowdsourcer.
Quiet(log) == log.kind \notin {"InitialReportSubmitted", "DisputeCrowdsourcerCreated",
                               "DisputeCrowdsourcerCompleted", "UniverseForked"}

LEMMA QuietLog ==
  ASSUME NEW s \in Seq(Block), NEW b \in Block, Quiet(b.log)
  PROVE  LET t == Append(s, b)
         IN  /\ \A m : Was(t, "UniverseForked", m) <=> Was(s, "UniverseForked", m)
             /\ \A m : ReportedIn(t, m) <=> ReportedIn(s, m)
             /\ \A m : NoOtherFork(t, m) <=> NoOtherFork(s, m)
             /\ ForkedIn(t) <=> ForkedIn(s)
             /\ \A c : Did(t, "DisputeCrowdsourcerCompleted", c)
                         <=> Did(s, "DisputeCrowdsourcerCompleted", c)
             /\ \A c, w : FiledBy(t, c, w) <=> FiledBy(s, c, w)
             /\ \A c : ~StartsRound(b.log, MarketOf[c]) => (IsOpen(t, c) <=> IsOpen(s, c))
<1> DEFINE t == Append(s, b)
<1>1. \A m : b.log # MarketLog("UniverseForked", m)
  BY DEF Quiet, MarketLog
<1>2. \A c : /\ b.log # CrowdLog("DisputeCrowdsourcerCompleted", c)
             /\ b.log # CrowdLog("DisputeCrowdsourcerCreated", c)
  BY DEF Quiet, CrowdLog
<1>3. b.log.kind # "InitialReportSubmitted"
  BY DEF Quiet
<1>4. \A m : Was(t, "UniverseForked", m) <=> Was(s, "UniverseForked", m)
  BY <1>1, Grows
<1>5. \A c : Did(t, "DisputeCrowdsourcerCompleted", c) <=> Did(s, "DisputeCrowdsourcerCompleted", c)
  BY <1>2, Grows
<1>6. \A m : ReportedIn(t, m) <=> ReportedIn(s, m)
  BY <1>3, ReportedAppended
<1>7. \A c, w : FiledBy(t, c, w) <=> FiledBy(s, c, w)
  BY <1>2, FiledAppended
<1>8. \A c : ~StartsRound(b.log, MarketOf[c]) => (IsOpen(t, c) <=> IsOpen(s, c))
  BY <1>2, OpenAppended
<1>9. \A m : NoOtherFork(t, m) <=> NoOtherFork(s, m)
  BY <1>4 DEF NoOtherFork
<1>10. ForkedIn(t) <=> ForkedIn(s)
  BY <1>4 DEF ForkedIn
<1> QED
  BY <1>4, <1>5, <1>6, <1>7, <1>8, <1>9, <1>10

\* The conjuncts of Told, of two chains that agree on what they speak of.
LEMMA FiledKept ==
  ASSUME NEW d, NEW e, NEW s, NEW t, KeepsCasting(d, e), Filed(d, s),
         \A c, w : FiledBy(s, c, w) => FiledBy(t, c, w)
  PROVE  Filed(e, t)
BY DEF Filed, KeepsCasting

LEMMA WonKept ==
  ASSUME NEW d, NEW e, NEW s, NEW t, KeepsCasting(d, e), Won(d, s),
         \A m : NoOtherFork(t, m) => NoOtherFork(s, m),
         \A c : Did(t, "DisputeCrowdsourcerCompleted", c) <=> Did(s, "DisputeCrowdsourcerCompleted", c)
  PROVE  Won(e, t)
BY DEF Won, KeepsCasting

LEMMA CountedKept ==
  ASSUME NEW d, NEW e, NEW s, NEW t, KeepsCasting(d, e), KeepsCounts(d, e), Counted(d, s),
         \A m : NoOtherFork(t, m) => NoOtherFork(s, m),
         \A m : ReportedIn(t, m) => ReportedIn(s, m),
         \A m \in DOMAIN e.markets \ DOMAIN d.markets : ~ReportedIn(s, m)
  PROVE  Counted(e, t)
<1>1. SUFFICES ASSUME NEW m \in DOMAIN e.markets, ReportedIn(t, m), NoOtherFork(t, m)
               PROVE  e.markets[m].disputeRounds = Cardinality(Winners(e, m))
  BY DEF Counted
<1>2. ReportedIn(s, m) /\ NoOtherFork(s, m) /\ m \in DOMAIN d.markets
  BY <1>1
<1>3. d.markets[m].disputeRounds = Cardinality(Winners(d, m))
  BY <1>2 DEF Counted
<1> QED
  BY <1>2, <1>3, SameWinners DEF KeepsCounts

LEMMA SettledKept ==
  ASSUME NEW d, NEW e, NEW s, NEW t, NEW time, KeepsCasting(d, e), KeepsDisavowed(d, e),
         SettledRight(d, s, time),
         \A c \in DOMAIN d.crowdsourcers :
           /\ Did(t, "DisputeCrowdsourcerCompleted", c) <=> Did(s, "DisputeCrowdsourcerCompleted", c)
           /\ IsOpen(t, c) <=> IsOpen(s, c)
  PROVE  SettledRight(e, t, time)
<1>1. SUFFICES ASSUME NEW c \in DOMAIN e.crowdsourcers
               PROVE  SettledAt(e.crowdsourcers[c], Did(t, "DisputeCrowdsourcerCompleted", c),
                                IsOpen(t, c), time)
  BY DEF SettledRight
<1>2. c \in DOMAIN d.crowdsourcers
  BY DEF KeepsCasting
<1>3. SettledAt(d.crowdsourcers[c], Did(s, "DisputeCrowdsourcerCompleted", c), IsOpen(s, c), time)
  BY <1>2 DEF SettledRight
<1> QED
  BY <1>2, <1>3 DEF SettledAt, KeepsCasting, KeepsDisavowed

\* A log that is quiet changes nothing of it, whether it is added or removed.
LEMMA QuietTold ==
  ASSUME MarketAssumption, NEW s \in Seq(Block), NEW b \in Block, Quiet(b.log),
         NEW d \in Tables, NEW e, KeepsCasting(d, e), KeepsCounts(d, e),
         \/ ForkedIn(s)
         \/ KeepsDisavowed(d, e) /\ \A m \in Market : ~StartsRound(b.log, m),
         \A m \in DOMAIN e.markets \ DOMAIN d.markets : ~ReportedIn(s, m),
         NEW u, NEW time
  PROVE  /\ Told(d, s, u, time) => Told(e, Append(s, b), u, time)
         /\ Told(d, Append(s, b), u, time) => Told(e, s, u, time)
<1> DEFINE t == Append(s, b)
<1>1. /\ \A m : ReportedIn(t, m) <=> ReportedIn(s, m)
      /\ \A m : NoOtherFork(t, m) <=> NoOtherFork(s, m)
      /\ ForkedIn(t) <=> ForkedIn(s)
      /\ \A c : Did(t, "DisputeCrowdsourcerCompleted", c)
                  <=> Did(s, "DisputeCrowdsourcerCompleted", c)
      /\ \A c, w : FiledBy(t, c, w) <=> FiledBy(s, c, w)
      /\ \A c : ~StartsRound(b.log, MarketOf[c]) => (IsOpen(t, c) <=> IsOpen(s, c))
  BY QuietLog
<1>2. ForkedIn(s) \/ (/\ KeepsDisavowed(d, e)
                      /\ \A c \in DOMAIN d.crowdsourcers : IsOpen(t, c) <=> IsOpen(s, c))
  BY <1>1, CastRows
<1> HIDE DEF t
<1>3. /\ Filed(d, s) => Filed(e, t)
      /\ Filed(d, t) => Filed(e, s)
  BY <1>1, FiledKept
<1>4. /\ Won(d, s) => Won(e, t)
      /\ Won(d, t) => Won(e, s)
  BY <1>1, WonKept
<1>5. /\ Counted(d, s) => Counted(e, t)
      /\ Counted(d, t) => Counted(e, s)
  BY <1>1, CountedKept
<1>6. ~ForkedIn(s) => /\ SettledRight(d, s, time) => SettledRight(e, t, time)
                      /\ SettledRight(d, t, time) => SettledRight(e, s, time)
  BY <1>1, <1>2, SettledKept
<1>7. Told(d, s, u, time) => Told(e, t, u, time)
  BY <1>1, <1>3, <1>4, <1>5, <1>6 DEF Told
<1>8. Told(d, t, u, time) => Told(e, s, u, time)
  BY <1>1, <1>3, <1>4, <1>5, <1>6 DEF Told
<1> QED
  BY <1>7, <1>8 DEF t

-----------------------------------------------------------------------------
(* What the handlers do to the crowdsourcers and to the counts of rounds. *)

LEMMA SameCrowd ==
  ASSUME NEW d, NEW e, e.crowdsourcers = d.crowdsourcers
  PROVE  KeepsCasting(d, e) /\ KeepsDisavowed(d, e)
BY DEF KeepsCasting, KeepsDisavowed

LEMMA CreationKeeps ==
  ASSUME MarketAssumption, NEW d \in Tables, NEW m \in Market
  PROVE  LET e == MarketCreated(d, m)
         IN  KeepsCasting(d, e) /\ KeepsDisavowed(d, e) /\ (m \notin DOMAIN d.markets => KeepsCounts(d, e))
<1> DEFINE e == MarketCreated(d, m)
<1>1. e.crowdsourcers = d.crowdsourcers
  BY DEF MarketCreated, UpdateMarketState, Tables
<1>2. m \notin DOMAIN d.markets => KeepsCounts(d, e)
  <2>1. \A x \in DOMAIN d.markets : x # m => e.markets[x] = d.markets[x]
    BY MarketCreates
  <2> HIDE DEF e
  <2> QED
    BY <2>1 DEF KeepsCounts
<1> QED
  BY <1>1, <1>2, SameCrowd

LEMMA CreationRemovalKeeps ==
  ASSUME MarketAssumption, NEW d \in Tables, NEW m \in Market
  PROVE  LET e == MarketCreatedRemoval(d, m)
         IN  KeepsCasting(d, e) /\ KeepsDisavowed(d, e) /\ KeepsCounts(d, e)
<1> DEFINE e == MarketCreatedRemoval(d, m)
<1>1. e.crowdsourcers = d.crowdsourcers
  BY DEF MarketCreatedRemoval, Tables
<1>2. KeepsCounts(d, e)
  BY MarketUncreates DEF KeepsCounts
<1> QED
  BY <1>1, <1>2, SameCrowd

LEMMA WindowRemovalKeeps ==
  ASSUME NEW d \in Tables, NEW w
  PROVE  LET e == FeeWindowCreatedRemoval(d, w)
         IN  KeepsCasting(d, e) /\ KeepsDisavowed(d, e) /\ KeepsCounts(d, e)
<1> DEFINE e == FeeWindowCreatedRemoval(d, w)
<1>1. e.crowdsourcers = d.crowdsourcers /\ e.markets = d.markets
  BY DEF FeeWindowCreatedRemoval, Tables
<1> QED
  BY <1>1, SameCrowd DEF KeepsCounts

LEMMA FinalizationKeeps ==
  ASSUME NEW d \in Tables, NEW m \in DOMAIN d.markets
  PROVE  LET e == MarketFinalized(d, m)
         IN  KeepsCasting(d, e) /\ KeepsDisavowed(d, e) /\ KeepsCounts(d, e)
<1> DEFINE e == MarketFinalized(d, m)
<1>1. e.crowdsourcers = d.crowdsourcers
  BY DEF MarketFinalized, CountOthers, UpdateMarketState, Tables
<1>2. KeepsCounts(d, e)
  <2> SUFFICES ASSUME NEW x \in DOMAIN d.markets
               PROVE  e.markets[x].disputeRounds = d.markets[x].disputeRounds
    BY DEF KeepsCounts
  <2>1. d.markets[x] \in MarketRow
    BY MarketRows
  <2>2. Owing(d.markets[x], 1, 0).disputeRounds = d.markets[x].disputeRounds
    BY <2>1 DEF Owing, MarketRow
  <2> QED
    BY <2>2, MarketFinalizes
<1> QED
  BY <1>1, <1>2, SameCrowd

LEMMA FinalizationRemovalKeeps ==
  ASSUME NEW d \in Tables, NEW m \in DOMAIN d.markets
  PROVE  LET e == MarketFinalizedRemoval(d, m)
         IN  KeepsCasting(d, e) /\ KeepsDisavowed(d, e) /\ KeepsCounts(d, e)
<1> DEFINE e == MarketFinalizedRemoval(d, m)
<1>1. e.crowdsourcers = d.crowdsourcers
  BY DEF MarketFinalizedRemoval, RollbackMarketState, Tables
<1>2. KeepsCounts(d, e)
  <2> SUFFICES ASSUME NEW x \in DOMAIN d.markets
               PROVE  e.markets[x].disputeRounds = d.markets[x].disputeRounds
    BY DEF KeepsCounts
  <2>1. d.markets[x] \in MarketRow
    BY MarketRows
  <2>2. [d.markets[x] EXCEPT !.needsMigration = 0].disputeRounds = d.markets[x].disputeRounds
    BY <2>1 DEF MarketRow
  <2>3. e.markets[x] = IF d.markets[x].universe = d.markets[m].universe
                       THEN [d.markets[x] EXCEPT !.needsMigration = 0] ELSE d.markets[x]
    BY MarketUnfinalizes, ZenonT(60)
  <2> HIDE DEF e
  <2> QED
    BY <2>2, <2>3
<1> QED
  BY <1>1, <1>2, SameCrowd

LEMMA DisavowKeeps ==
  ASSUME NEW d \in Tables, NEW m, NEW n \in Int
  PROVE  LET e == Disavow(d, m, n)
         IN  KeepsCasting(d, e) /\ e.markets = d.markets
<1> DEFINE e == Disavow(d, m, n)
<1>1. e.markets = d.markets
  BY Disavows
<1>2. e.crowdsourcers = [c \in DOMAIN d.crowdsourcers |->
                           IF MarketOf[c] = m THEN Disavowed(d.crowdsourcers[c], n)
                           ELSE d.crowdsourcers[c]]
  BY DEF Disavow, Tables
<1> HIDE DEF e
<1>3. ASSUME NEW c \in DOMAIN d.crowdsourcers
      PROVE  /\ e.crowdsourcers[c].feeWindow = d.crowdsourcers[c].feeWindow
             /\ e.crowdsourcers[c].completed = d.crowdsourcers[c].completed
  <2>1. PICK r \in CrowdsourcerRow : r = d.crowdsourcers[c]
    BY CrowdsourcerRows
  <2>2. Disavowed(r, n).feeWindow = r.feeWindow /\ Disavowed(r, n).completed = r.completed
    BY DEF Disavowed, CrowdsourcerRow
  <2> QED
    BY <1>2, <2>1, <2>2
<1>4. DOMAIN e.crowdsourcers = DOMAIN d.crowdsourcers
  BY <1>2
<1> QED
  BY <1>1, <1>3, <1>4 DEF KeepsCasting, e

LEMMA CastingThrough ==
  ASSUME NEW d, NEW e, NEW f, e.crowdsourcers = d.crowdsourcers, KeepsCasting(e, f)
  PROVE  KeepsCasting(d, f)
BY DEF KeepsCasting

LEMMA DisavowalKeeps ==
  ASSUME NEW d \in Tables, NEW m \in DOMAIN d.markets, NEW n \in Int, NEW k \in Int
  PROVE  LET e == DisavowalCounted(d, m, n, k)
         IN  KeepsCasting(d, e) /\ KeepsCounts(d, e)
<1> DEFINE row == [d.markets[m] EXCEPT !.needsDisavowal = @ + n]
           x == [d EXCEPT !.markets[m].needsDisavowal = @ + n]
           e == DisavowalCounted(d, m, n, k)
<1>1. x = [d EXCEPT !.markets = [d.markets EXCEPT ![m] = row]]
  OBVIOUS
<1>2. d.markets[m] \in MarketRow
  BY MarketRows
<1>3. row \in MarketRow /\ row.disputeRounds = d.markets[m].disputeRounds
  BY <1>2 DEF MarketRow
<1>4. /\ x \in Tables /\ x.crowdsourcers = d.crowdsourcers /\ DOMAIN x.markets = DOMAIN d.markets
      /\ x.markets[m] = row /\ \A y \in DOMAIN d.markets : y # m => x.markets[y] = d.markets[y]
  BY <1>1, <1>3, MarketChanged
<1>5. e = Disavow(x, m, k)
  BY DEF DisavowalCounted
<1> HIDE DEF x, row, e
<1>6. KeepsCasting(x, e) /\ e.markets = x.markets
  BY <1>4, <1>5, DisavowKeeps
<1>7. KeepsCasting(d, e)
  BY <1>4, <1>6, CastingThrough
<1>8. KeepsCounts(d, e)
  BY <1>3, <1>4, <1>6 DEF KeepsCounts
<1> QED
  BY <1>7, <1>8 DEF e

LEMMA MigrationKeeps ==
  ASSUME MarketAssumption, NEW d \in Tables, NEW m \in DOMAIN d.markets, NEW now \in Nat
  PROVE  LET e == MarketMigrated(d, m, now)
         IN  KeepsCasting(d, e) /\ KeepsCounts(d, e)
<1> DEFINE next == IF d.markets[m].feeWindow # None THEN "AWAITING_NEXT_WINDOW" ELSE "OPEN_REPORTING"
           S == IF StateOf(d, m) = "AWAITING_FORK_MIGRATION" THEN {m} ELSE {}
           d1 == UpdateMarketState(d, S, next)
           d2 == UpdateMarketFeeWindow(d1, Child, m, now, TRUE)
           d3 == [d2 EXCEPT !.markets[m].universe = Child, !.markets[m].needsMigration = @ - 1,
                            !.markets[m].needsDisavowal = @ - 1]
           e == MarketMigrated(d, m, now)
<1>1. e = Disavow(d3, m, 1)
  BY DEF MarketMigrated
<1>2. next \in ReportingState
  BY DEF ReportingState
<1> HIDE DEF next, S
<1>3. d1 \in Tables /\ d1.markets = d.markets /\ d1.crowdsourcers = d.crowdsourcers
  BY <1>2, StatesUpdated
<1> HIDE DEF d1
<1>4. Child \in Universe /\ m \in DOMAIN d1.markets
  BY <1>3 DEF MarketAssumption
<1>5. d2 \in Tables /\ d2.crowdsourcers = d1.crowdsourcers /\ DOMAIN d2.markets = DOMAIN d1.markets
  <2> HIDE DEF d3, e
  <2>1. Child \in Universe /\ m \in DOMAIN d1.markets /\ d1 \in Tables
    BY <1>3, <1>4
  <2>2. d2 \in Tables /\ KeepsAll(d1, d2)
    BY <2>1, FeeWindowUpdated
  <2>3. d2.crowdsourcers = d1.crowdsourcers
    BY <2>1 DEF UpdateMarketFeeWindow, Tables
  <2> QED
    BY <2>2, <2>3 DEF KeepsAll, KeepsMarkets
<1>6. \A x \in DOMAIN d.markets : /\ x \in DOMAIN d2.markets
                                  /\ d2.markets[x].disputeRounds = d.markets[x].disputeRounds
  <2> SUFFICES ASSUME NEW x \in DOMAIN d.markets
               PROVE  d2.markets[x].disputeRounds = d.markets[x].disputeRounds
    BY <1>3, <1>5
  <2>1. PICK w : w = WindowAt(Child, now + Duration)
    OBVIOUS
  <2>2. d2.markets = [d.markets EXCEPT ![m].feeWindow = w]
    BY <1>3, <2>1 DEF d2, UpdateMarketFeeWindow, Tables
  <2>3. d.markets[x] \in MarketRow
    BY MarketRows
  <2> HIDE DEF d2
  <2>4. d2.markets[x] = IF x = m THEN [d.markets[x] EXCEPT !.feeWindow = w] ELSE d.markets[x]
    BY <2>2
  <2>5. PICK row \in MarketRow : row = d.markets[x]
    BY <2>3
  <2>6. [row EXCEPT !.feeWindow = w].disputeRounds = row.disputeRounds
    BY <2>5 DEF MarketRow
  <2> QED
    BY <2>4, <2>5, <2>6
<1> HIDE DEF d2
<1>7. PICK f : f = d2.markets
  OBVIOUS
<1> DEFINE row == [f[m] EXCEPT !.universe = Child, !.needsMigration = @ - 1, !.needsDisavowal = @ - 1]
<1>8. d3 = [d2 EXCEPT !.markets = [d2.markets EXCEPT ![m] = row]]
  <2>1. [f EXCEPT ![m].universe = Child, ![m].needsMigration = @ - 1, ![m].needsDisavowal = @ - 1]
          = [f EXCEPT ![m] = row]
    OBVIOUS
  <2>2. d3 = [d2 EXCEPT !.markets = [f EXCEPT ![m].universe = Child, ![m].needsMigration = @ - 1,
                                              ![m].needsDisavowal = @ - 1]]
    BY <1>7
  <2> QED
    BY <1>7, <2>1, <2>2
<1>9. m \in DOMAIN d2.markets /\ f[m] \in MarketRow
  BY <1>5, <1>6, <1>7, MarketRows
<1>10. row \in MarketRow /\ row.disputeRounds = f[m].disputeRounds
  <2>1. PICK r \in MarketRow : r = f[m]
    BY <1>9
  <2>2. PICK i \in Int, j \in Int : i = r.needsMigration - 1 /\ j = r.needsDisavowal - 1
    BY DEF MarketRow
  <2>3. row = [r EXCEPT !.universe = Child, !.needsMigration = i, !.needsDisavowal = j]
    BY <2>1, <2>2
  <2>4. [r EXCEPT !.universe = Child, !.needsMigration = i, !.needsDisavowal = j] \in MarketRow
    BY <1>4 DEF MarketRow
  <2>5. [r EXCEPT !.universe = Child, !.needsMigration = i, !.needsDisavowal = j].disputeRounds
          = r.disputeRounds
    BY DEF MarketRow
  <2> QED
    BY <2>1, <2>3, <2>4, <2>5
<1> HIDE DEF row
<1>11. /\ d3 \in Tables /\ d3.crowdsourcers = d2.crowdsourcers /\ DOMAIN d3.markets = DOMAIN d2.markets
       /\ d3.markets[m] = row /\ \A y \in DOMAIN d2.markets : y # m => d3.markets[y] = d2.markets[y]
  <2>1. d2 \in Tables /\ m \in DOMAIN d2.markets /\ row \in MarketRow
    BY <1>5, <1>9, <1>10
  <2> HIDE DEF d3
  <2> QED
    BY <1>8, <2>1, MarketChanged
<1> HIDE DEF d3, e
<1>12. KeepsCasting(d3, e) /\ e.markets = d3.markets
  BY <1>1, <1>11, DisavowKeeps
<1>13. KeepsCasting(d, e)
  BY <1>3, <1>5, <1>11, <1>12, CastingThrough
<1>14. KeepsCounts(d, e)
  BY <1>6, <1>7, <1>10, <1>11, <1>12 DEF KeepsCounts
<1> QED
  BY <1>13, <1>14 DEF e

LEMMA MigrationRemovalKeeps ==
  ASSUME MarketAssumption, NEW d \in Tables, NEW m \in DOMAIN d.markets
  PROVE  LET e == MarketMigratedRemoval(d, m)
         IN  KeepsCasting(d, e) /\ KeepsCounts(d, e)
<1> DEFINE d2 == RollbackMarketState(d, m)
           row == [d2.markets[m] EXCEPT !.universe = Genesis, !.needsMigration = @ + 1,
                                        !.needsDisavowal = @ + 1]
           d3 == [d2 EXCEPT !.markets = [d2.markets EXCEPT ![m] = row]]
           e == Disavow(d3, m, -1)
<1>1. MarketMigratedRemoval(d, m) = e
  <2>1. PICK g : g = RollbackMarketState(d, m)
    OBVIOUS
  <2>2. PICK f : f = g.markets
    OBVIOUS
  <2>3. [f EXCEPT ![m].universe = Genesis, ![m].needsMigration = @ + 1, ![m].needsDisavowal = @ + 1]
          = [f EXCEPT ![m] = [f[m] EXCEPT !.universe = Genesis, !.needsMigration = @ + 1,
                                          !.needsDisavowal = @ + 1]]
    OBVIOUS
  <2>4. [g EXCEPT !.markets[m].universe = Genesis, !.markets[m].needsMigration = @ + 1,
                  !.markets[m].needsDisavowal = @ + 1] = d3
    BY <2>1, <2>2, <2>3, ZenonT(30)
  <2> QED
    BY <2>1, <2>4 DEF MarketMigratedRemoval
<1>2. d2 \in Tables /\ d2.markets = d.markets /\ d2.crowdsourcers = d.crowdsourcers
  BY MarketRows, StateRolledBack
<1> HIDE DEF d2
<1>3. Genesis \in Universe /\ 1 \in Int /\ -1 \in Int
  BY DEF MarketAssumption
<1>4. m \in DOMAIN d2.markets /\ d2.markets[m] \in MarketRow
  BY <1>2, MarketRows
<1>5. row \in MarketRow /\ row.disputeRounds = d2.markets[m].disputeRounds
  <2>1. row \in MarketRow
    BY <1>3, <1>4, RowMigrates
  <2> QED
    BY <1>4, <2>1 DEF MarketRow
<1> HIDE DEF row
<1>6. /\ d3 \in Tables /\ d3.crowdsourcers = d2.crowdsourcers /\ DOMAIN d3.markets = DOMAIN d2.markets
      /\ d3.markets[m] = row /\ \A y \in DOMAIN d2.markets : y # m => d3.markets[y] = d2.markets[y]
  BY <1>2, <1>4, <1>5, MarketChanged
<1> HIDE DEF d3
<1>7. KeepsCasting(d3, e) /\ e.markets = d3.markets
  BY <1>3, <1>6, DisavowKeeps
<1> HIDE DEF e
<1>8. KeepsCasting(d, e)
  BY <1>2, <1>6, <1>7, CastingThrough
<1>9. KeepsCounts(d, e)
  BY <1>2, <1>5, <1>6, <1>7 DEF KeepsCounts
<1> QED
  BY <1>1, <1>8, <1>9

LEMMA ParticipantKeeps ==
  ASSUME NEW d \in Tables, NEW x \in DOMAIN d.reports \cup DOMAIN d.crowdsourcers, NEW b \in {0, 1}
  PROVE  LET e == ReportingParticipantDisavowed(d, x, b)
         IN  KeepsCasting(d, e) /\ KeepsCounts(d, e)
<1> DEFINE e == ReportingParticipantDisavowed(d, x, b)
<1>1. CASE x \in DOMAIN d.reports
  <2>1. e.crowdsourcers = d.crowdsourcers /\ e.markets = d.markets
    BY <1>1 DEF ReportingParticipantDisavowed, Tables
  <2> QED
    BY <2>1, SameCrowd DEF KeepsCounts
<1>2. CASE x \notin DOMAIN d.reports
  <2>1. e.markets = d.markets /\ e.crowdsourcers = [d.crowdsourcers EXCEPT ![x].disavowed = b]
    BY <1>2 DEF ReportingParticipantDisavowed, Tables
  <2> HIDE DEF e
  <2>2. ASSUME NEW c \in DOMAIN d.crowdsourcers
        PROVE  /\ e.crowdsourcers[c].feeWindow = d.crowdsourcers[c].feeWindow
               /\ e.crowdsourcers[c].completed = d.crowdsourcers[c].completed
    <3>1. d.crowdsourcers[c] \in CrowdsourcerRow
      BY CrowdsourcerRows
    <3> QED
      BY <2>1, <3>1 DEF CrowdsourcerRow
  <2>3. DOMAIN e.crowdsourcers = DOMAIN d.crowdsourcers
    BY <2>1
  <2>4. KeepsCasting(d, e) /\ KeepsCounts(d, e)
    BY <2>1, <2>2, <2>3 DEF KeepsCasting, KeepsCounts
  <2> QED
    BY <2>4 DEF e
<1> QED
  BY <1>1, <1>2

LEMMA ContributionKeeps ==
  ASSUME NEW d \in Tables, NEW c \in DOMAIN d.crowdsourcers, NEW n \in Nat, NEW e,
         \/ e = DisputeCrowdsourcerContribution(d, c, n)
         \/ e = DisputeCrowdsourcerContributionRemoval(d, c, n)
  PROVE  KeepsCasting(d, e) /\ KeepsDisavowed(d, e) /\ KeepsCounts(d, e)
<1>1. PICK k : e.markets = d.markets /\ e.crowdsourcers = [d.crowdsourcers EXCEPT ![c].staked = k]
  <2>1. CASE e = DisputeCrowdsourcerContribution(d, c, n)
    <3>1. PICK k : k = d.crowdsourcers[c].staked + n
      OBVIOUS
    <3>2. e.markets = d.markets /\ e.crowdsourcers = [d.crowdsourcers EXCEPT ![c].staked = k]
      BY <2>1, <3>1 DEF DisputeCrowdsourcerContribution, Tables
    <3> QED
      BY <3>2
  <2>2. CASE e = DisputeCrowdsourcerContributionRemoval(d, c, n)
    <3>1. PICK k : k = d.crowdsourcers[c].staked - n
      OBVIOUS
    <3>2. e.markets = d.markets /\ e.crowdsourcers = [d.crowdsourcers EXCEPT ![c].staked = k]
      BY <2>2, <3>1 DEF DisputeCrowdsourcerContributionRemoval, Tables
    <3> QED
      BY <3>2
  <2> QED
    BY <2>1, <2>2
<1>2. ASSUME NEW x \in DOMAIN d.crowdsourcers
      PROVE  /\ e.crowdsourcers[x].feeWindow = d.crowdsourcers[x].feeWindow
             /\ e.crowdsourcers[x].completed = d.crowdsourcers[x].completed
             /\ e.crowdsourcers[x].disavowed = d.crowdsourcers[x].disavowed
  <2>1. d.crowdsourcers[x] \in CrowdsourcerRow
    BY CrowdsourcerRows
  <2> QED
    BY <1>1, <2>1 DEF CrowdsourcerRow
<1>3. DOMAIN e.crowdsourcers = DOMAIN d.crowdsourcers
  BY <1>1
<1> QED
  BY <1>1, <1>2, <1>3 DEF KeepsCasting, KeepsDisavowed, KeepsCounts

LEMMA FeeWindowKeepsCounts ==
  ASSUME NEW d \in Tables, NEW m \in DOMAIN d.markets, NEW w,
         NEW e, e = [d EXCEPT !.markets[m].feeWindow = w]
  PROVE  /\ e.crowdsourcers = d.crowdsourcers /\ DOMAIN e.markets = DOMAIN d.markets
         /\ \A x \in DOMAIN d.markets : e.markets[x].disputeRounds = d.markets[x].disputeRounds
<1>1. e.markets = [d.markets EXCEPT ![m].feeWindow = w] /\ e.crowdsourcers = d.crowdsourcers
  BY DEF Tables
<1>2. ASSUME NEW x \in DOMAIN d.markets
      PROVE  e.markets[x].disputeRounds = d.markets[x].disputeRounds
  <2>1. d.markets[x] \in MarketRow
    BY MarketRows
  <2> QED
    BY <1>1, <2>1 DEF MarketRow
<1> QED
  BY <1>1, <1>2

LEMMA RoundsAreCounted ==
  ASSUME NEW d \in Tables, NEW m \in DOMAIN d.markets
  PROVE  LET e == UpdateDisputeRound(d, m)
         IN  /\ e.crowdsourcers = d.crowdsourcers /\ DOMAIN e.markets = DOMAIN d.markets
             /\ e.markets[m].disputeRounds = Cardinality(Winners(d, m))
             /\ \A x \in DOMAIN d.markets : x # m =>
                  e.markets[x].disputeRounds = d.markets[x].disputeRounds
<1> DEFINE e == UpdateDisputeRound(d, m)
<1>1. PICK n : n = Cardinality(Winners(d, m))
  OBVIOUS
<1>2. e.markets = [d.markets EXCEPT ![m].disputeRounds = n] /\ e.crowdsourcers = d.crowdsourcers
  BY <1>1 DEF UpdateDisputeRound, Winners, Tables
<1> HIDE DEF e
<1>3. d.markets[m] \in MarketRow
  BY MarketRows
<1>4. e.markets[m].disputeRounds = n
  BY <1>2, <1>3 DEF MarketRow
<1>5. \A x \in DOMAIN d.markets : x # m => e.markets[x] = d.markets[x]
  BY <1>2
<1> QED
  BY <1>1, <1>2, <1>4, <1>5 DEF e

\* A market's initial report counts its rounds, and its removal does not.
LEMMA ReportCounts ==
  ASSUME MarketAssumption, NEW d \in Tables, NEW m \in DOMAIN d.markets, NEW p \in Payout, NEW now \in Nat
  PROVE  LET e == InitialReportSubmitted(d, m, p, now)
         IN  /\ e.crowdsourcers = d.crowdsourcers
             /\ e.markets[m].disputeRounds = Cardinality(Winners(d, m))
             /\ DOMAIN e.markets = DOMAIN d.markets
             /\ \A x \in DOMAIN d.markets : x # m =>
                  e.markets[x].disputeRounds = d.markets[x].disputeRounds
<1> DEFINE universe == d.markets[m].universe
           state == IF universe \in d.forked THEN "AWAITING_FORK_MIGRATION" ELSE "AWAITING_NEXT_WINDOW"
           d1 == UpdateMarketState(d, {m}, state)
           d2 == InsertPayout(d1, m, p, TRUE)
           f == With(d2.reports, m, [payout |-> p, disavowed |-> 0])
           d3 == [d2 EXCEPT !.reports = f]
           d4 == UpdateMarketFeeWindow(d3, universe, m, now, TRUE)
           d5 == UpdateDisputeRound(d4, m)
<1>1. InitialReportSubmitted(d, m, p, now) = d5
  BY DEF InitialReportSubmitted
<1>2. universe \in Universe /\ m \in Market /\ state \in ReportingState
  BY MarketRows DEF MarketRow, ReportingState
<1> HIDE DEF universe, state
<1>3. d1 \in Tables /\ d1.markets = d.markets /\ d1.crowdsourcers = d.crowdsourcers
  BY <1>2, StatesUpdated
<1> HIDE DEF d1
<1>4. d2 \in Tables /\ d2.markets = d.markets /\ d2.crowdsourcers = d.crowdsourcers
  BY <1>2, <1>3, PayoutInserted
<1> HIDE DEF d2
<1>5. f \in Rows(Market, ReportRow)
  <2>1. d2.reports \in Rows(Market, ReportRow) /\ [payout |-> p, disavowed |-> 0] \in ReportRow
    BY <1>4, TablesElim DEF ReportRow
  <2> QED
    BY <1>2, <2>1, RowAdded
<1> HIDE DEF f
<1>6. d3 \in Tables /\ d3.markets = d.markets /\ d3.crowdsourcers = d.crowdsourcers
  BY <1>4, <1>5, SetReports
<1> HIDE DEF d3
<1>7. m \in DOMAIN d3.markets
  BY <1>6
<1>8. d4 \in Tables
  BY <1>2, <1>6, <1>7, FeeWindowUpdated
<1>9. /\ d4.crowdsourcers = d3.crowdsourcers /\ DOMAIN d4.markets = DOMAIN d3.markets
      /\ \A x \in DOMAIN d3.markets : d4.markets[x].disputeRounds = d3.markets[x].disputeRounds
  <2>1. PICK w : d4 = [d3 EXCEPT !.markets[m].feeWindow = w]
    BY DEF UpdateMarketFeeWindow
  <2> HIDE DEF d4, d5
  <2> QED
    BY <1>6, <1>7, <2>1, FeeWindowKeepsCounts
<1> HIDE DEF d4
<1>10. m \in DOMAIN d4.markets
  BY <1>7, <1>9
<1>11. /\ d5.crowdsourcers = d4.crowdsourcers /\ DOMAIN d5.markets = DOMAIN d4.markets
       /\ d5.markets[m].disputeRounds = Cardinality(Winners(d4, m))
       /\ \A x \in DOMAIN d4.markets : x # m => d5.markets[x].disputeRounds = d4.markets[x].disputeRounds
  BY <1>8, <1>10, RoundsAreCounted
<1>12. Winners(d4, m) = Winners(d, m)
  BY <1>6, <1>9 DEF Winners, CrowdsourcersOf
<1> HIDE DEF d5
<1> QED
  BY <1>1, <1>6, <1>9, <1>11, <1>12

LEMMA ReportRemovalKeeps ==
  ASSUME MarketAssumption, NEW d \in Tables, NEW m \in DOMAIN d.markets, NEW now \in Nat
  PROVE  LET e == InitialReportSubmittedRemoval(d, m, now)
         IN  KeepsCasting(d, e) /\ KeepsDisavowed(d, e) /\ KeepsCounts(d, e)
<1> DEFINE universe == d.markets[m].universe
           d1 == RollbackMarketState(d, m)
           f == Without(d1.reports, m)
           d2 == [d1 EXCEPT !.reports = f]
           e == UpdateMarketFeeWindow(d2, universe, m, now, FALSE)
<1>1. InitialReportSubmittedRemoval(d, m, now) = e
  BY DEF InitialReportSubmittedRemoval
<1>2. m \in Market
  BY MarketRows
<1> HIDE DEF universe
<1>3. d1 \in Tables /\ d1.markets = d.markets /\ d1.crowdsourcers = d.crowdsourcers
  BY <1>2, StateRolledBack
<1> HIDE DEF d1
<1>4. f \in Rows(Market, ReportRow)
  BY <1>3, TablesElim, RowDropped
<1> HIDE DEF f
<1>5. d2 \in Tables /\ d2.markets = d.markets /\ d2.crowdsourcers = d.crowdsourcers
  BY <1>3, <1>4, SetReports
<1> HIDE DEF d2
<1>6. m \in DOMAIN d2.markets
  BY <1>5
<1>7. /\ e.crowdsourcers = d2.crowdsourcers /\ DOMAIN e.markets = DOMAIN d2.markets
      /\ \A x \in DOMAIN d2.markets : e.markets[x].disputeRounds = d2.markets[x].disputeRounds
  <2>1. PICK w : e = [d2 EXCEPT !.markets[m].feeWindow = w]
    BY DEF UpdateMarketFeeWindow
  <2> HIDE DEF e
  <2> QED
    BY <1>5, <1>6, <2>1, FeeWindowKeepsCounts
<1> HIDE DEF e
<1>8. e.crowdsourcers = d.crowdsourcers /\ KeepsCounts(d, e)
  BY <1>5, <1>7 DEF KeepsCounts
<1> QED
  BY <1>1, <1>8, SameCrowd

\* The rows of the crowdsourcers but c, when c is completed: the open ones fail.
Fails(row, m, c) == MarketOf[c] = m /\ row.completed = None

LEMMA CompletionRows ==
  ASSUME MarketAssumption, NEW d \in Tables, NEW c \in DOMAIN d.crowdsourcers, NEW now \in Nat,
         MarketOf[c] \in DOMAIN d.markets, IsFiniteSet(DOMAIN d.crowdsourcers)
  PROVE  LET e == DisputeCrowdsourcerCompleted(d, c, now)
             m == MarketOf[c]
         IN  /\ DOMAIN e.crowdsourcers = DOMAIN d.crowdsourcers
             /\ \A x \in DOMAIN d.crowdsourcers :
                  LET old == d.crowdsourcers[x]
                      new == e.crowdsourcers[x]
                  IN  /\ new.feeWindow = old.feeWindow
                      /\ x = c => new.completed = 1 /\ new.disavowed = old.disavowed
                      /\ x # c /\ Fails(old, m, x) =>
                           new.completed = 0 /\ new.disavowed = old.disavowed + 1
                      /\ x # c /\ ~Fails(old, m, x) =>
                           new.completed = old.completed /\ new.disavowed = old.disavowed
             /\ DOMAIN e.markets = DOMAIN d.markets
             /\ e.markets[m].disputeRounds = Cardinality(Winners(e, m))
             /\ \A x \in DOMAIN d.markets : x # m =>
                  e.markets[x].disputeRounds = d.markets[x].disputeRounds
<1> DEFINE m == MarketOf[c]
           d1 == [d EXCEPT !.crowdsourcers[c].completed = 1]
           d2 == UpdateMarketState(d1, {m}, "AWAITING_NEXT_WINDOW")
           d3 == UpdateDisputeRound(d2, m)
           d4 == UpdateMarketFeeWindow(d3, d.markets[m].universe, m, now, TRUE)
           d5 == UpdateIncompleteCrowdsourcers(d4, m)
           d6 == UpdateTentativeWinningPayout(d5, m)
<1>1. DisputeCrowdsourcerCompleted(d, c, now) = d6
  BY DEF DisputeCrowdsourcerCompleted
<1>2. m \in DOMAIN d.markets /\ d.markets[m].universe \in Universe
  BY MarketRows DEF MarketRow
<1> HIDE DEF m
<1>3. d1 \in Tables /\ KeepsAll(d, d1)
  <2>1. 1 \in {0, 1, None}
    OBVIOUS
  <2> QED
    BY <2>1, CompletionSet
<1>4. /\ d1.crowdsourcers = [d.crowdsourcers EXCEPT ![c].completed = 1]
      /\ d1.markets = d.markets
  BY DEF Tables
<1> HIDE DEF d1
<1>5. "AWAITING_NEXT_WINDOW" \in ReportingState
  BY DEF ReportingState
<1>6. d2 \in Tables /\ d2.markets = d1.markets /\ d2.crowdsourcers = d1.crowdsourcers
  BY <1>3, <1>5, StatesUpdated
<1> HIDE DEF d2
<1>7. m \in DOMAIN d2.markets /\ IsFiniteSet(DOMAIN d2.crowdsourcers)
  BY <1>2, <1>4, <1>6
<1>8. d3 \in Tables
  BY <1>6, <1>7, RoundUpdated
<1>9. /\ d3.crowdsourcers = d2.crowdsourcers /\ DOMAIN d3.markets = DOMAIN d2.markets
      /\ d3.markets[m].disputeRounds = Cardinality(Winners(d2, m))
      /\ \A x \in DOMAIN d2.markets : x # m => d3.markets[x].disputeRounds = d2.markets[x].disputeRounds
  BY <1>6, <1>7, RoundsAreCounted
<1> HIDE DEF d3
<1>10. m \in DOMAIN d3.markets
  BY <1>7, <1>9
<1>11. d4 \in Tables
  BY <1>2, <1>8, <1>10, FeeWindowUpdated
<1>12. /\ d4.crowdsourcers = d3.crowdsourcers /\ DOMAIN d4.markets = DOMAIN d3.markets
       /\ \A x \in DOMAIN d3.markets : d4.markets[x].disputeRounds = d3.markets[x].disputeRounds
  <2>1. PICK w : d4 = [d3 EXCEPT !.markets[m].feeWindow = w]
    BY DEF UpdateMarketFeeWindow
  <2> HIDE DEF d4, d5, d6
  <2> QED
    BY <1>8, <1>10, <2>1, FeeWindowKeepsCounts
<1> HIDE DEF d4
<1>13. d5 \in Tables
  BY <1>11, IncompleteFail
<1>14. /\ d5.markets = d4.markets
       /\ d5.crowdsourcers = [x \in DOMAIN d4.crowdsourcers |->
            IF MarketOf[x] = m /\ d4.crowdsourcers[x].completed = None
            THEN Disavowed([d4.crowdsourcers[x] EXCEPT !.completed = 0], 1) ELSE d4.crowdsourcers[x]]
  BY <1>11 DEF UpdateIncompleteCrowdsourcers, Tables
<1> HIDE DEF d5
<1>15. d6.markets = d5.markets /\ d6.crowdsourcers = d5.crowdsourcers
  BY <1>13, TentativeUpdated
<1> HIDE DEF d6
<1>16. ASSUME NEW x \in DOMAIN d.crowdsourcers
       PROVE  /\ d4.crowdsourcers[x].feeWindow = d.crowdsourcers[x].feeWindow
              /\ d4.crowdsourcers[x].disavowed = d.crowdsourcers[x].disavowed
              /\ d4.crowdsourcers[x].completed = IF x = c THEN 1 ELSE d.crowdsourcers[x].completed
              /\ x \in DOMAIN d4.crowdsourcers
  <2>1. d.crowdsourcers[x] \in CrowdsourcerRow
    BY CrowdsourcerRows
  <2> QED
    BY <1>4, <1>6, <1>9, <1>12, <2>1 DEF CrowdsourcerRow
<1>17. ASSUME NEW x \in DOMAIN d.crowdsourcers
       PROVE  LET old == d4.crowdsourcers[x]
                  new == d6.crowdsourcers[x]
              IN  /\ new.feeWindow = old.feeWindow
                  /\ Fails(old, m, x) => new.completed = 0 /\ new.disavowed = old.disavowed + 1
                  /\ ~Fails(old, m, x) => new = old
  <2>1. PICK r \in CrowdsourcerRow : r = d4.crowdsourcers[x]
    BY <1>11, <1>16, CrowdsourcerRows
  <2>2. LET q == Disavowed([r EXCEPT !.completed = 0], 1)
        IN  q.feeWindow = r.feeWindow /\ q.completed = 0 /\ q.disavowed = r.disavowed + 1
    BY DEF Disavowed, CrowdsourcerRow
  <2> QED
    BY <1>14, <1>15, <1>16, <2>1, <2>2 DEF Fails
<1>18. ASSUME NEW x \in DOMAIN d.crowdsourcers
       PROVE  LET old == d.crowdsourcers[x]
                  new == d6.crowdsourcers[x]
              IN  /\ new.feeWindow = old.feeWindow
                  /\ x = c => new.completed = 1 /\ new.disavowed = old.disavowed
                  /\ x # c /\ Fails(old, m, x) =>
                       new.completed = 0 /\ new.disavowed = old.disavowed + 1
                  /\ x # c /\ ~Fails(old, m, x) =>
                       new.completed = old.completed /\ new.disavowed = old.disavowed
  <2>1. None # 1
    BY DEF MarketAssumption
  <2> QED
    BY <1>16, <1>17, <2>1 DEF Fails
<1>19. DOMAIN d6.crowdsourcers = DOMAIN d.crowdsourcers
  BY <1>4, <1>6, <1>9, <1>12, <1>14, <1>15
<1>20. Winners(d6, m) = Winners(d2, m)
  <2>1. DOMAIN d2.crowdsourcers = DOMAIN d.crowdsourcers /\ d4.crowdsourcers = d2.crowdsourcers
    BY <1>4, <1>6, <1>9, <1>12
  <2>2. \A x \in DOMAIN d.crowdsourcers :
          d6.crowdsourcers[x].completed = 1 <=> d2.crowdsourcers[x].completed = 1
    <3>1. None # 1 /\ 0 # 1
      BY DEF MarketAssumption
    <3> QED
      BY <1>17, <2>1, <3>1 DEF Fails
  <2> QED
    BY <1>19, <2>1, <2>2 DEF Winners, CrowdsourcersOf
<1>21. /\ d6.markets[m].disputeRounds = Cardinality(Winners(d6, m))
       /\ DOMAIN d6.markets = DOMAIN d.markets
       /\ \A x \in DOMAIN d.markets : x # m => d6.markets[x].disputeRounds = d.markets[x].disputeRounds
  BY <1>4, <1>6, <1>7, <1>9, <1>12, <1>14, <1>15, <1>20
<1> QED
  BY <1>1, <1>18, <1>19, <1>21 DEF m

\* With the removal, every crowdsourcer filed with c loses its completion.
LEMMA UncompletionRows ==
  ASSUME MarketAssumption, NEW d \in Tables, NEW c \in DOMAIN d.crowdsourcers, NEW now \in Nat,
         MarketOf[c] \in DOMAIN d.markets, IsFiniteSet(DOMAIN d.crowdsourcers)
  PROVE  LET e == DisputeCrowdsourcerCompletedRemoval(d, c, now)
             m == MarketOf[c]
             w == d.crowdsourcers[c].feeWindow
         IN  /\ DOMAIN e.crowdsourcers = DOMAIN d.crowdsourcers
             /\ \A x \in DOMAIN d.crowdsourcers :
                  LET old == d.crowdsourcers[x]
                      new == e.crowdsourcers[x]
                  IN  /\ new.feeWindow = old.feeWindow
                      /\ new.completed = 1 <=>
                           old.completed = 1 /\ ~(MarketOf[x] = m /\ old.feeWindow = w)
             /\ DOMAIN e.markets = DOMAIN d.markets
             /\ e.markets[m].disputeRounds = Cardinality(Winners(e, m))
             /\ \A x \in DOMAIN d.markets : x # m =>
                  e.markets[x].disputeRounds = d.markets[x].disputeRounds
<1> DEFINE m == MarketOf[c]
           w == d.crowdsourcers[c].feeWindow
           d1 == RollbackCrowdsourcerCompletion(d, c)
           d2 == RollbackMarketState(d1, m)
           d3 == UpdateDisputeRound(d2, m)
           d4 == UpdateMarketFeeWindow(d3, d.markets[m].universe, m, now, FALSE)
           d5 == RollbackIncompleteCrowdsourcers(d4, m)
           d6 == UpdateTentativeWinningPayout(d5, m)
<1>1. DisputeCrowdsourcerCompletedRemoval(d, c, now) = d6
  BY DEF DisputeCrowdsourcerCompletedRemoval
<1>2. m \in DOMAIN d.markets /\ d.markets[m].universe \in Universe /\ m \in Market
  BY MarketRows DEF MarketRow
<1>3. d1 \in Tables
  BY CompletionForgotten
<1>4. /\ d1.crowdsourcers = [x \in DOMAIN d.crowdsourcers |->
           IF MarketOf[x] = m /\ d.crowdsourcers[x].feeWindow = w
           THEN [d.crowdsourcers[x] EXCEPT !.completed = None] ELSE d.crowdsourcers[x]]
      /\ d1.markets = d.markets
  BY DEF RollbackCrowdsourcerCompletion, Tables
<1> HIDE DEF m, w, d1
<1>6. d2 \in Tables /\ d2.markets = d1.markets /\ d2.crowdsourcers = d1.crowdsourcers
  BY <1>2, <1>3, StateRolledBack
<1> HIDE DEF d2
<1>7. m \in DOMAIN d2.markets /\ IsFiniteSet(DOMAIN d2.crowdsourcers)
  BY <1>2, <1>4, <1>6
<1>8. d3 \in Tables
  BY <1>6, <1>7, RoundUpdated
<1>9. /\ d3.crowdsourcers = d2.crowdsourcers /\ DOMAIN d3.markets = DOMAIN d2.markets
      /\ d3.markets[m].disputeRounds = Cardinality(Winners(d2, m))
      /\ \A x \in DOMAIN d2.markets : x # m => d3.markets[x].disputeRounds = d2.markets[x].disputeRounds
  BY <1>6, <1>7, RoundsAreCounted
<1> HIDE DEF d3
<1>10. m \in DOMAIN d3.markets
  BY <1>7, <1>9
<1>11. d4 \in Tables
  BY <1>2, <1>8, <1>10, FeeWindowUpdated
<1>12. /\ d4.crowdsourcers = d3.crowdsourcers /\ DOMAIN d4.markets = DOMAIN d3.markets
       /\ \A x \in DOMAIN d3.markets : d4.markets[x].disputeRounds = d3.markets[x].disputeRounds
  <2>1. PICK v : d4 = [d3 EXCEPT !.markets[m].feeWindow = v]
    BY DEF UpdateMarketFeeWindow
  <2> HIDE DEF d4, d5, d6
  <2> QED
    BY <1>8, <1>10, <2>1, FeeWindowKeepsCounts
<1> HIDE DEF d4
<1>13. d5 \in Tables
  BY <1>11, IncompleteReopen
<1>14. /\ d5.markets = d4.markets
       /\ d5.crowdsourcers = [x \in DOMAIN d4.crowdsourcers |->
            IF MarketOf[x] = m /\ d4.crowdsourcers[x].completed = 0
            THEN Disavowed([d4.crowdsourcers[x] EXCEPT !.completed = None], -1) ELSE d4.crowdsourcers[x]]
  BY <1>11 DEF RollbackIncompleteCrowdsourcers, Tables
<1> HIDE DEF d5
<1>15. d6.markets = d5.markets /\ d6.crowdsourcers = d5.crowdsourcers
  BY <1>13, TentativeUpdated
<1> HIDE DEF d6
<1>16. None # 1 /\ 0 # 1
  BY DEF MarketAssumption
<1>17. ASSUME NEW x \in DOMAIN d.crowdsourcers
       PROVE  /\ x \in DOMAIN d4.crowdsourcers
              /\ d4.crowdsourcers[x].feeWindow = d.crowdsourcers[x].feeWindow
              /\ d4.crowdsourcers[x].completed = 1 <=>
                   /\ d.crowdsourcers[x].completed = 1
                   /\ ~(MarketOf[x] = m /\ d.crowdsourcers[x].feeWindow = w)
  <2>1. PICK r \in CrowdsourcerRow : r = d.crowdsourcers[x]
    BY CrowdsourcerRows
  <2>2. [r EXCEPT !.completed = None].feeWindow = r.feeWindow /\ [r EXCEPT !.completed = None].completed = None
    BY DEF CrowdsourcerRow
  <2> QED
    BY <1>4, <1>6, <1>9, <1>12, <1>16, <2>1, <2>2
<1>18. ASSUME NEW x \in DOMAIN d.crowdsourcers
       PROVE  /\ d6.crowdsourcers[x].feeWindow = d4.crowdsourcers[x].feeWindow
              /\ d6.crowdsourcers[x].completed = 1 <=> d4.crowdsourcers[x].completed = 1
  <2>1. PICK r \in CrowdsourcerRow : r = d4.crowdsourcers[x]
    BY <1>11, <1>17, CrowdsourcerRows
  <2>2. LET q == Disavowed([r EXCEPT !.completed = None], -1)
        IN  q.feeWindow = r.feeWindow /\ q.completed = None
    BY DEF Disavowed, CrowdsourcerRow
  <2> QED
    BY <1>14, <1>15, <1>16, <1>17, <2>1, <2>2
<1>19. DOMAIN d6.crowdsourcers = DOMAIN d.crowdsourcers
  BY <1>4, <1>6, <1>9, <1>12, <1>14, <1>15
<1>20. Winners(d6, m) = Winners(d2, m)
  <2>1. DOMAIN d2.crowdsourcers = DOMAIN d.crowdsourcers /\ d4.crowdsourcers = d2.crowdsourcers
    BY <1>4, <1>6, <1>9, <1>12
  <2> QED
    BY <1>18, <1>19, <2>1 DEF Winners, CrowdsourcersOf
<1>21. /\ d6.markets[m].disputeRounds = Cardinality(Winners(d6, m))
       /\ DOMAIN d6.markets = DOMAIN d.markets
       /\ \A x \in DOMAIN d.markets : x # m => d6.markets[x].disputeRounds = d.markets[x].disputeRounds
  BY <1>4, <1>6, <1>7, <1>9, <1>12, <1>14, <1>15, <1>20
<1>22. \A x \in DOMAIN d.crowdsourcers :
         /\ d6.crowdsourcers[x].feeWindow = d.crowdsourcers[x].feeWindow
         /\ d6.crowdsourcers[x].completed = 1 <=>
              /\ d.crowdsourcers[x].completed = 1
              /\ ~(MarketOf[x] = m /\ d.crowdsourcers[x].feeWindow = w)
  BY <1>17, <1>18
<1> QED
  BY <1>1, <1>19, <1>21, <1>22 DEF m, w

LEMMA CreationRows ==
  ASSUME MarketAssumption, NEW d \in Tables, NEW c \in Crowdsourcer, NEW w
  PROVE  LET e == DisputeCrowdsourcerCreated(d, c, w)
         IN  /\ e.markets = d.markets /\ DOMAIN e.crowdsourcers = DOMAIN d.crowdsourcers \cup {c}
             /\ e.crowdsourcers[c] = [feeWindow |-> w, completed |-> None, disavowed |-> 0, staked |-> 0]
             /\ \A x \in DOMAIN d.crowdsourcers : x # c => e.crowdsourcers[x] = d.crowdsourcers[x]
<1> DEFINE d1 == InsertPayout(d, MarketOf[c], PayoutOf[c], FALSE)
           row == [feeWindow |-> w, completed |-> None, disavowed |-> 0, staked |-> 0]
           e == [d1 EXCEPT !.crowdsourcers = With(@, c, row)]
<1>1. DisputeCrowdsourcerCreated(d, c, w) = e
  BY DEF DisputeCrowdsourcerCreated
<1>2. MarketOf[c] \in Market /\ PayoutOf[c] \in Payout /\ FALSE \in BOOLEAN
  BY DEF MarketAssumption
<1>3. d1 \in Tables /\ d1.markets = d.markets /\ d1.crowdsourcers = d.crowdsourcers
  BY <1>2, PayoutInserted
<1> HIDE DEF d1, row
<1>4. e.markets = d.markets /\ e.crowdsourcers = With(d.crowdsourcers, c, row)
  BY <1>3 DEF Tables
<1> HIDE DEF e
<1> QED
  BY <1>1, <1>4 DEF With, row

LEMMA CreationRemovalRows ==
  ASSUME NEW d \in Tables, NEW c
  PROVE  LET e == DisputeCrowdsourcerCreatedRemoval(d, c)
         IN  /\ e.markets = d.markets /\ DOMAIN e.crowdsourcers = DOMAIN d.crowdsourcers \ {c}
             /\ \A x \in DOMAIN e.crowdsourcers : e.crowdsourcers[x] = d.crowdsourcers[x]
<1> DEFINE e == DisputeCrowdsourcerCreatedRemoval(d, c)
<1>1. e.markets = d.markets /\ e.crowdsourcers = Without(d.crowdsourcers, c)
  BY DEF DisputeCrowdsourcerCreatedRemoval, Tables
<1> HIDE DEF e
<1> QED
  BY <1>1 DEF Without, e

\* A fork leaves the rounds of the forking market, and its winners, as they are.
LEMMA ForkRows ==
  ASSUME NEW d \in Tables, NEW u, NEW m \in DOMAIN d.markets
  PROVE  LET e == UniverseForked(d, u, m)
         IN  /\ DOMAIN e.crowdsourcers = DOMAIN d.crowdsourcers
             /\ \A c \in DOMAIN d.crowdsourcers :
                  /\ e.crowdsourcers[c].feeWindow = d.crowdsourcers[c].feeWindow
                  /\ MarketOf[c] = m => e.crowdsourcers[c].completed = d.crowdsourcers[c].completed
             /\ e.markets[m].disputeRounds = d.markets[m].disputeRounds
<1> DEFINE d0 == [d EXCEPT !.markets[m].forking = 1]
           d1 == UpdateMarketState(d0, {m}, "FORKING")
           d2 == CountOthers(d1, u, m, 0, 1)
           d3 == [d2 EXCEPT !.forked = @ \cup {u}]
           reverted == {x \in MarketsIn(d3, u) : StateOf(d3, x) \in
                          {"AWAITING_FINALIZATION", "CROWDSOURCING_DISPUTE", "AWAITING_NEXT_WINDOW"}}
           d4 == UpdateMarketState(d3, reverted, "AWAITING_FORK_MIGRATION")
           d5 == RevertPayouts(d4, reverted)
           d6 == UncompleteNonforkingCrowdsourcers(d5, u, m)
           others == MarketsIn(d5, u) \ {m}
<1>1. UniverseForked(d, u, m) = d6
  BY DEF UniverseForked
<1> HIDE DEF reverted
<1> DEFINE zero == [x \in DOMAIN d5.markets |->
                     [d5.markets[x] EXCEPT !.disputeRounds = IF x \in DOMAIN d5.reports THEN 0 ELSE None]]
<1>2. d6 = [d5 EXCEPT
        !.crowdsourcers = [c \in DOMAIN d5.crowdsourcers |->
           IF MarketOf[c] \in others THEN [d5.crowdsourcers[c] EXCEPT !.completed = 0]
           ELSE d5.crowdsourcers[c]],
        !.markets = [x \in DOMAIN d5.markets |-> IF x \in others THEN zero[x] ELSE d5.markets[x]]]
  <2>1. PICK g : g = d5
    OBVIOUS
  <2> DEFINE S == MarketsIn(g, u) \ {m}
             h == [x \in DOMAIN g.markets |->
                     [g.markets[x] EXCEPT !.disputeRounds = IF x \in DOMAIN g.reports THEN 0 ELSE None]]
  <2>2. [x \in DOMAIN g.markets |-> IF x \in S THEN h[x] ELSE g.markets[x]] =
        [x \in DOMAIN g.markets |->
           IF x \in S
           THEN [g.markets[x] EXCEPT !.disputeRounds = IF x \in DOMAIN g.reports THEN 0 ELSE None]
           ELSE g.markets[x]]
    OBVIOUS
  <2>3. UncompleteNonforkingCrowdsourcers(g, u, m) = [g EXCEPT
        !.crowdsourcers = [c \in DOMAIN g.crowdsourcers |->
           IF MarketOf[c] \in S THEN [g.crowdsourcers[c] EXCEPT !.completed = 0]
           ELSE g.crowdsourcers[c]],
        !.markets = [x \in DOMAIN g.markets |-> IF x \in S THEN h[x] ELSE g.markets[x]]]
    BY <2>2 DEF UncompleteNonforkingCrowdsourcers
  <2>4. S = others /\ h = zero /\ d6 = UncompleteNonforkingCrowdsourcers(g, u, m)
    BY <2>1
  <2> HIDE DEF S, h, zero, others, d5, d6
  <2> QED
    BY <2>1, <2>3, <2>4
<1> HIDE DEF zero
<1> HIDE DEF d6
<1>3. 0 \in Int /\ 1 \in Int /\ 1 \in {0, 1}
  OBVIOUS
<1>4. "FORKING" \in ReportingState /\ "AWAITING_FORK_MIGRATION" \in ReportingState
  BY DEF ReportingState
<1>5. /\ d0 \in Tables /\ d0.crowdsourcers = d.crowdsourcers /\ DOMAIN d0.markets = DOMAIN d.markets
      /\ d0.markets[m].disputeRounds = d.markets[m].disputeRounds
  <2>1. d0 \in Tables /\ d0.crowdsourcers = d.crowdsourcers /\ DOMAIN d0.markets = DOMAIN d.markets
    BY <1>3, ForkingSet
  <2>2. d0.markets = [d.markets EXCEPT ![m].forking = 1]
    BY DEF Tables
  <2>3. d.markets[m] \in MarketRow
    BY MarketRows
  <2> QED
    BY <2>1, <2>2, <2>3 DEF MarketRow
<1> HIDE DEF d0
<1>6. d1 \in Tables /\ d1.crowdsourcers = d0.crowdsourcers /\ d1.markets = d0.markets
  BY <1>4, <1>5, StatesUpdated
<1> HIDE DEF d1
<1>7. /\ d2 \in Tables /\ d2.crowdsourcers = d1.crowdsourcers
      /\ DOMAIN d2.markets = DOMAIN d1.markets /\ d2.markets[m] = d1.markets[m]
  BY <1>3, <1>5, <1>6, OthersCount
<1> HIDE DEF d2
<1>8. d3.markets = d2.markets /\ d3.crowdsourcers = d2.crowdsourcers
  BY <1>7 DEF Tables
<1>9. d4.markets = d3.markets /\ d4.crowdsourcers = d3.crowdsourcers
  BY <1>7 DEF UpdateMarketState, Tables
<1>10. d5.markets = d4.markets /\ d5.crowdsourcers = d4.crowdsourcers
  BY <1>7 DEF RevertPayouts, UpdateMarketState, Tables
<1>11. /\ d6.crowdsourcers = [c \in DOMAIN d5.crowdsourcers |->
            IF MarketOf[c] \in others THEN [d5.crowdsourcers[c] EXCEPT !.completed = 0]
            ELSE d5.crowdsourcers[c]]
       /\ d6.markets = [x \in DOMAIN d5.markets |-> IF x \in others THEN zero[x] ELSE d5.markets[x]]
  BY <1>2, <1>7 DEF RevertPayouts, UpdateMarketState, Tables
<1>12. m \notin others
  OBVIOUS
<1> HIDE DEF d3, d4, d5, others
<1>13. d5.crowdsourcers = d.crowdsourcers
  BY <1>5, <1>6, <1>7, <1>8, <1>9, <1>10
<1>14. ASSUME NEW c \in DOMAIN d.crowdsourcers
       PROVE  /\ d6.crowdsourcers[c].feeWindow = d.crowdsourcers[c].feeWindow
              /\ MarketOf[c] = m => d6.crowdsourcers[c].completed = d.crowdsourcers[c].completed
  <2>1. PICK r \in CrowdsourcerRow : r = d.crowdsourcers[c]
    BY CrowdsourcerRows
  <2>2. [r EXCEPT !.completed = 0].feeWindow = r.feeWindow
    BY DEF CrowdsourcerRow
  <2> QED
    BY <1>11, <1>12, <1>13, <2>1, <2>2
<1>15. d6.markets[m].disputeRounds = d.markets[m].disputeRounds
  BY <1>5, <1>6, <1>7, <1>8, <1>9, <1>10, <1>11, <1>12
<1>16. DOMAIN d6.crowdsourcers = DOMAIN d.crowdsourcers
  BY <1>11, <1>13
<1> QED
  BY <1>1, <1>14, <1>15, <1>16

LEMMA ForkRemovalKeeps ==
  ASSUME NEW d \in Tables, NEW u, NEW m
  PROVE  KeepsCasting(d, UniverseForkedRemoval(d, u, m))
<1> DEFINE e == UniverseForkedRemoval(d, u, m)
<1>1. e.crowdsourcers = d.crowdsourcers
  BY DEF UniverseForkedRemoval, CountOthers, Tables
<1> QED
  BY <1>1, SameCrowd

-----------------------------------------------------------------------------
(* The invariant, and what its steps have in common. *)

RInv == Rounds(chain) /\ Told(db, chain, unwound, TimeAt(chain, Len(chain)))

\* The round of a reported market has a window.
LEMMA RoundIsWindow ==
  ASSUME MarketAssumption, NEW s \in Seq(Block), Sane(s), NEW m \in Market, ReportedIn(s, m)
  PROVE  RoundIn(s, m) \in Window
<1>1. PICK n \in Nat : n = Len(s)
  OBVIOUS
<1>2. Latest(s, m) \in 1..n
  BY <1>1, LatestOfReported DEF LatestStart
<1>3. s[Latest(s, m)] \in Block
  BY <1>1, <1>2
<1>4. PICK a \in Nat : a = s[Latest(s, m)].time
  BY <1>3 DEF Block
<1>5. a + Duration \in Nat
  BY DEF MarketAssumption
<1>6. HomeIn(s, m) \in Universe
  BY DEF HomeIn, MarketAssumption
<1>7. WindowAt(HomeIn(s, m), a + Duration) \in Window
  BY <1>5, <1>6, WindowIsWindow
<1> QED
  BY <1>4, <1>7 DEF RoundIn

LEMMA FiledWindow ==
  ASSUME MarketAssumption, NEW s \in Seq(Block), History(s), Rounds(s),
         NEW c \in Crowdsourcer, NEW w, FiledBy(s, c, w)
  PROVE  w \in Window /\ Present(s, w)
<1>1. PICK l \in Nat : l = Len(s)
  OBVIOUS
<1>2. PICK n \in 0..l - 1 : /\ s[n + 1].log = CrowdLog("DisputeCrowdsourcerCreated", c)
                            /\ w = RoundIn(SubSeq(s, 1, n), MarketOf[c])
  BY <1>1 DEF FiledBy
<1>3. n \in 0..l /\ n < l
  BY <1>2
<1>4. PICK p \in Seq(Block) : p = SubSeq(s, 1, n) /\ Len(p) = n /\ \A i \in 1..n : p[i] = s[i]
  BY <1>1, <1>3, Prefix
<1>5. Sane(p) /\ LegalAfter(p, s[n + 1].log) /\ RoundsPresent(p)
  BY <1>1, <1>3, <1>4 DEF History, Rounds
<1>6. MarketOf[c] \in Market
  BY DEF MarketAssumption
<1>7. ReportedIn(p, MarketOf[c])
  BY <1>2, <1>5 DEF LegalAfter
<1>8. w \in Window /\ Present(p, w)
  BY <1>2, <1>4, <1>5, <1>6, <1>7, RoundIsWindow DEF RoundsPresent
<1>9. In(p, WindowLog(w)) => In(s, WindowLog(w))
  <2>1. \A i \in 1..n : i \in 1..l
    BY <1>3
  <2> QED
    BY <1>1, <1>4, <2>1 DEF In
<1> QED
  BY <1>8, <1>9 DEF Present

LEMMA TimeIsTime ==
  ASSUME NEW s \in Seq(Block)
  PROVE  TimeAt(s, Len(s)) \in Nat
<1>1. Len(s) # 0 => s[Len(s)] \in Block
  OBVIOUS
<1> QED
  BY <1>1 DEF TimeAt, Block

\* Unless a block whose time had moved the tables was taken back, the window of a
\* crowdsourcer is PAST if it has ended at the time of the last block.
LEMMA PastAtHead ==
  ASSUME MarketAssumption, IInv, "time" \notin unwound, NEW w \in Window, Present(chain, w)
  PROVE  w \in DOMAIN db.windows /\ RightAt(db.windows[w], w, TimeAt(chain, Len(chain)))
<1>1. PICK n \in Nat : n = Len(chain)
  BY DEF IInv
<1>2. chain \in Seq(Block) /\ WindowsFollow(db, chain) /\ WindowsTrue(db.windows, chain)
  BY DEF IInv, Follows
<1>3. SubSeq(chain, 1, n) = chain /\ n \in 0..n /\ ~(\E j \in n + 1..n : TRUE)
  BY <1>1, <1>2, WholePrefix
<1>4. w \in DOMAIN db.windows
  BY <1>2 DEF WindowsFollow, Present
<1>5. ExistsAt(chain, n, w)
  BY <1>3 DEF ExistsAt, Present
<1> QED
  BY <1>1, <1>2, <1>3, <1>4, <1>5 DEF WindowsTrue

LEMMA FiledRow ==
  ASSUME MarketAssumption, IInv, Rounds(chain), Filed(db, chain), NEW c \in DOMAIN db.crowdsourcers
  PROVE  /\ db.crowdsourcers[c].feeWindow \in Window
         /\ Present(chain, db.crowdsourcers[c].feeWindow)
<1>1. c \in Crowdsourcer
  BY CastRows DEF IInv
<1>2. FiledBy(chain, c, db.crowdsourcers[c].feeWindow)
  BY DEF Filed
<1> QED
  BY <1>1, <1>2, FiledWindow DEF IInv

\* The time of a block fails the crowdsourcers whose window has ended.
LEMMA TimeTold ==
  ASSUME MarketAssumption, RunAssumption, IInv, RInv, NEW t \in Times, Mining(t)
  PROVE  Told(AdvanceTime(db, t), chain, unwound, t)
<1> DEFINE e == AdvanceTime(db, t)
           now == TimeAt(chain, Len(chain))
<1>1. /\ chain \in Seq(Block) /\ db \in Tables /\ t \in Nat /\ now \in Nat /\ now <= t
      /\ IsFiniteSet(DOMAIN db.windows)
  <2>1. chain \in Seq(Block) /\ db \in Tables /\ t \in Nat /\ IsFiniteSet(DOMAIN db.windows)
    BY DEF IInv, Follows, WindowsFollow, RunAssumption
  <2>2. now \in Nat /\ Now = now /\ t >= Now
    BY <2>1, TimeIsTime, TimeOfHead DEF Mining
  <2> QED
    BY <2>1, <2>2
<1>2. e.crowdsourcers = Settled(db, t) /\ e.markets = db.markets
  BY <1>1, TimeAdvances
<1>3. None # 1 /\ None # 0 /\ 0 # 1
  BY DEF MarketAssumption
<1>4. Rounds(chain) /\ Told(db, chain, unwound, now)
  BY DEF RInv
<1> HIDE DEF e, now
<1>5. DOMAIN e.crowdsourcers = DOMAIN db.crowdsourcers
  BY <1>2 DEF Settled
<1>6. ASSUME NEW c \in DOMAIN db.crowdsourcers
      PROVE  LET old == db.crowdsourcers[c]
                 new == e.crowdsourcers[c]
             IN  /\ new.feeWindow = old.feeWindow /\ new.disavowed = old.disavowed
                 /\ new.completed = IF old.completed = None /\ old.feeWindow \in Expired(db, t)
                                    THEN 0 ELSE old.completed
  <2>1. PICK r \in CrowdsourcerRow : r = db.crowdsourcers[c]
    BY <1>1, CrowdsourcerRows
  <2>2. LET q == [r EXCEPT !.completed = 0]
        IN  q.feeWindow = r.feeWindow /\ q.disavowed = r.disavowed /\ q.completed = 0
    BY DEF CrowdsourcerRow
  <2>3. e.crowdsourcers[c] = IF r.completed = None /\ r.feeWindow \in Expired(db, t)
                             THEN [r EXCEPT !.completed = 0] ELSE r
    BY <1>2, <2>1 DEF Settled
  <2> QED
    BY <2>1, <2>2, <2>3
<1>7. \A m : Winners(e, m) = Winners(db, m)
  BY <1>3, <1>5, <1>6 DEF Winners, CrowdsourcersOf
<1>8. Filed(db, chain) => Filed(e, chain)
  BY <1>5, <1>6 DEF Filed
<1>9. Won(db, chain) => Won(e, chain)
  BY <1>3, <1>5, <1>6 DEF Won
<1>10. Counted(db, chain) => Counted(e, chain)
  BY <1>2, <1>7 DEF Counted
<1>11. ASSUME "time" \notin unwound, SettledRight(db, chain, now)
       PROVE  SettledRight(e, chain, t)
  <2>1. SUFFICES ASSUME NEW c \in DOMAIN db.crowdsourcers
                 PROVE  SettledAt(e.crowdsourcers[c], Did(chain, "DisputeCrowdsourcerCompleted", c),
                                  IsOpen(chain, c), t)
    BY <1>5 DEF SettledRight
  <2>2. PICK w : w = db.crowdsourcers[c].feeWindow
    OBVIOUS
  <2>3. w \in Window /\ Present(chain, w)
    BY <1>4, <1>11, <2>2, FiledRow DEF Told
  <2>4. w \in DOMAIN db.windows /\ RightAt(db.windows[w], w, now)
    BY <1>11, <2>3, PastAtHead DEF now
  <2>5. PICK z \in Nat : z = EndOf(w)
    BY <2>3, BoundsOfWindow
  <2>6. w \in Expired(db, t) <=> now <= z /\ z < t
    BY <1>1, <2>4, <2>5 DEF Expired, RightAt
  <2>7. SettledAt(db.crowdsourcers[c], Did(chain, "DisputeCrowdsourcerCompleted", c),
                  IsOpen(chain, c), now)
    BY <1>11 DEF SettledRight
  <2>8. (now <= z /\ ~(z < t)) <=> t <= z
    BY <1>1, <2>5
  <2>9. now <= z \/ ~(t <= z)
    BY <1>1, <2>5
  <2> QED
    BY <1>3, <1>6, <2>2, <2>5, <2>6, <2>7, <2>8, <2>9 DEF SettledAt
<1>12. Told(e, chain, unwound, t)
  BY <1>4, <1>8, <1>9, <1>10, <1>11 DEF Told
<1> QED
  BY <1>12 DEF e

\* What holds of less taken back holds of more.
LEMMA ToldOfMore ==
  ASSUME NEW d, NEW s, NEW u, NEW v, u \subseteq v, NEW time, Told(d, s, u, time)
  PROVE  Told(d, s, v, time)
<1>1. \A S : v \cap S = {} => u \cap S = {}
  OBVIOUS
<1>2. "time" \notin v => "time" \notin u
  BY SMTT(20)
<1> QED
  BY <1>1, <1>2 DEF Told

\* A block whose time had moved no row may be taken back: the windows that have
\* ended at its time had ended at the time of the block before it.
LEMMA TimeBack ==
  ASSUME MarketAssumption, IInv, Rounds(chain), chain # <<>>, ~Final(chain).moved, "time" \notin unwound,
         NEW e, DOMAIN e.crowdsourcers \subseteq Crowdsourcer,
         LET s == SubSeq(chain, 1, Len(chain) - 1)
         IN  Filed(e, s) /\ SettledRight(e, s, Final(chain).time)
  PROVE  LET s == SubSeq(chain, 1, Len(chain) - 1)
         IN  SettledRight(e, s, TimeAt(s, Len(s)))
<1> DEFINE s == SubSeq(chain, 1, Len(chain) - 1)
           b == Final(chain)
<1>1. PICK n \in Nat : n = Len(chain)
  BY DEF IInv
<1>2. /\ s \in Seq(Block) /\ b \in Block /\ chain = Append(s, b) /\ Len(s) = n - 1 /\ n # 0
      /\ History(s)
  BY <1>1, LastBlock
<1>3. Rounds(s)
  <2>1. Rounds(Append(s, b))
    BY <1>2
  <2> QED
    BY <1>2, <2>1, RoundsRetract
<1>4. Filed(e, s) /\ SettledRight(e, s, b.time) /\ ~b.moved
  OBVIOUS
<1>5. chain[n] = b /\ TimeAt(chain, n) = b.time /\ s = SubSeq(chain, 1, n - 1)
  BY <1>1, <1>2 DEF Final, TimeAt
<1>6. TimeAt(chain, n - 1) = TimeAt(s, n - 1)
  <2>1. n - 1 # 0 => chain[n - 1] = s[n - 1]
    BY <1>1, <1>2, Appended
  <2> QED
    BY <2>1 DEF TimeAt
<1>7. TimeAt(s, n - 1) \in Nat /\ b.time \in Nat
  BY <1>2, TimeIsTime DEF Block
<1> HIDE DEF s, b
<1>8. ASSUME NEW w \in Window, Present(s, w)
      PROVE  EndOf(w) < b.time <=> EndOf(w) < TimeAt(s, n - 1)
  <2>1. Present(chain, w)
    BY <1>2, <1>8, PresentGrows
  <2>2. w \in DOMAIN db.windows /\ RightAt(db.windows[w], w, b.time)
    BY <1>1, <1>5, <2>1, PastAtHead
  <2>3. n - 1 \in 0..n /\ \A j \in (n - 1) + 1..n : j = n
    BY <1>2
  <2>4. \A j \in (n - 1) + 1..Len(chain) : ~chain[j].moved
    BY <1>1, <1>4, <1>5, <2>3
  <2>5. ExistsAt(chain, n - 1, w)
    BY <1>5, <1>8 DEF ExistsAt, Present
  <2>6. WindowsTrue(db.windows, chain)
    BY DEF IInv
  <2>7. RightAt(db.windows[w], w, TimeAt(chain, n - 1))
    BY <1>1, <2>2, <2>3, <2>4, <2>5, <2>6 DEF WindowsTrue
  <2> QED
    BY <1>6, <2>2, <2>7 DEF RightAt
<1>9. SettledRight(e, s, TimeAt(s, n - 1))
  <2>1. SUFFICES ASSUME NEW c \in DOMAIN e.crowdsourcers
                 PROVE  SettledAt(e.crowdsourcers[c], Did(s, "DisputeCrowdsourcerCompleted", c),
                                  IsOpen(s, c), TimeAt(s, n - 1))
    BY DEF SettledRight
  <2>2. PICK w : w = e.crowdsourcers[c].feeWindow
    OBVIOUS
  <2>3. w \in Window /\ Present(s, w)
    <3>1. c \in Crowdsourcer /\ FiledBy(s, c, w)
      BY <1>4, <2>2 DEF Filed
    <3> QED
      BY <1>2, <1>3, <3>1, FiledWindow
  <2>4. SettledAt(e.crowdsourcers[c], Did(s, "DisputeCrowdsourcerCompleted", c), IsOpen(s, c), b.time)
    BY <1>4 DEF SettledRight
  <2>5. PICK z \in Nat : z = EndOf(w)
    BY <2>3, BoundsOfWindow
  <2>6. b.time <= z <=> TimeAt(s, n - 1) <= z
    BY <1>7, <1>8, <2>3, <2>5
  <2> QED
    BY <2>2, <2>4, <2>5, <2>6 DEF SettledAt
<1> QED
  BY <1>2, <1>9 DEF s

LEMMA TimesBefore ==
  ASSUME NEW s \in Seq(Block), Rounds(s), NEW k \in 1..Len(s)
  PROVE  s[k].time <= TimeAt(s, Len(s))
<1>1. PICK n \in Nat : n = Len(s)
  OBVIOUS
<1>2. s[n] \in Block /\ n # 0 /\ TimeAt(s, n) = s[n].time
  BY <1>1 DEF TimeAt
<1>3. CASE k = n
  BY <1>1, <1>2, <1>3 DEF Block
<1>4. CASE k \in 1..n - 1
  <2>1. n - 1 \in 0..n /\ n - 1 < n /\ (n - 1) + 1 = n
    BY <1>1, <1>2
  <2>2. LegalInRound(SubSeq(s, 1, n - 1), s[n].time, s[n].log)
    BY <1>1, <2>1 DEF Rounds
  <2>3. Len(SubSeq(s, 1, n - 1)) = n - 1 /\ SubSeq(s, 1, n - 1)[k] = s[k]
    BY <1>1, <1>4, <2>1, Prefix
  <2> QED
    BY <1>1, <1>2, <1>4, <2>2, <2>3 DEF LegalInRound
<1> QED
  BY <1>1, <1>3, <1>4

LEMMA RExtended ==
  ASSUME MarketAssumption, RunAssumption, IInv, RInv, NEW t \in Times, NEW log \in Logs, Mining(t),
         NEW e, Extend(t, log, e), LegalInRound(chain, t, log),
         \A m \in Market : StartsRound(log, m) =>
           Present(chain, WindowAt(HomeIn(Append(chain, Added(t, log)), m), t + Duration)),
         Told(e, Append(chain, Added(t, log)), unwound, t)
  PROVE  RInv'
<1> DEFINE b == Added(t, log)
<1>1. b \in Block /\ b.time = t /\ b.log = log
  BY AddedBlock
<1>2. chain' = Append(chain, b) /\ db' = e /\ unwound' = unwound
  BY DEF Extend, Added
<1>3. chain \in Seq(Block) /\ Rounds(chain) /\ Sane(chain)
  BY WholeChain DEF IInv, RInv
<1> HIDE DEF b
<1>4. RoundsPresent(chain)
  <2>1. Len(chain) \in 0..Len(chain) /\ SubSeq(chain, 1, Len(chain)) = chain
    BY <1>3, WholePrefix
  <2> QED
    BY <1>3, <2>1 DEF Rounds
<1>5. RoundsPresent(Append(chain, b))
  <2>1. \A m \in Market : StartsRound(b.log, m) =>
          Present(chain, WindowAt(HomeIn(Append(chain, b), m), b.time + Duration))
    BY <1>1 DEF b
  <2> QED
    BY <1>1, <1>3, <1>4, <2>1, PresentExtends
<1>6. Rounds(Append(chain, b))
  BY <1>1, <1>3, <1>5, RoundsExtend
<1>7. TimeAt(chain', Len(chain')) = t
  <2>1. Len(chain') = Len(chain) + 1 /\ chain'[Len(chain) + 1] = b /\ Len(chain) + 1 # 0
    BY <1>1, <1>2, <1>3, Appended
  <2> QED
    BY <1>1, <2>1 DEF TimeAt
<1>8. Told(db', chain', unwound', TimeAt(chain', Len(chain')))
  BY <1>2, <1>7 DEF b
<1> QED
  BY <1>2, <1>6, <1>8 DEF RInv

LEMMA RRetracted ==
  ASSUME MarketAssumption, RunAssumption, IInv, RInv, chain # <<>>, NEW e \in Tables, Retract(e),
         Told(e, SubSeq(chain, 1, Len(chain) - 1), unwound', Final(chain).time)
  PROVE  RInv'
<1> DEFINE s == SubSeq(chain, 1, Len(chain) - 1)
<1>1. s \in Seq(Block) /\ Final(chain) \in Block /\ chain = Append(s, Final(chain))
  BY LastBlock
<1>2. /\ chain' = s /\ db' = e
      /\ unwound \subseteq unwound' /\ (Final(chain).moved => "time" \in unwound')
  BY DEF Retract
<1>3. Rounds(chain) /\ Told(e, s, unwound', Final(chain).time)
  BY DEF RInv
<1>4. Rounds(s)
  <2>1. Rounds(Append(s, Final(chain)))
    BY <1>1, <1>3
  <2> QED
    BY <1>1, <2>1, RoundsRetract
<1>5. ASSUME "time" \notin unwound', Filed(e, s), SettledRight(e, s, Final(chain).time)
      PROVE  SettledRight(e, s, TimeAt(s, Len(s)))
  <2>1. ~Final(chain).moved /\ "time" \notin unwound
    BY <1>2, <1>5
  <2>2. DOMAIN e.crowdsourcers \subseteq Crowdsourcer
    BY CastRows
  <2> QED
    BY <1>3, <1>5, <2>1, <2>2, TimeBack
<1> HIDE DEF s
<1>6. Told(e, s, unwound', TimeAt(s, Len(s)))
  <2>1. \A S : unwound' \cap ({"time"} \cup S) = {} => "time" \notin unwound'
    OBVIOUS
  <2> QED
    BY <1>3, <1>5, <2>1 DEF Told
<1> QED
  BY <1>2, <1>4, <1>6 DEF RInv

\* A log that is quiet is added, or taken back.
LEMMA QuietAdds ==
  ASSUME MarketAssumption, RunAssumption, IInv, RInv, IInv', NEW t \in Times, NEW log \in Logs,
         Mining(t), Quiet(log), NEW e, Extend(t, log, e), LegalInRound(chain, t, log),
         \A m \in Market : StartsRound(log, m) =>
           Present(chain, WindowAt(HomeIn(Append(chain, Added(t, log)), m), t + Duration)),
         "time" \notin unwound => KeepsCasting(AdvanceTime(db, t), e),
         KeepsCounts(AdvanceTime(db, t), e),
         \/ ForkedIn(chain)
         \/ KeepsDisavowed(AdvanceTime(db, t), e) /\ \A m \in Market : ~StartsRound(log, m)
         \/ "time" \in unwound
  PROVE  RInv'
<1> DEFINE b == Added(t, log)
           found == AdvanceTime(db, t)
<1>1. b \in Block /\ b.log = log /\ found \in Tables /\ Follows(found, chain)
  BY AddedBlock
<1>2. chain' = Append(chain, b) /\ db' = e
  BY DEF Extend, Added
<1>3. chain \in Seq(Block) /\ Sane(chain) /\ db' \in Tables /\ Follows(db', chain')
  BY WholeChain DEF IInv
<1>4. Told(found, chain, unwound, t)
  BY TimeTold
<1>5. Quiet(b.log)
  BY <1>1
<1> HIDE DEF b, found
<1>6. ASSUME NEW m \in DOMAIN e.markets \ DOMAIN found.markets
      PROVE  ~ReportedIn(chain, m)
  <2>1. m \in Market
    BY <1>2, <1>3, MarketRows
  <2>2. ~Was(chain, "MarketCreated", m)
    BY <1>1, <2>1 DEF Follows, MarketsFollow
  <2> QED
    BY <1>3, <2>1, <2>2 DEF Sane, SaneMarket
<1>7. Told(e, Append(chain, b), unwound, t)
  <2>1. CASE "time" \in unwound
    <3>1. \A S : unwound \cap ({"time"} \cup S) # {}
      BY <2>1
    <3> QED
      BY <2>1, <3>1 DEF Told
  <2>2. CASE "time" \notin unwound
    <3>1. KeepsCasting(found, e) /\ KeepsCounts(found, e)
      BY <2>2 DEF found
    <3>2. \/ ForkedIn(chain)
          \/ KeepsDisavowed(found, e) /\ \A m \in Market : ~StartsRound(b.log, m)
      BY <1>1, <2>2 DEF found
    <3> QED
      BY <1>1, <1>3, <1>4, <1>5, <1>6, <3>1, <3>2, QuietTold
  <2> QED
    BY <2>1, <2>2
<1> QED
  BY <1>7, RExtended DEF b

LEMMA QuietRemoves ==
  ASSUME MarketAssumption, RunAssumption, IInv, RInv, IInv', chain # <<>>, Quiet(Final(chain).log),
         NEW e, Retract(e), KeepsCasting(db, e), KeepsCounts(db, e),
         \/ ForkedIn(SubSeq(chain, 1, Len(chain) - 1))
         \/ KeepsDisavowed(db, e) /\ \A m \in Market : ~StartsRound(Final(chain).log, m)
  PROVE  RInv'
<1> DEFINE s == SubSeq(chain, 1, Len(chain) - 1)
           b == Final(chain)
<1>1. /\ s \in Seq(Block) /\ b \in Block /\ chain = Append(s, b) /\ Len(s) = Len(chain) - 1
      /\ Len(chain) \in Nat \ {0}
  BY LastBlock
<1>2. chain' = s /\ db' = e /\ unwound \subseteq unwound'
  BY DEF Retract
<1>3. db \in Tables /\ Follows(db, chain) /\ e \in Tables /\ Follows(e, s)
  BY <1>2 DEF IInv
<1>4. Quiet(b.log) /\ (\/ ForkedIn(s)
                       \/ KeepsDisavowed(db, e) /\ \A m \in Market : ~StartsRound(b.log, m))
  OBVIOUS
<1>5. Told(db, chain, unwound, b.time)
  <2>1. TimeAt(chain, Len(chain)) = b.time
    BY <1>1 DEF TimeAt, Final
  <2> QED
    BY <2>1 DEF RInv
<1> HIDE DEF s, b
<1>6. Told(db, Append(s, b), unwound', b.time)
  BY <1>1, <1>2, <1>5, ToldOfMore
<1>7. DOMAIN e.markets \ DOMAIN db.markets = {}
  <2>1. SUFFICES ASSUME NEW m \in DOMAIN e.markets PROVE m \in DOMAIN db.markets
    OBVIOUS
  <2>2. m \in Market
    BY <1>3, MarketRows
  <2>3. Was(s, "MarketCreated", m)
    BY <1>3, <2>2 DEF Follows, MarketsFollow
  <2>4. Was(chain, "MarketCreated", m)
    BY <1>1, <2>3, Grows
  <2> QED
    BY <1>3, <2>2, <2>4 DEF Follows, MarketsFollow
<1>8. Told(e, s, unwound', b.time)
  <2>1. \A m \in DOMAIN e.markets \ DOMAIN db.markets : ~ReportedIn(s, m)
    BY <1>7
  <2>2. KeepsCasting(db, e) /\ KeepsCounts(db, e)
    OBVIOUS
  <2> QED
    BY <1>1, <1>3, <1>4, <1>6, <2>1, <2>2, QuietTold
<1> QED
  BY <1>3, <1>8, RRetracted DEF s, b

LEMMA NeverEarlier ==
  ASSUME IInv, RInv, NEW t \in Times, t \in Nat, Mining(t)
  PROVE  \A k \in 1..Len(chain) : chain[k].time <= t
<1>3. PICK n \in Nat : n = Len(chain)
  BY DEF IInv
<1>4. chain \in Seq(Block) /\ Rounds(chain) /\ TimeAt(chain, n) \in Nat /\ TimeAt(chain, n) <= t
  <2>1. chain \in Seq(Block) /\ Rounds(chain)
    BY DEF IInv, RInv
  <2> QED
    BY <1>3, <2>1, TimeIsTime, TimeOfHead DEF Mining
<1>5. ASSUME NEW k \in 1..n PROVE chain[k].time <= t
  <2>1. chain[k].time <= TimeAt(chain, n)
    BY <1>3, <1>4, TimesBefore
  <2>2. chain[k] \in Block
    BY <1>3, <1>4
  <2>3. chain[k].time \in Nat
    BY <2>2 DEF Block
  <2> QED
    BY <1>4, <2>1, <2>3
<1> QED
  BY <1>3, <1>5

\* A log that is not of a crowdsourcer's or a participant's may come at any time.
LEMMA LegalAtAnyTime ==
  ASSUME IInv, RInv, NEW t \in Times, t \in Nat, Mining(t), NEW log,
         log.kind \notin CrowdKinds \cup {"ReportingParticipantDisavowed"}
  PROVE  LegalInRound(chain, t, log)
<1>1. \A c \in Crowdsourcer, kind \in CrowdKinds : log # CrowdLog(kind, c)
  BY DEF CrowdLog
<1>2. \A x : log # ParticipantLog(x)
  BY DEF ParticipantLog
<1>3. \A k \in 1..Len(chain) : chain[k].time <= t
  BY NeverEarlier
<1>4. CrowdKinds \ {"DisputeCrowdsourcerCreated"} \subseteq CrowdKinds
  OBVIOUS
<1> QED
  BY <1>1, <1>2, <1>3, <1>4 DEF LegalInRound

-----------------------------------------------------------------------------
(* What the guards say of the rounds. *)

LEMMA HomeSeen == \A m : HomeOf(m) = HomeIn(chain, m)
BY Seen DEF HomeOf, HomeIn

LEMMA ExistsSeen == \A w : Exists(w) <=> Present(chain, w)
BY Seen DEF Exists, Present

LEMMA RoundSeen ==
  ASSUME IInv, NEW m \in Market, Reported(m)
  PROVE  /\ LatestStart(chain, RoundStart(m), m) /\ RoundStart(m) \in 1..Len(chain)
         /\ RoundWindow(m) = RoundIn(chain, m)
<1>1. PICK n \in Nat : n = Len(chain)
  BY DEF IInv
<1>2. PICK r \in 1..n : /\ r = RoundStart(m) /\ StartsRound(chain[r].log, m)
                        /\ \A j \in 1..n : StartsRound(chain[j].log, m) => j <= r
  BY <1>1, RoundStarted
<1>3. \A k \in r + 1..n : k \in 1..n /\ ~(k <= r)
  OBVIOUS
<1>4. LatestStart(chain, r, m)
  BY <1>1, <1>2, <1>3 DEF LatestStart
<1>5. Latest(chain, m) = r
  BY <1>4, LatestIs DEF IInv
<1>6. RoundWindow(m) = RoundIn(chain, m)
  BY <1>2, <1>5, HomeSeen DEF RoundWindow, RoundIn
<1> QED
  BY <1>1, <1>2, <1>4, <1>6

LEMMA OpenSeen ==
  ASSUME IInv, NEW c \in Crowdsourcer, MarketOf[c] \in Market, Reported(MarketOf[c])
  PROVE  ThisRound("DisputeCrowdsourcerCreated", c) <=> IsOpen(chain, c)
<1>1. PICK n \in Nat : n = Len(chain)
  BY DEF IInv
<1>2. PICK r \in 1..n : r = RoundStart(MarketOf[c])
  BY <1>1, RoundSeen
<1>3. /\ StartsRound(chain[r].log, MarketOf[c])
      /\ \A k \in r + 1..n : ~StartsRound(chain[k].log, MarketOf[c])
  BY <1>1, <1>2, RoundSeen DEF LatestStart
<1>4. ASSUME NEW i \in r..n, chain[i].log = CrowdLog("DisputeCrowdsourcerCreated", c)
      PROVE  IsOpen(chain, c)
  <2>1. i \in 1..n /\ \A k \in i + 1..n : k \in r + 1..n
    OBVIOUS
  <2> QED
    BY <1>1, <1>3, <1>4, <2>1 DEF IsOpen
<1>5. ASSUME NEW j \in 1..n, chain[j].log = CrowdLog("DisputeCrowdsourcerCreated", c),
             \A k \in j + 1..n : ~StartsRound(chain[k].log, MarketOf[c])
      PROVE  j \in r..n
  <2>1. r \notin j + 1..n
    BY <1>3, <1>5
  <2> QED
    BY <2>1
<1> QED
  BY <1>1, <1>2, <1>4, <1>5 DEF ThisRound, IsOpen

\* A crowdsourcer with a contribution of this round is one of this round.
LEMMA ContributionSeen ==
  ASSUME IInv, Rounds(chain), NEW c \in Crowdsourcer, MarketOf[c] \in Market, Reported(MarketOf[c]),
         ThisRound("DisputeCrowdsourcerContribution", c)
  PROVE  IsOpen(chain, c)
<1>1. PICK n \in Nat : n = Len(chain)
  BY DEF IInv
<1>2. PICK r \in 1..n : r = RoundStart(MarketOf[c])
  BY <1>1, RoundSeen
<1>3. \A k \in r + 1..n : ~StartsRound(chain[k].log, MarketOf[c])
  BY <1>1, <1>2, RoundSeen DEF LatestStart
<1>4. PICK i \in r..n : chain[i].log = CrowdLog("DisputeCrowdsourcerContribution", c)
  BY <1>1, <1>2 DEF ThisRound
<1>5. PICK p \in Seq(Block) : p = SubSeq(chain, 1, i - 1) /\ Len(p) = i - 1
                              /\ \A j \in 1..i - 1 : p[j] = chain[j]
  <2>1. i - 1 \in 0..n
    OBVIOUS
  <2> QED
    BY <1>1, <2>1, Prefix DEF IInv
<1>6. IsOpen(p, c)
  <2>1. i - 1 \in 0..n /\ i - 1 < n /\ (i - 1) + 1 = i
    OBVIOUS
  <2>2. LegalInRound(p, chain[i].time, chain[i].log)
    BY <1>1, <1>5, <2>1 DEF Rounds
  <2>3. "DisputeCrowdsourcerContribution" \in CrowdKinds \ {"DisputeCrowdsourcerCreated"}
    BY DEF CrowdKinds
  <2> QED
    BY <1>4, <2>2, <2>3 DEF LegalInRound
<1>7. PICK j \in 1..i - 1 : /\ chain[j].log = CrowdLog("DisputeCrowdsourcerCreated", c)
                            /\ \A k \in j + 1..i - 1 : ~StartsRound(chain[k].log, MarketOf[c])
  <2>1. PICK j \in 1..i - 1 : /\ p[j].log = CrowdLog("DisputeCrowdsourcerCreated", c)
                              /\ \A k \in j + 1..i - 1 : ~StartsRound(p[k].log, MarketOf[c])
    BY <1>5, <1>6 DEF IsOpen
  <2>2. \A k \in j + 1..i - 1 : k \in 1..i - 1
    OBVIOUS
  <2> QED
    BY <1>5, <2>1, <2>2
<1>8. ~StartsRound(chain[i].log, MarketOf[c])
  BY <1>4 DEF StartsRound, CrowdLog
<1>9. \A k \in j + 1..n : k \in j + 1..i - 1 \/ k = i \/ k \in r + 1..n
  OBVIOUS
<1>10. j \in 1..n
  OBVIOUS
<1> QED
  BY <1>1, <1>3, <1>7, <1>8, <1>9, <1>10 DEF IsOpen

\* A crowdsourcer's log comes in the window of its market's round.
LEMMA LegalInDispute ==
  ASSUME IInv, RInv, NEW t \in Times, t \in Nat, NEW c \in Crowdsourcer, Disputable(t, c),
         MarketOf[c] \in Market, NEW kind \in CrowdKinds,
         kind = "DisputeCrowdsourcerCreated" \/ IsOpen(chain, c)
  PROVE  LegalInRound(chain, t, CrowdLog(kind, c))
<1> DEFINE log == CrowdLog(kind, c)
<1>1. Mining(t) /\ Reported(MarketOf[c]) /\ InRound(MarketOf[c], t)
  BY DEF Disputable
<1>2. LET w == RoundIn(chain, MarketOf[c]) IN StartOf(w) < t /\ t < EndOf(w)
  BY <1>1, RoundSeen DEF InRound
<1>3. \A k \in 1..Len(chain) : chain[k].time <= t
  BY <1>1, NeverEarlier
<1>4. \A x, k : log = CrowdLog(k, x) => x = c /\ k = kind
  BY DEF CrowdLog
<1>5. \A x : log # ParticipantLog(x)
  BY DEF CrowdLog, ParticipantLog, CrowdKinds
<1> HIDE DEF log
<1>6. LegalInRound(chain, t, log)
  BY <1>2, <1>3, <1>4, <1>5 DEF LegalInRound
<1> QED
  BY <1>6 DEF log

LEMMA LegalOfParticipant ==
  ASSUME IInv, RInv, NEW t \in Times, t \in Nat, Mining(t), ForkedIn(chain), NEW x
  PROVE  LegalInRound(chain, t, ParticipantLog(x))
<1>1. \A k \in 1..Len(chain) : chain[k].time <= t
  BY NeverEarlier
<1>2. \A c \in Crowdsourcer, kind \in CrowdKinds : ParticipantLog(x) # CrowdLog(kind, c)
  BY DEF CrowdLog, ParticipantLog, CrowdKinds
<1>3. CrowdKinds \ {"DisputeCrowdsourcerCreated"} \subseteq CrowdKinds
  OBVIOUS
<1> QED
  BY <1>1, <1>2, <1>3 DEF LegalInRound

\* What a log finds.
LEMMA FoundTables ==
  ASSUME RunAssumption, IInv, NEW t \in Times
  PROVE  LET found == AdvanceTime(db, t)
         IN  /\ found \in Tables /\ Follows(found, chain) /\ t \in Nat
             /\ \A m \in Market : m \in DOMAIN found.markets <=> Was(chain, "MarketCreated", m)
             /\ \A c \in Crowdsourcer :
                  c \in DOMAIN found.crowdsourcers <=> Did(chain, "DisputeCrowdsourcerCreated", c)
<1>1. NoLog \in Logs
  BY LogsAreLogs
<1>2. AdvanceTime(db, t) \in Tables /\ Follows(AdvanceTime(db, t), chain) /\ t \in Nat
  BY <1>1, AddedBlock
<1> QED
  BY <1>2 DEF Follows, MarketsFollow, StakesFollow

-----------------------------------------------------------------------------
(* The quiet logs, added. *)

LEMMA NoLogTells ==
  ASSUME MarketAssumption, RunAssumption, IInv, RInv, IInv', NEW t \in Times, AddBlock(t)
  PROVE  RInv'
<1> DEFINE found == AdvanceTime(db, t)
           log == NoLog
           e == found
<1>1. /\ found \in Tables /\ Follows(found, chain) /\ t \in Nat
      /\ \A x \in Market : x \in DOMAIN found.markets <=> Was(chain, "MarketCreated", x)
      /\ \A x \in Crowdsourcer :
           x \in DOMAIN found.crowdsourcers <=> Did(chain, "DisputeCrowdsourcerCreated", x)
  BY FoundTables
<1>2. log \in Logs
  BY LogsAreLogs DEF Kinds, CrowdKinds
<1>3. Mining(t) /\ Extend(t, log, e)
  BY DEF AddBlock
<1>4. Quiet(log) /\ \A x \in Market : ~StartsRound(log, x)
  BY DEF Quiet, StartsRound, NoLog, MarketLog, CrowdLog, ParticipantLog
<1>5. LegalInRound(chain, t, log)
  BY <1>1, <1>3, LegalAtAnyTime DEF NoLog, MarketLog, CrowdKinds
<1> HIDE DEF found
<1>7. KeepsCasting(found, e) /\ KeepsDisavowed(found, e) /\ KeepsCounts(found, e)
  BY SameCrowd DEF KeepsCounts
<1> HIDE DEF log, e
<1>8. /\ KeepsCasting(AdvanceTime(db, t), e) /\ KeepsDisavowed(AdvanceTime(db, t), e)
      /\ KeepsCounts(AdvanceTime(db, t), e)
  BY <1>7 DEF found
<1> QED
  BY <1>2, <1>3, <1>4, <1>5, <1>8, QuietAdds

LEMMA MarketCreatedTells ==
  ASSUME MarketAssumption, RunAssumption, IInv, RInv, IInv', NEW t \in Times, NEW m \in Market, AddMarketCreated(t, m)
  PROVE  RInv'
<1> DEFINE found == AdvanceTime(db, t)
           log == MarketLog("MarketCreated", m)
           e == MarketCreated(found, m)
<1>1. /\ found \in Tables /\ Follows(found, chain) /\ t \in Nat
      /\ \A x \in Market : x \in DOMAIN found.markets <=> Was(chain, "MarketCreated", x)
      /\ \A x \in Crowdsourcer :
           x \in DOMAIN found.crowdsourcers <=> Did(chain, "DisputeCrowdsourcerCreated", x)
  BY FoundTables
<1>2. log \in Logs
  BY LogsAreLogs DEF Kinds, CrowdKinds
<1>3. Mining(t) /\ Extend(t, log, e) /\ ~Created(m)
  BY DEF AddMarketCreated
<1>4. Quiet(log) /\ \A x \in Market : ~StartsRound(log, x)
  BY DEF Quiet, StartsRound, NoLog, MarketLog, CrowdLog, ParticipantLog
<1>5. LegalInRound(chain, t, log)
  BY <1>1, <1>3, LegalAtAnyTime DEF NoLog, MarketLog, CrowdKinds
<1> HIDE DEF found
<1>6. m \notin DOMAIN found.markets
  BY <1>1, <1>3, Seen
<1>7. KeepsCasting(found, e) /\ KeepsDisavowed(found, e) /\ KeepsCounts(found, e)
  BY <1>1, <1>6, CreationKeeps
<1> HIDE DEF log, e
<1>8. /\ KeepsCasting(AdvanceTime(db, t), e) /\ KeepsDisavowed(AdvanceTime(db, t), e)
      /\ KeepsCounts(AdvanceTime(db, t), e)
  BY <1>7 DEF found
<1> QED
  BY <1>2, <1>3, <1>4, <1>5, <1>8, QuietAdds

LEMMA ContributionTells ==
  ASSUME MarketAssumption, RunAssumption, IInv, RInv, IInv', NEW t \in Times, NEW c \in Crowdsourcer,
         AddDisputeCrowdsourcerContribution(t, c)
  PROVE  RInv'
<1> DEFINE found == AdvanceTime(db, t)
           log == CrowdLog("DisputeCrowdsourcerContribution", c)
           e == DisputeCrowdsourcerContribution(found, c, Size[c])
<1>1. /\ found \in Tables /\ Follows(found, chain) /\ t \in Nat
      /\ \A x \in Market : x \in DOMAIN found.markets <=> Was(chain, "MarketCreated", x)
      /\ \A x \in Crowdsourcer :
           x \in DOMAIN found.crowdsourcers <=> Did(chain, "DisputeCrowdsourcerCreated", x)
  BY FoundTables
<1>2. log \in Logs
  BY LogsAreLogs DEF Kinds, CrowdKinds
<1>3. /\ Mining(t) /\ Extend(t, log, e) /\ Disputable(t, c)
      /\ MarketOf[c] \in Market /\ IsOpen(chain, c)
  BY Disputed, OpenSeen DEF AddDisputeCrowdsourcerContribution
<1>4. Quiet(log) /\ \A x \in Market : ~StartsRound(log, x)
  BY DEF Quiet, StartsRound, NoLog, MarketLog, CrowdLog, ParticipantLog
<1>5. LegalInRound(chain, t, log)
  <2>1. "DisputeCrowdsourcerContribution" \in CrowdKinds
    BY DEF CrowdKinds
  <2> QED
    BY <1>1, <1>3, <2>1, LegalInDispute
<1> HIDE DEF found
<1>6. c \in DOMAIN found.crowdsourcers /\ Size[c] \in Nat
  <2>1. Did(chain, "DisputeCrowdsourcerCreated", c)
    BY <1>3 DEF IsOpen, Did, In
  <2> QED
    BY <1>1, <2>1 DEF MarketAssumption
<1>7. KeepsCasting(found, e) /\ KeepsDisavowed(found, e) /\ KeepsCounts(found, e)
  BY <1>1, <1>6, ContributionKeeps
<1> HIDE DEF log, e
<1>8. /\ KeepsCasting(AdvanceTime(db, t), e) /\ KeepsDisavowed(AdvanceTime(db, t), e)
      /\ KeepsCounts(AdvanceTime(db, t), e)
  BY <1>7 DEF found
<1> QED
  BY <1>2, <1>3, <1>4, <1>5, <1>8, QuietAdds

LEMMA MarketFinalizedTells ==
  ASSUME MarketAssumption, RunAssumption, IInv, RInv, IInv', NEW t \in Times, NEW m \in Market, AddMarketFinalized(t, m)
  PROVE  RInv'
<1> DEFINE found == AdvanceTime(db, t)
           log == MarketLog("MarketFinalized", m)
           e == MarketFinalized(found, m)
<1>1. /\ found \in Tables /\ Follows(found, chain) /\ t \in Nat
      /\ \A x \in Market : x \in DOMAIN found.markets <=> Was(chain, "MarketCreated", x)
      /\ \A x \in Crowdsourcer :
           x \in DOMAIN found.crowdsourcers <=> Did(chain, "DisputeCrowdsourcerCreated", x)
  BY FoundTables
<1>2. log \in Logs
  BY LogsAreLogs DEF Kinds, CrowdKinds
<1>3. Mining(t) /\ Extend(t, log, e) /\ (m \in Forking \/ Reported(m))
  BY DEF AddMarketFinalized
<1>4. Quiet(log) /\ \A x \in Market : ~StartsRound(log, x)
  BY DEF Quiet, StartsRound, NoLog, MarketLog, CrowdLog, ParticipantLog
<1>5. LegalInRound(chain, t, log)
  BY <1>1, <1>3, LegalAtAnyTime DEF NoLog, MarketLog, CrowdKinds
<1> HIDE DEF found
<1>6. m \in DOMAIN found.markets
  <2>1. Was(chain, "UniverseForked", m) \/ ReportedIn(chain, m)
    BY <1>3, Seen
  <2> QED
    BY <1>1, <2>1, WholeChain DEF Sane, SaneMarket
<1>7. KeepsCasting(found, e) /\ KeepsDisavowed(found, e) /\ KeepsCounts(found, e)
  BY <1>1, <1>6, FinalizationKeeps
<1> HIDE DEF log, e
<1>8. /\ KeepsCasting(AdvanceTime(db, t), e) /\ KeepsDisavowed(AdvanceTime(db, t), e)
      /\ KeepsCounts(AdvanceTime(db, t), e)
  BY <1>7 DEF found
<1> QED
  BY <1>2, <1>3, <1>4, <1>5, <1>8, QuietAdds

LEMMA MarketDisavowedTells ==
  ASSUME MarketAssumption, RunAssumption, IInv, RInv, IInv', NEW t \in Times, NEW m \in Market,
         AddMarketParticipantsDisavowed(t, m)
  PROVE  RInv'
<1> DEFINE found == AdvanceTime(db, t)
           log == MarketLog("MarketParticipantsDisavowed", m)
           e == MarketParticipantsDisavowed(found, m)
<1>1. /\ found \in Tables /\ Follows(found, chain) /\ t \in Nat
      /\ \A x \in Market : x \in DOMAIN found.markets <=> Was(chain, "MarketCreated", x)
      /\ \A x \in Crowdsourcer :
           x \in DOMAIN found.crowdsourcers <=> Did(chain, "DisputeCrowdsourcerCreated", x)
  BY FoundTables
<1>2. log \in Logs
  BY LogsAreLogs DEF Kinds, CrowdKinds
<1>3. Mining(t) /\ Extend(t, log, e) /\ Created(m) /\ Forking # {}
  BY DEF AddMarketParticipantsDisavowed, InForked
<1>4. Quiet(log) /\ \A x \in Market : ~StartsRound(log, x)
  BY DEF Quiet, StartsRound, NoLog, MarketLog, CrowdLog, ParticipantLog
<1>5. LegalInRound(chain, t, log)
  BY <1>1, <1>3, LegalAtAnyTime DEF NoLog, MarketLog, CrowdKinds
<1> HIDE DEF found
<1>6. m \in DOMAIN found.markets /\ ForkedIn(chain)
  BY <1>1, <1>3, Seen
<1>7. KeepsCasting(found, e) /\ KeepsCounts(found, e) /\ ForkedIn(chain)
  <2>1. PICK n \in Int : n = -1
    OBVIOUS
  <2>2. e = DisavowalCounted(found, m, n, 1)
    <3>1. \A i \in Int : i - 1 = i + n
      BY <2>1
    <3>2. found.markets[m] \in MarketRow
      BY <1>1, <1>6, MarketRows
    <3>3. found.markets[m].needsDisavowal - 1 = found.markets[m].needsDisavowal + n
      BY <3>1, <3>2 DEF MarketRow
    <3> QED
      BY <3>3 DEF MarketParticipantsDisavowed, DisavowalCounted
  <2> QED
    BY <1>1, <1>6, <2>2, DisavowalKeeps
<1> HIDE DEF log, e
<1>8. /\ KeepsCasting(AdvanceTime(db, t), e) /\ KeepsCounts(AdvanceTime(db, t), e)
      /\ ForkedIn(chain)
  BY <1>7 DEF found
<1> QED
  BY <1>2, <1>3, <1>4, <1>5, <1>8, QuietAdds

LEMMA ParticipantDisavowedTells ==
  ASSUME MarketAssumption, RunAssumption, IInv, RInv, IInv', NEW t \in Times, NEW x \in Market \cup Crowdsourcer,
         AddReportingParticipantDisavowed(t, x)
  PROVE  RInv'
<1> DEFINE found == AdvanceTime(db, t)
           log == ParticipantLog(x)
           e == ReportingParticipantDisavowed(found, x, 1)
<1>1. /\ found \in Tables /\ Follows(found, chain) /\ t \in Nat
      /\ \A y \in Market : y \in DOMAIN found.markets <=> Was(chain, "MarketCreated", y)
      /\ \A y \in Crowdsourcer :
           y \in DOMAIN found.crowdsourcers <=> Did(chain, "DisputeCrowdsourcerCreated", y)
  BY FoundTables
<1>2. log \in Logs
  BY LogsAreLogs DEF Kinds, CrowdKinds
<1>3. /\ Mining(t) /\ Extend(t, log, e) /\ Forking # {}
      /\ (x \in Forking \/ (x \in Crowdsourcer /\ Completed(x)))
  BY DEF AddReportingParticipantDisavowed
<1>4. Quiet(log) /\ \A y \in Market : ~StartsRound(log, y)
  BY DEF Quiet, StartsRound, NoLog, MarketLog, CrowdLog, ParticipantLog
<1>5. LegalInRound(chain, t, log)
  BY <1>1, <1>3, Seen, LegalOfParticipant
<1> HIDE DEF found
<1>6. x \in DOMAIN found.reports \cup DOMAIN found.crowdsourcers
  <2>1. \/ x \in Market /\ Was(chain, "UniverseForked", x)
        \/ x \in Crowdsourcer /\ Did(chain, "DisputeCrowdsourcerCompleted", x)
    BY <1>3, Seen
  <2>2. chain \in Seq(Block) /\ Sane(chain)
    BY WholeChain DEF IInv
  <2> QED
    BY <1>1, <2>1, <2>2, ParticipantHasRow
<1>7. KeepsCasting(found, e) /\ KeepsCounts(found, e) /\ ForkedIn(chain)
  BY <1>1, <1>3, <1>6, Seen, ParticipantKeeps
<1> HIDE DEF log, e
<1>8. /\ KeepsCasting(AdvanceTime(db, t), e) /\ KeepsCounts(AdvanceTime(db, t), e)
      /\ ForkedIn(chain)
  BY <1>7 DEF found
<1> QED
  BY <1>2, <1>3, <1>4, <1>5, <1>8, QuietAdds

\* A new fee window is not the window of a crowdsourcer, and fails none.
LEMMA WindowKeeps ==
  ASSUME NEW d \in Tables, NEW w \in Window, NEW now, IsFiniteSet(DOMAIN d.windows),
         \A c \in DOMAIN d.crowdsourcers :
           LET v == d.crowdsourcers[c].feeWindow
           IN  v \in DOMAIN d.windows /\ v # w /\ RightAt(d.windows[v], v, now)
  PROVE  LET e == FeeWindowCreated(d, w, now)
         IN  KeepsCasting(d, e) /\ KeepsDisavowed(d, e)
<1> DEFINE f == With(d.windows, w, "FUTURE")
           d1 == [d EXCEPT !.windows = f]
           e == AdvanceFeeWindowActive(d1, now)
<1>1. d.windows \in Rows(Window, {"FUTURE", "CURRENT", "PAST"})
  BY TablesElim
<1>2. f \in Rows(Window, {"FUTURE", "CURRENT", "PAST"})
  <2>1. "FUTURE" \in {"FUTURE", "CURRENT", "PAST"}
    OBVIOUS
  <2> QED
    BY <1>1, <2>1, RowAdded
<1>3. /\ DOMAIN f = DOMAIN d.windows \cup {w}
      /\ \A v \in DOMAIN d.windows : v # w => f[v] = d.windows[v]
  BY DEF With
<1>4. FeeWindowCreated(d, w, now) = e
  BY DEF FeeWindowCreated
<1> HIDE DEF f
<1>5. d1 \in Tables /\ d1.windows = f /\ d1.crowdsourcers = d.crowdsourcers
  BY <1>2, SetWindows
<1>6. IsFiniteSet(DOMAIN d1.windows)
  BY <1>3, <1>5, FS_AddElement
<1> HIDE DEF d1
<1>7. e.crowdsourcers = Settled(d1, now)
  BY <1>5, <1>6, FeeWindowsAdvance
<1> HIDE DEF e
<1>8. \A c \in DOMAIN d.crowdsourcers : d.crowdsourcers[c].feeWindow \notin Expired(d1, now)
  BY <1>3, <1>5 DEF Expired, RightAt
<1>9. DOMAIN e.crowdsourcers = DOMAIN d.crowdsourcers
  BY <1>5, <1>7 DEF Settled
<1>10. \A c \in DOMAIN d.crowdsourcers : e.crowdsourcers[c] = d.crowdsourcers[c]
  BY <1>5, <1>7, <1>8 DEF Settled
<1> QED
  BY <1>4, <1>9, <1>10 DEF KeepsCasting, KeepsDisavowed

LEMMA WindowKeepsCounts ==
  ASSUME NEW d \in Tables, NEW w \in Window, NEW now, IsFiniteSet(DOMAIN d.windows)
  PROVE  KeepsCounts(d, FeeWindowCreated(d, w, now))
<1> DEFINE e == FeeWindowCreated(d, w, now)
           opened == [d EXCEPT !.windows = With(@, w, "FUTURE")]
<1>1. e.markets = d.markets /\ opened.windows = With(d.windows, w, "FUTURE")
  BY WindowCreates
<1> HIDE DEF e
<1>2. KeepsCounts(d, e)
  BY <1>1 DEF KeepsCounts
<1> QED
  BY <1>2 DEF e

LEMMA FeeWindowCreatedTells ==
  ASSUME MarketAssumption, RunAssumption, IInv, RInv, IInv', NEW t \in Times, NEW w \in Windows,
         AddFeeWindowCreated(t, w)
  PROVE  RInv'
<1> DEFINE found == AdvanceTime(db, t)
           log == WindowLog(w)
           e == FeeWindowCreated(found, w, t)
<1>1. found \in Tables /\ Follows(found, chain) /\ t \in Nat
  BY FoundTables
<1>2. log \in Logs /\ w \in Window
  BY LogsAreLogs DEF RunAssumption, Window
<1>3. Mining(t) /\ Extend(t, log, e) /\ ~Present(chain, w)
  BY ExistsSeen DEF AddFeeWindowCreated
<1>4. Quiet(log) /\ \A x \in Market : ~StartsRound(log, x)
  BY DEF Quiet, StartsRound, WindowLog
<1>5. LegalInRound(chain, t, log)
  BY <1>1, <1>3, LegalAtAnyTime DEF WindowLog, CrowdKinds
<1>6. Told(found, chain, unwound, t) /\ Rounds(chain)
  BY <1>3, TimeTold DEF RInv
<1>7. IsFiniteSet(DOMAIN found.windows)
  BY <1>1 DEF Follows, WindowsFollow
<1> HIDE DEF found
<1>8. KeepsCounts(found, e)
  BY <1>1, <1>2, <1>7, WindowKeepsCounts
<1>9. ASSUME "time" \notin unwound
      PROVE  KeepsCasting(found, e) /\ KeepsDisavowed(found, e)
  <2>1. ASSUME NEW c \in DOMAIN found.crowdsourcers
        PROVE  LET v == found.crowdsourcers[c].feeWindow
               IN  v \in DOMAIN found.windows /\ v # w /\ RightAt(found.windows[v], v, t)
    <3>1. PICK v : v = found.crowdsourcers[c].feeWindow
      OBVIOUS
    <3>2. c \in Crowdsourcer /\ FiledBy(chain, c, v)
      BY <1>1, <1>6, <1>9, <3>1, CastRows DEF Told, Filed
    <3>3. v \in Window /\ Present(chain, v)
      BY <1>6, <3>2, FiledWindow DEF IInv
    <3>4. v \in DOMAIN found.windows /\ v # w
      BY <1>1, <1>3, <3>3 DEF Follows, WindowsFollow, Present
    <3>5. RightAt(found.windows[v], v, t)
      BY <1>3, <1>9, <3>4, FoundRight DEF found
    <3> QED
      BY <3>1, <3>4, <3>5
  <2> QED
    BY <1>1, <1>2, <1>7, <2>1, WindowKeeps
<1> HIDE DEF log, e
<1>10. /\ "time" \notin unwound => KeepsCasting(AdvanceTime(db, t), e)
       /\ KeepsCounts(AdvanceTime(db, t), e)
       /\ KeepsDisavowed(AdvanceTime(db, t), e) \/ "time" \in unwound
  BY <1>8, <1>9 DEF found
<1> QED
  BY <1>2, <1>3, <1>4, <1>5, <1>10, QuietAdds

LEMMA MarketMigratedTells ==
  ASSUME MarketAssumption, RunAssumption, IInv, RInv, IInv', NEW t \in Times, NEW m \in Market,
         AddMarketMigrated(t, m)
  PROVE  RInv'
<1> DEFINE found == AdvanceTime(db, t)
           log == MarketLog("MarketMigrated", m)
           b == Added(t, log)
           e == MarketMigrated(found, m, t)
<1>1. /\ found \in Tables /\ t \in Nat
      /\ \A x \in Market : x \in DOMAIN found.markets <=> Was(chain, "MarketCreated", x)
  BY FoundTables
<1>2. log \in Logs /\ chain \in Seq(Block)
  BY LogsAreLogs DEF Kinds, IInv
<1>3. /\ Mining(t) /\ Extend(t, log, e) /\ Created(m) /\ Forking # {}
      /\ Present(chain, WindowAt(Child, t + Duration))
  BY ExistsSeen DEF AddMarketMigrated
<1>4. Quiet(log) /\ ForkedIn(chain)
  BY <1>3, Seen DEF Quiet, MarketLog
<1>5. LegalInRound(chain, t, log)
  BY <1>1, <1>3, LegalAtAnyTime DEF MarketLog, CrowdKinds
<1>6. b \in Block /\ b.log = log
  BY <1>2, AddedBlock
<1> HIDE DEF found, b
<1>7. ASSUME NEW x \in Market, StartsRound(log, x)
      PROVE  Present(chain, WindowAt(HomeIn(Append(chain, b), x), t + Duration))
  <2>1. x = m
    BY <1>7 DEF StartsRound, MarketLog
  <2>2. Was(Append(chain, b), "MarketMigrated", x)
    BY <1>2, <1>6, <2>1, Grows
  <2> QED
    BY <1>3, <2>2 DEF HomeIn
<1>8. m \in DOMAIN found.markets
  BY <1>1, <1>3, Seen
<1>9. KeepsCasting(found, e) /\ KeepsCounts(found, e)
  BY <1>1, <1>8, MigrationKeeps
<1> HIDE DEF log, e
<1>10. KeepsCasting(AdvanceTime(db, t), e) /\ KeepsCounts(AdvanceTime(db, t), e)
  BY <1>9 DEF found
<1>11. \A x \in Market : StartsRound(log, x) =>
         Present(chain, WindowAt(HomeIn(Append(chain, Added(t, log)), x), t + Duration))
  BY <1>7 DEF b
<1> QED
  BY <1>2, <1>3, <1>4, <1>5, <1>10, <1>11, QuietAdds

-----------------------------------------------------------------------------
(* The quiet logs, taken back. *)

LEMMA ThrowKeeps ==
  ASSUME RInv, Throw
  PROVE  RInv'
<1>1. chain' = chain /\ db' = db /\ unwound' = unwound
  BY DEF Throw
<1> QED
  BY <1>1 DEF RInv

\* What is known of the last log, and of the rows it finds.
LEMMA Undoing ==
  ASSUME MarketAssumption, IInv, RInv, NEW log, Removing(log)
  PROVE  LET s == SubSeq(chain, 1, Len(chain) - 1)
             b == Final(chain)
         IN  /\ s \in Seq(Block) /\ b \in Block /\ chain = Append(s, b) /\ b.log = log
             /\ Sane(s) /\ LegalAfter(s, log) /\ db \in Tables /\ Follows(db, Append(s, b))
             /\ chain # <<>> /\ removals < MaxRemovals /\ head \in Nat
             /\ Rounds(s) /\ LegalInRound(s, b.time, log)
             /\ Told(db, chain, unwound, b.time)
             /\ \A x \in Market : Was(s, "MarketCreated", x) => x \in DOMAIN db.markets
             /\ \A x \in Crowdsourcer :
                  Did(s, "DisputeCrowdsourcerCreated", x) => x \in DOMAIN db.crowdsourcers
<1> DEFINE s == SubSeq(chain, 1, Len(chain) - 1)
           b == Final(chain)
<1>1. /\ s \in Seq(Block) /\ b \in Block /\ chain = Append(s, b) /\ b.log = log
      /\ Sane(s) /\ LegalAfter(s, log) /\ db \in Tables /\ Follows(db, Append(s, b))
      /\ chain # <<>> /\ removals < MaxRemovals /\ head \in Nat
  BY Removed
<1>2. Len(chain) \in Nat \ {0}
  BY <1>1, LastBlock
<1>3. Told(db, chain, unwound, b.time)
  <2>1. TimeAt(chain, Len(chain)) = b.time
    BY <1>2 DEF TimeAt, Final
  <2> QED
    BY <2>1 DEF RInv
<1>4. Rounds(chain)
  BY DEF RInv
<1> HIDE DEF s, b
<1>5. Rounds(s) /\ LegalInRound(s, b.time, log)
  <2>1. Rounds(Append(s, b))
    BY <1>1, <1>4
  <2> QED
    BY <1>1, <2>1, RoundsRetract
<1>6. \A x \in Market : Was(s, "MarketCreated", x) => x \in DOMAIN db.markets
  BY <1>1, Grows DEF Follows, MarketsFollow
<1>7. \A x \in Crowdsourcer :
        Did(s, "DisputeCrowdsourcerCreated", x) => x \in DOMAIN db.crowdsourcers
  BY <1>1, Grows DEF Follows, StakesFollow
<1> QED
  BY <1>1, <1>3, <1>5, <1>6, <1>7 DEF s, b

LEMMA NoLogUntells ==
  ASSUME MarketAssumption, RunAssumption, IInv, RInv, IInv', RemoveBlock
  PROVE  RInv'
<1> DEFINE s == SubSeq(chain, 1, Len(chain) - 1)
           log == NoLog
           e == db
<1>1. Removing(log) /\ Retract(e)
  BY DEF RemoveBlock
<1>2. /\ Final(chain).log = log /\ LegalAfter(s, log) /\ LegalInRound(s, Final(chain).time, log)
      /\ db \in Tables /\ chain # <<>>
  BY <1>1, Undoing
<1> HIDE DEF s
<1>3. Quiet(Final(chain).log) /\ \A x \in Market : ~StartsRound(Final(chain).log, x)
  BY <1>2 DEF Quiet, StartsRound, NoLog, MarketLog, CrowdLog, WindowLog, ParticipantLog
<1>5. KeepsCasting(db, e) /\ KeepsDisavowed(db, e) /\ KeepsCounts(db, e)
  BY SameCrowd DEF KeepsCounts
<1> HIDE DEF log, e
<1>6. Retract(e) => RInv'
  BY <1>2, <1>3, <1>5, QuietRemoves DEF s
<1> QED
  BY <1>1, <1>6

LEMMA MarketCreatedUntells ==
  ASSUME MarketAssumption, RunAssumption, IInv, RInv, IInv', NEW m \in Market, RemoveMarketCreated(m)
  PROVE  RInv'
<1> DEFINE s == SubSeq(chain, 1, Len(chain) - 1)
           log == MarketLog("MarketCreated", m)
           e == MarketCreatedRemoval(db, m)
<1>1. Removing(log) /\ Retract(e)
  BY DEF RemoveMarketCreated
<1>2. /\ Final(chain).log = log /\ LegalAfter(s, log) /\ LegalInRound(s, Final(chain).time, log)
      /\ db \in Tables /\ chain # <<>>
  BY <1>1, Undoing
<1> HIDE DEF s
<1>3. Quiet(Final(chain).log) /\ \A x \in Market : ~StartsRound(Final(chain).log, x)
  BY <1>2 DEF Quiet, StartsRound, NoLog, MarketLog, CrowdLog, WindowLog, ParticipantLog
<1>5. KeepsCasting(db, e) /\ KeepsDisavowed(db, e) /\ KeepsCounts(db, e)
  BY <1>2, CreationRemovalKeeps
<1> HIDE DEF log, e
<1>6. Retract(e) => RInv'
  BY <1>2, <1>3, <1>5, QuietRemoves DEF s
<1> QED
  BY <1>1, <1>6

LEMMA FeeWindowCreatedUntells ==
  ASSUME MarketAssumption, RunAssumption, IInv, RInv, IInv', NEW w \in Windows, RemoveFeeWindowCreated(w)
  PROVE  RInv'
<1> DEFINE s == SubSeq(chain, 1, Len(chain) - 1)
           log == WindowLog(w)
           e == FeeWindowCreatedRemoval(db, w)
<1>1. Removing(log) /\ Retract(e)
  BY DEF RemoveFeeWindowCreated
<1>2. /\ Final(chain).log = log /\ LegalAfter(s, log) /\ LegalInRound(s, Final(chain).time, log)
      /\ db \in Tables /\ chain # <<>>
  BY <1>1, Undoing
<1> HIDE DEF s
<1>3. Quiet(Final(chain).log) /\ \A x \in Market : ~StartsRound(Final(chain).log, x)
  BY <1>2 DEF Quiet, StartsRound, NoLog, MarketLog, CrowdLog, WindowLog, ParticipantLog
<1>5. KeepsCasting(db, e) /\ KeepsDisavowed(db, e) /\ KeepsCounts(db, e)
  BY <1>2, WindowRemovalKeeps
<1> HIDE DEF log, e
<1>6. Retract(e) => RInv'
  BY <1>2, <1>3, <1>5, QuietRemoves DEF s
<1> QED
  BY <1>1, <1>6

LEMMA ContributionUntells ==
  ASSUME MarketAssumption, RunAssumption, IInv, RInv, IInv', NEW c \in Crowdsourcer,
         RemoveDisputeCrowdsourcerContribution(c)
  PROVE  RInv'
<1> DEFINE s == SubSeq(chain, 1, Len(chain) - 1)
           log == CrowdLog("DisputeCrowdsourcerContribution", c)
           e == DisputeCrowdsourcerContributionRemoval(db, c, Size[c])
<1>1. Removing(log) /\ Retract(e)
  BY DEF RemoveDisputeCrowdsourcerContribution
<1>2. /\ Final(chain).log = log /\ LegalAfter(s, log) /\ LegalInRound(s, Final(chain).time, log)
      /\ db \in Tables /\ chain # <<>>
      /\ \A x \in Crowdsourcer :
           Did(s, "DisputeCrowdsourcerCreated", x) => x \in DOMAIN db.crowdsourcers
  BY <1>1, Undoing
<1> HIDE DEF s
<1>3. Quiet(Final(chain).log) /\ \A x \in Market : ~StartsRound(Final(chain).log, x)
  BY <1>2 DEF Quiet, StartsRound, NoLog, MarketLog, CrowdLog, WindowLog, ParticipantLog
<1>4. c \in DOMAIN db.crowdsourcers /\ Size[c] \in Nat
  <2>1. Did(s, "DisputeCrowdsourcerCreated", c)
    BY <1>2 DEF LegalAfter
  <2> QED
    BY <1>2, <2>1 DEF MarketAssumption
<1>5. KeepsCasting(db, e) /\ KeepsDisavowed(db, e) /\ KeepsCounts(db, e)
  BY <1>2, <1>4, ContributionKeeps
<1> HIDE DEF log, e
<1>6. Retract(e) => RInv'
  BY <1>2, <1>3, <1>5, QuietRemoves DEF s
<1> QED
  BY <1>1, <1>6

LEMMA MarketFinalizedUntells ==
  ASSUME MarketAssumption, RunAssumption, IInv, RInv, IInv', NEW m \in Market, RemoveMarketFinalized(m)
  PROVE  RInv'
<1> DEFINE s == SubSeq(chain, 1, Len(chain) - 1)
           log == MarketLog("MarketFinalized", m)
           e == MarketFinalizedRemoval(db, m)
<1>1. Removing(log) /\ (Throw \/ Retract(e))
  BY DEF RemoveMarketFinalized
<1>2. /\ Final(chain).log = log /\ LegalAfter(s, log) /\ LegalInRound(s, Final(chain).time, log)
      /\ db \in Tables /\ chain # <<>>
      /\ \A x \in Market : Was(s, "MarketCreated", x) => x \in DOMAIN db.markets
  BY <1>1, Undoing
<1> HIDE DEF s
<1>3. Quiet(Final(chain).log) /\ \A x \in Market : ~StartsRound(Final(chain).log, x)
  BY <1>2 DEF Quiet, StartsRound, NoLog, MarketLog, CrowdLog, WindowLog, ParticipantLog
<1>4. m \in DOMAIN db.markets
  BY <1>2 DEF LegalAfter
<1>5. KeepsCasting(db, e) /\ KeepsDisavowed(db, e) /\ KeepsCounts(db, e)
  BY <1>2, <1>4, FinalizationRemovalKeeps
<1> HIDE DEF log, e
<1>6. Retract(e) => RInv'
  BY <1>2, <1>3, <1>5, QuietRemoves DEF s
<1> QED
  BY <1>1, <1>6, ThrowKeeps

LEMMA MarketMigratedUntells ==
  ASSUME MarketAssumption, RunAssumption, IInv, RInv, IInv', NEW m \in Market, RemoveMarketMigrated(m)
  PROVE  RInv'
<1> DEFINE s == SubSeq(chain, 1, Len(chain) - 1)
           log == MarketLog("MarketMigrated", m)
           e == MarketMigratedRemoval(db, m)
<1>1. Removing(log) /\ (Throw \/ Retract(e))
  BY DEF RemoveMarketMigrated
<1>2. /\ Final(chain).log = log /\ LegalAfter(s, log) /\ LegalInRound(s, Final(chain).time, log)
      /\ db \in Tables /\ chain # <<>>
      /\ \A x \in Market : Was(s, "MarketCreated", x) => x \in DOMAIN db.markets
  BY <1>1, Undoing
<1> HIDE DEF s
<1>3. Quiet(Final(chain).log)
  BY <1>2 DEF Quiet, StartsRound, NoLog, MarketLog, CrowdLog, WindowLog, ParticipantLog
<1>4. m \in DOMAIN db.markets /\ ForkedIn(s)
  BY <1>2 DEF LegalAfter, DecidedIn, ForkedIn
<1>5. KeepsCasting(db, e) /\ KeepsCounts(db, e) /\ ForkedIn(s)
  BY <1>2, <1>4, MigrationRemovalKeeps
<1> HIDE DEF log, e
<1>6. Retract(e) => RInv'
  BY <1>2, <1>3, <1>5, QuietRemoves DEF s
<1> QED
  BY <1>1, <1>6, ThrowKeeps

LEMMA MarketDisavowedUntells ==
  ASSUME MarketAssumption, RunAssumption, IInv, RInv, IInv', NEW m \in Market, RemoveMarketParticipantsDisavowed(m)
  PROVE  RInv'
<1> DEFINE s == SubSeq(chain, 1, Len(chain) - 1)
           log == MarketLog("MarketParticipantsDisavowed", m)
           e == MarketParticipantsDisavowedRemoval(db, m)
<1>1. Removing(log) /\ Retract(e)
  BY DEF RemoveMarketParticipantsDisavowed
<1>2. /\ Final(chain).log = log /\ LegalAfter(s, log) /\ LegalInRound(s, Final(chain).time, log)
      /\ db \in Tables /\ chain # <<>>
      /\ \A x \in Market : Was(s, "MarketCreated", x) => x \in DOMAIN db.markets
  BY <1>1, Undoing
<1> HIDE DEF s
<1>3. Quiet(Final(chain).log) /\ \A x \in Market : ~StartsRound(Final(chain).log, x)
  BY <1>2 DEF Quiet, StartsRound, NoLog, MarketLog, CrowdLog, WindowLog, ParticipantLog
<1>4. m \in DOMAIN db.markets /\ ForkedIn(s)
  BY <1>2 DEF LegalAfter
<1>5. KeepsCasting(db, e) /\ KeepsCounts(db, e) /\ ForkedIn(s)
  <2>1. PICK k \in Int : k = -1
    OBVIOUS
  <2>2. e = DisavowalCounted(db, m, 1, k)
    BY <2>1 DEF MarketParticipantsDisavowedRemoval, DisavowalCounted
  <2> QED
    BY <1>2, <1>4, <2>2, DisavowalKeeps
<1> HIDE DEF log, e
<1>6. Retract(e) => RInv'
  BY <1>2, <1>3, <1>5, QuietRemoves DEF s
<1> QED
  BY <1>1, <1>6

LEMMA ParticipantDisavowedUntells ==
  ASSUME MarketAssumption, RunAssumption, IInv, RInv, IInv', NEW x \in Market \cup Crowdsourcer,
         RemoveReportingParticipantDisavowed(x)
  PROVE  RInv'
<1> DEFINE s == SubSeq(chain, 1, Len(chain) - 1)
           log == ParticipantLog(x)
           e == ReportingParticipantDisavowed(db, x, 0)
<1>1. Removing(log) /\ Retract(e)
  BY DEF RemoveReportingParticipantDisavowed
<1>2. /\ Final(chain).log = log /\ LegalAfter(s, log) /\ LegalInRound(s, Final(chain).time, log)
      /\ db \in Tables /\ chain # <<>>
  BY <1>1, Undoing
<1> HIDE DEF s
<1>3. Quiet(Final(chain).log) /\ \A y \in Market : ~StartsRound(Final(chain).log, y)
  BY <1>2 DEF Quiet, StartsRound, NoLog, MarketLog, CrowdLog, WindowLog, ParticipantLog
<1>4. x \in DOMAIN db.reports \cup DOMAIN db.crowdsourcers /\ ForkedIn(s)
  <2>1. /\ s \in Seq(Block) /\ Final(chain) \in Block /\ chain = Append(s, Final(chain))
        /\ Follows(db, chain)
    BY <1>1, Undoing DEF s
  <2>2. \/ x \in Market /\ Was(s, "UniverseForked", x)
        \/ x \in Crowdsourcer /\ Did(s, "DisputeCrowdsourcerCompleted", x)
    BY <1>2 DEF LegalAfter
  <2> DEFINE b == Final(chain)
  <2>5. \A l : In(s, l) => In(chain, l)
    <3>1. \A l : In(Append(s, b), l) <=> In(s, l) \/ b.log = l
      BY <2>1, InAppended
    <3> QED
      BY <2>1, <3>1
  <2>3. \/ x \in Market /\ Was(chain, "UniverseForked", x)
        \/ x \in Crowdsourcer /\ Did(chain, "DisputeCrowdsourcerCompleted", x)
    BY <2>2, <2>5 DEF Was, Did
  <2>4. chain \in Seq(Block) /\ Sane(chain)
    BY WholeChain DEF IInv
  <2> QED
    BY <1>2, <2>1, <2>3, <2>4, ParticipantHasRow DEF LegalInRound
<1>5. KeepsCasting(db, e) /\ KeepsCounts(db, e) /\ ForkedIn(s)
  BY <1>2, <1>4, ParticipantKeeps
<1> HIDE DEF log, e
<1>6. Retract(e) => RInv'
  BY <1>2, <1>3, <1>5, QuietRemoves DEF s
<1> QED
  BY <1>1, <1>6

-----------------------------------------------------------------------------
(* Initial reports: their markets have no crowdsourcers. *)

\* The crowdsourcers of the tables were created, and a step keeps the counts of all but m.
AllRaised(d, s) == \A c \in Crowdsourcer :
  c \in DOMAIN d.crowdsourcers => Did(s, "DisputeCrowdsourcerCreated", c)
KeepsCountsBut(d, e, m) ==
  /\ DOMAIN e.markets = DOMAIN d.markets
  /\ \A x \in DOMAIN d.markets : x # m =>
       e.markets[x].disputeRounds = d.markets[x].disputeRounds

LEMMA ReportTold ==
  ASSUME MarketAssumption, NEW s \in Seq(Block), NEW b \in Block, NEW m \in Market, NEW p \in Payout,
         b.log = ReportLog(m, p), ~ReportedIn(s, m), Sane(s), NEW d \in Tables,
         AllRaised(d, s), NEW e, KeepsCasting(d, e), KeepsDisavowed(d, e), KeepsCountsBut(d, e, m),
         NEW u, NEW time
  PROVE  /\ Told(d, s, u, time) /\ e.markets[m].disputeRounds = Cardinality(Winners(d, m)) =>
              Told(e, Append(s, b), u, time)
         /\ Told(d, Append(s, b), u, time) => Told(e, s, u, time)
<1>0. /\ DOMAIN e.markets = DOMAIN d.markets
      /\ \A x \in DOMAIN d.markets : x # m =>
           e.markets[x].disputeRounds = d.markets[x].disputeRounds
      /\ \A c \in Crowdsourcer :
           c \in DOMAIN d.crowdsourcers => Did(s, "DisputeCrowdsourcerCreated", c)
  BY DEF KeepsCountsBut, AllRaised
<1>1. PICK t : t = Append(s, b)
  OBVIOUS
<1>2. /\ \A x : Was(t, "UniverseForked", x) <=> Was(s, "UniverseForked", x)
      /\ \A c : Did(t, "DisputeCrowdsourcerCompleted", c) <=> Did(s, "DisputeCrowdsourcerCompleted", c)
      /\ \A c, w : FiledBy(t, c, w) <=> FiledBy(s, c, w)
      /\ \A x \in Market : ReportedIn(t, x) <=> ReportedIn(s, x) \/ x = m
  <2>1. /\ \A j, x : b.log # MarketLog(j, x) \/ j = "InitialReportSubmitted"
        /\ \A j, c : b.log # CrowdLog(j, c) \/ j = "InitialReportSubmitted"
    BY DEF MarketLog, CrowdLog, ReportLog
  <2>2. \A x : Was(t, "UniverseForked", x) <=> Was(s, "UniverseForked", x)
    BY <1>1, <2>1, Grows
  <2>3. \A c : Did(t, "DisputeCrowdsourcerCompleted", c) <=> Did(s, "DisputeCrowdsourcerCompleted", c)
    BY <1>1, <2>1, Grows
  <2>4. \A c, w : FiledBy(t, c, w) <=> FiledBy(s, c, w)
    BY <1>1, <2>1, FiledAppended
  <2>5. \A x \in Market : ReportedIn(t, x) <=> ReportedIn(s, x) \/ x = m
    BY <1>1, ReportLogAdded
  <2> QED
    BY <2>2, <2>3, <2>4, <2>5
<1>3. (\A x : NoOtherFork(t, x) <=> NoOtherFork(s, x)) /\ (ForkedIn(t) <=> ForkedIn(s))
  BY <1>2 DEF NoOtherFork, ForkedIn
<1>4. \A c \in DOMAIN d.crowdsourcers : IsOpen(t, c) <=> IsOpen(s, c)
  <2>1. SUFFICES ASSUME NEW c \in DOMAIN d.crowdsourcers PROVE IsOpen(t, c) <=> IsOpen(s, c)
    OBVIOUS
  <2>2. c \in Crowdsourcer /\ MarketOf[c] \in Market
    BY CastRows
  <2>3. ReportedIn(s, MarketOf[c])
    BY <1>0, <2>2 DEF Sane, SaneCrowdsourcer
  <2>4. MarketOf[c] # m
    BY <2>3
  <2>5. ~StartsRound(b.log, MarketOf[c]) /\ b.log # CrowdLog("DisputeCrowdsourcerCreated", c)
    BY <2>4 DEF StartsRound, ReportLog, CrowdLog
  <2> QED
    BY <1>1, <2>5, OpenAppended
<1>5. \A x : Winners(e, x) = Winners(d, x)
  BY SameWinners
<1>6. ASSUME Counted(d, s), e.markets[m].disputeRounds = Cardinality(Winners(d, m))
      PROVE  Counted(e, t)
  <2>1. SUFFICES ASSUME NEW x \in DOMAIN e.markets, ReportedIn(t, x), NoOtherFork(t, x)
                 PROVE  e.markets[x].disputeRounds = Cardinality(Winners(e, x))
    BY DEF Counted
  <2>2. x \in DOMAIN d.markets /\ x \in Market
    BY <1>0, MarketRows
  <2>3. CASE x = m
    BY <1>5, <1>6, <2>3
  <2>4. CASE x # m
    <3>1. ReportedIn(s, x) /\ NoOtherFork(s, x)
      BY <1>2, <1>3, <2>1, <2>2, <2>4
    <3>2. d.markets[x].disputeRounds = Cardinality(Winners(d, x))
      BY <1>6, <2>2, <3>1 DEF Counted
    <3> QED
      BY <1>0, <1>5, <2>2, <2>4, <3>2
  <2> QED
    BY <2>3, <2>4
<1>7. Counted(d, t) => Counted(e, s)
  <2>1. SUFFICES ASSUME Counted(d, t), NEW x \in DOMAIN e.markets, ReportedIn(s, x), NoOtherFork(s, x)
                 PROVE  e.markets[x].disputeRounds = Cardinality(Winners(e, x))
    BY DEF Counted
  <2>2. x \in DOMAIN d.markets /\ x \in Market /\ x # m
    BY <1>0, <2>1, MarketRows
  <2>3. ReportedIn(t, x) /\ NoOtherFork(t, x)
    BY <1>2, <1>3, <2>1, <2>2
  <2>4. d.markets[x].disputeRounds = Cardinality(Winners(d, x))
    BY <2>1, <2>2, <2>3 DEF Counted
  <2> QED
    BY <1>0, <1>5, <2>2, <2>4
<1>8. /\ Filed(d, s) => Filed(e, t)
      /\ Filed(d, t) => Filed(e, s)
  BY <1>2, FiledKept
<1>9. /\ Won(d, s) => Won(e, t)
      /\ Won(d, t) => Won(e, s)
  BY <1>2, <1>3, WonKept
<1>10. /\ SettledRight(d, s, time) => SettledRight(e, t, time)
       /\ SettledRight(d, t, time) => SettledRight(e, s, time)
  BY <1>2, <1>4, SettledKept
<1>11. Told(d, s, u, time) /\ e.markets[m].disputeRounds = Cardinality(Winners(d, m)) =>
         Told(e, t, u, time)
  BY <1>3, <1>6, <1>8, <1>9, <1>10 DEF Told
<1>12. Told(d, t, u, time) => Told(e, s, u, time)
  BY <1>3, <1>7, <1>8, <1>9, <1>10 DEF Told
<1> QED
  BY <1>1, <1>11, <1>12

LEMMA ReportTells ==
  ASSUME MarketAssumption, RunAssumption, IInv, RInv, IInv', NEW t \in Times, NEW m \in Market,
         NEW p \in Payout, AddInitialReportSubmitted(t, m, p)
  PROVE  RInv'
<1> DEFINE found == AdvanceTime(db, t)
           log == ReportLog(m, p)
           b == Added(t, log)
           e == InitialReportSubmitted(found, m, p, t)
<1>1. /\ found \in Tables /\ t \in Nat
      /\ \A x \in Market : x \in DOMAIN found.markets <=> Was(chain, "MarketCreated", x)
      /\ \A x \in Crowdsourcer :
           x \in DOMAIN found.crowdsourcers <=> Did(chain, "DisputeCrowdsourcerCreated", x)
  BY FoundTables
<1>2. log \in Logs /\ chain \in Seq(Block) /\ Sane(chain)
  BY LogsAreLogs, WholeChain DEF IInv
<1>3. /\ Mining(t) /\ Extend(t, log, e) /\ Was(chain, "MarketCreated", m) /\ ~ReportedIn(chain, m)
      /\ Present(chain, WindowAt(HomeIn(chain, m), t + Duration))
  BY Seen, HomeSeen, ExistsSeen DEF AddInitialReportSubmitted, NextWindowExists
<1>4. b \in Block /\ b.log = log
  BY <1>2, AddedBlock
<1>5. LegalInRound(chain, t, log)
  BY <1>1, <1>3, LegalAtAnyTime DEF ReportLog, CrowdKinds
<1>6. Told(found, chain, unwound, t)
  BY <1>3, TimeTold
<1> HIDE DEF found, b
<1>7. ASSUME NEW x \in Market, StartsRound(log, x)
      PROVE  Present(chain, WindowAt(HomeIn(Append(chain, b), x), t + Duration))
  <2>1. x = m
    BY <1>7 DEF StartsRound, ReportLog
  <2>2. Was(Append(chain, b), "MarketMigrated", x) <=> Was(chain, "MarketMigrated", x)
    BY <1>2, <1>4, ReportLogAdded DEF Kinds
  <2> QED
    BY <1>3, <2>1, <2>2 DEF HomeIn
<1>8. m \in DOMAIN found.markets
  BY <1>1, <1>3
<1>9. /\ e.crowdsourcers = found.crowdsourcers
      /\ e.markets[m].disputeRounds = Cardinality(Winners(found, m))
      /\ DOMAIN e.markets = DOMAIN found.markets
      /\ \A x \in DOMAIN found.markets : x # m =>
           e.markets[x].disputeRounds = found.markets[x].disputeRounds
  BY <1>1, <1>8, ReportCounts
<1> HIDE DEF e
<1>10. KeepsCasting(found, e) /\ KeepsDisavowed(found, e)
  BY <1>9, SameCrowd
<1>11. b.log = ReportLog(m, p)
  BY <1>4
<1> HIDE DEF log
<1>12. Told(e, Append(chain, b), unwound, t)
  <2>1. AllRaised(found, chain) /\ KeepsCountsBut(found, e, m)
    BY <1>1, <1>9 DEF AllRaised, KeepsCountsBut
  <2> QED
    BY <1>1, <1>2, <1>3, <1>4, <1>6, <1>9, <1>10, <1>11, <2>1, ReportTold
<1>13. \A x \in Market : StartsRound(log, x) =>
         Present(chain, WindowAt(HomeIn(Append(chain, Added(t, log)), x), t + Duration))
  BY <1>7 DEF b
<1> QED
  BY <1>2, <1>3, <1>5, <1>12, <1>13, RExtended DEF b

LEMMA ReportUntells ==
  ASSUME MarketAssumption, RunAssumption, IInv, RInv, IInv', NEW m \in Market, NEW p \in Payout,
         RemoveInitialReportSubmitted(m, p)
  PROVE  RInv'
<1> DEFINE s == SubSeq(chain, 1, Len(chain) - 1)
           b == Final(chain)
           log == ReportLog(m, p)
           e == InitialReportSubmittedRemoval(db, m, head)
<1>1. Removing(log) /\ (Throw \/ Retract(e))
  BY DEF RemoveInitialReportSubmitted
<1>2. /\ s \in Seq(Block) /\ b \in Block /\ chain = Append(s, b) /\ b.log = log
      /\ Sane(s) /\ LegalAfter(s, log) /\ db \in Tables /\ Follows(db, Append(s, b))
      /\ chain # <<>> /\ head \in Nat
      /\ Told(db, chain, unwound, b.time)
      /\ \A x \in Market : Was(s, "MarketCreated", x) => x \in DOMAIN db.markets
  BY <1>1, Undoing
<1>3. Retract(e) => e \in Tables /\ unwound \subseteq unwound'
  <2>1. Retract(e) => db' = e /\ unwound \subseteq unwound'
    BY DEF Retract
  <2> QED
    BY <2>1 DEF IInv
<1> HIDE DEF s, b
<1>4. ~ReportedIn(s, m) /\ m \in DOMAIN db.markets
  BY <1>2 DEF LegalAfter
<1>5. \A c \in Crowdsourcer :
        c \in DOMAIN db.crowdsourcers => Did(s, "DisputeCrowdsourcerCreated", c)
  <2>1. \A c \in Crowdsourcer :
          Did(Append(s, b), "DisputeCrowdsourcerCreated", c) <=> Did(s, "DisputeCrowdsourcerCreated", c)
    BY <1>2, ReportLogAdded DEF CrowdKinds
  <2> QED
    BY <1>2, <2>1 DEF Follows, StakesFollow
<1>6. KeepsCasting(db, e) /\ KeepsDisavowed(db, e) /\ KeepsCounts(db, e)
  BY <1>2, <1>4, ReportRemovalKeeps
<1>7. DOMAIN e.markets = DOMAIN db.markets
  BY <1>2, <1>4, ReportUnsubmits DEF KeepsMarkets
<1> HIDE DEF e
<1>8. Told(db, Append(s, b), unwound, b.time) => Told(e, s, unwound, b.time)
  <2>1. AllRaised(db, s) /\ KeepsCountsBut(db, e, m)
    BY <1>5, <1>6, <1>7 DEF KeepsCounts, AllRaised, KeepsCountsBut
  <2>2. s \in Seq(Block) /\ b \in Block /\ b.log = ReportLog(m, p) /\ db \in Tables /\ Sane(s)
    BY <1>2
  <2> HIDE DEF log
  <2> QED
    BY <1>4, <1>6, <2>1, <2>2, ReportTold
<1>9. Retract(e) => Told(e, s, unwound', b.time)
  BY <1>2, <1>3, <1>8, ToldOfMore
<1>10. Retract(e) => RInv'
  BY <1>2, <1>3, <1>9, RRetracted DEF s, b
<1> QED
  BY <1>1, <1>10, ThrowKeeps

-----------------------------------------------------------------------------
(* Crowdsourcers created: open, and filed under the window of the round. *)

LEMMA CreationTold ==
  ASSUME MarketAssumption, NEW s \in Seq(Block), NEW b \in Block, NEW c \in Crowdsourcer,
         b.log = CrowdLog("DisputeCrowdsourcerCreated", c),
         ~Did(s, "DisputeCrowdsourcerCompleted", c)
  PROVE  LET t == Append(s, b)
         IN  /\ \A x : Was(t, "UniverseForked", x) <=> Was(s, "UniverseForked", x)
             /\ \A x : NoOtherFork(t, x) <=> NoOtherFork(s, x)
             /\ ForkedIn(t) <=> ForkedIn(s)
             /\ \A x : Did(t, "DisputeCrowdsourcerCompleted", x)
                         <=> Did(s, "DisputeCrowdsourcerCompleted", x)
             /\ \A x : ReportedIn(t, x) <=> ReportedIn(s, x)
             /\ IsOpen(t, c)
             /\ \A x : x # c => IsOpen(t, x) <=> IsOpen(s, x)
             /\ \A x, w : FiledBy(t, x, w) <=>
                            FiledBy(s, x, w) \/ (x = c /\ w = RoundIn(s, MarketOf[x]))
<1>1. PICK t : t = Append(s, b)
  OBVIOUS
<1>2. /\ \A x : b.log # MarketLog("UniverseForked", x)
      /\ \A x : b.log # CrowdLog("DisputeCrowdsourcerCompleted", x)
      /\ \A x : b.log = CrowdLog("DisputeCrowdsourcerCreated", x) <=> x = c
      /\ b.log.kind # "InitialReportSubmitted"
      /\ \A x : ~StartsRound(b.log, x)
  BY DEF MarketLog, CrowdLog, StartsRound
<1>3. \A x : Was(t, "UniverseForked", x) <=> Was(s, "UniverseForked", x)
  BY <1>1, <1>2, Grows
<1>4. \A x : Did(t, "DisputeCrowdsourcerCompleted", x) <=> Did(s, "DisputeCrowdsourcerCompleted", x)
  BY <1>1, <1>2, Grows
<1>5. \A x : ReportedIn(t, x) <=> ReportedIn(s, x)
  BY <1>1, <1>2, ReportedAppended
<1>6. IsOpen(t, c)
  BY <1>1, OpenAppended
<1>7. \A x : x # c => IsOpen(t, x) <=> IsOpen(s, x)
  BY <1>1, <1>2, OpenAppended
<1>8. \A x, w : FiledBy(t, x, w) <=>
                  FiledBy(s, x, w) \/ (x = c /\ w = RoundIn(s, MarketOf[x]))
  BY <1>1, <1>2, FiledAppended
<1>9. (\A x : NoOtherFork(t, x) <=> NoOtherFork(s, x)) /\ (ForkedIn(t) <=> ForkedIn(s))
  BY <1>3 DEF NoOtherFork, ForkedIn
<1> QED
  BY <1>1, <1>3, <1>4, <1>5, <1>6, <1>7, <1>8, <1>9

LEMMA CreatedTold ==
  ASSUME MarketAssumption, NEW s \in Seq(Block), NEW b \in Block, NEW c \in Crowdsourcer,
         b.log = CrowdLog("DisputeCrowdsourcerCreated", c),
         ~Did(s, "DisputeCrowdsourcerCompleted", c),
         NEW d, NEW e, NEW w, NEW u, NEW time, e.markets = d.markets,
         DOMAIN e.crowdsourcers = DOMAIN d.crowdsourcers \cup {c}, c \notin DOMAIN d.crowdsourcers,
         e.crowdsourcers[c] = [feeWindow |-> w, completed |-> None, disavowed |-> 0, staked |-> 0],
         \A x \in DOMAIN d.crowdsourcers : x # c => e.crowdsourcers[x] = d.crowdsourcers[x],
         "time" \notin u => w = RoundIn(s, MarketOf[c]) /\ time <= EndOf(w),
         Told(d, s, u, time)
  PROVE  Told(e, Append(s, b), u, time)
<1>1. PICK t : t = Append(s, b)
  OBVIOUS
<1>2. /\ \A x : NoOtherFork(t, x) <=> NoOtherFork(s, x)
      /\ ForkedIn(t) <=> ForkedIn(s)
      /\ \A x : Did(t, "DisputeCrowdsourcerCompleted", x)
                  <=> Did(s, "DisputeCrowdsourcerCompleted", x)
      /\ \A x : ReportedIn(t, x) <=> ReportedIn(s, x)
      /\ IsOpen(t, c)
      /\ \A x : x # c => IsOpen(t, x) <=> IsOpen(s, x)
      /\ \A x, v : FiledBy(t, x, v) <=>
                     FiledBy(s, x, v) \/ (x = c /\ v = RoundIn(s, MarketOf[x]))
  BY <1>1, CreationTold
<1>3. /\ e.crowdsourcers[c].feeWindow = w /\ e.crowdsourcers[c].completed = None
      /\ e.crowdsourcers[c].disavowed = 0
  OBVIOUS
<1>4. None # 1 /\ None # 0
  BY DEF MarketAssumption
<1>5. \A x \in DOMAIN e.crowdsourcers :
        x # c => x \in DOMAIN d.crowdsourcers /\ e.crowdsourcers[x] = d.crowdsourcers[x]
  OBVIOUS
<1>6. \A m : Winners(e, m) = Winners(d, m)
  BY <1>3, <1>4, <1>5 DEF Winners, CrowdsourcersOf
<1>7. "time" \notin u => Filed(e, t)
  <2>1. SUFFICES ASSUME "time" \notin u, NEW x \in DOMAIN e.crowdsourcers
                 PROVE  FiledBy(t, x, e.crowdsourcers[x].feeWindow)
    BY DEF Filed
  <2>2. Filed(d, s)
    BY <2>1 DEF Told
  <2>3. CASE x = c
    BY <1>2, <1>3, <2>1, <2>3
  <2>4. CASE x # c
    BY <1>2, <1>5, <2>2, <2>4 DEF Filed
  <2> QED
    BY <2>3, <2>4
<1>8. Won(d, s) => Won(e, t)
  <2>1. SUFFICES ASSUME Won(d, s), NEW x \in DOMAIN e.crowdsourcers, NoOtherFork(t, MarketOf[x])
                 PROVE  e.crowdsourcers[x].completed = 1 <=> Did(t, "DisputeCrowdsourcerCompleted", x)
    BY DEF Won
  <2>2. CASE x = c
    BY <1>2, <1>3, <1>4, <2>2
  <2>3. CASE x # c
    BY <1>2, <1>5, <2>1, <2>3 DEF Won
  <2> QED
    BY <2>2, <2>3
<1>9. Counted(d, s) => Counted(e, t)
  BY <1>2, <1>6 DEF Counted
<1>10. ASSUME "time" \notin u, SettledRight(d, s, time)
       PROVE  SettledRight(e, t, time)
  <2>1. SUFFICES ASSUME NEW x \in DOMAIN e.crowdsourcers
                 PROVE  SettledAt(e.crowdsourcers[x], Did(t, "DisputeCrowdsourcerCompleted", x),
                                  IsOpen(t, x), time)
    BY DEF SettledRight
  <2>2. CASE x = c
    BY <1>2, <1>3, <1>10, <2>2 DEF SettledAt
  <2>3. CASE x # c
    <3>1. SettledAt(d.crowdsourcers[x], Did(s, "DisputeCrowdsourcerCompleted", x), IsOpen(s, x), time)
      BY <1>5, <1>10, <2>3 DEF SettledRight
    <3> QED
      BY <1>2, <1>5, <2>3, <3>1 DEF SettledAt
  <2> QED
    BY <2>2, <2>3
<1>11. \A S : u \cap ({"time"} \cup S) = {} => "time" \notin u
  OBVIOUS
<1>12. Told(e, t, u, time)
  BY <1>2, <1>7, <1>8, <1>9, <1>10, <1>11 DEF Told
<1> QED
  BY <1>1, <1>12

\* A crowdsourcer is gone and nothing else that is counted.
Lacks(d, e, c) ==
  /\ e.markets = d.markets
  /\ DOMAIN e.crowdsourcers = DOMAIN d.crowdsourcers \ {c}
  /\ \A x \in DOMAIN e.crowdsourcers : e.crowdsourcers[x] = d.crowdsourcers[x]

LEMMA UncreatedTold ==
  ASSUME MarketAssumption, NEW s \in Seq(Block), NEW b \in Block, NEW c \in Crowdsourcer,
         b.log = CrowdLog("DisputeCrowdsourcerCreated", c),
         ~Did(s, "DisputeCrowdsourcerCompleted", c),
         NEW d, NEW e, NEW u, NEW time, Lacks(d, e, c), Told(d, Append(s, b), u, time)
  PROVE  Told(e, s, u, time)
<1>0. /\ e.markets = d.markets /\ DOMAIN e.crowdsourcers = DOMAIN d.crowdsourcers \ {c}
      /\ \A x \in DOMAIN e.crowdsourcers : e.crowdsourcers[x] = d.crowdsourcers[x]
  BY DEF Lacks
<1>1. PICK t : t = Append(s, b)
  OBVIOUS
<1>2. /\ \A x : NoOtherFork(t, x) <=> NoOtherFork(s, x)
      /\ ForkedIn(t) <=> ForkedIn(s)
      /\ \A x : Did(t, "DisputeCrowdsourcerCompleted", x)
                  <=> Did(s, "DisputeCrowdsourcerCompleted", x)
      /\ \A x : ReportedIn(t, x) <=> ReportedIn(s, x)
      /\ \A x : x # c => IsOpen(t, x) <=> IsOpen(s, x)
      /\ \A x, v : FiledBy(t, x, v) <=>
                     FiledBy(s, x, v) \/ (x = c /\ v = RoundIn(s, MarketOf[x]))
  BY <1>1, CreationTold
<1>3. Told(d, t, u, time)
  BY <1>1
<1>4. \A x \in DOMAIN e.crowdsourcers :
        x # c /\ x \in DOMAIN d.crowdsourcers /\ e.crowdsourcers[x] = d.crowdsourcers[x]
  BY <1>0
<1>5. Filed(d, t) => Filed(e, s)
  BY <1>2, <1>4 DEF Filed
<1>6. Won(d, t) => Won(e, s)
  BY <1>2, <1>4 DEF Won
<1>7. ASSUME Won(d, t), Counted(d, t)
      PROVE  Counted(e, s)
  <2>1. SUFFICES ASSUME NEW m \in DOMAIN e.markets, ReportedIn(s, m), NoOtherFork(s, m)
                 PROVE  e.markets[m].disputeRounds = Cardinality(Winners(e, m))
    BY DEF Counted
  <2>2. d.markets[m].disputeRounds = Cardinality(Winners(d, m))
    BY <1>0, <1>2, <1>7, <2>1 DEF Counted
  <2>3. c \notin Winners(d, m)
    BY <1>2, <1>7, <2>1 DEF Won, Winners, CrowdsourcersOf
  <2>4. \A x \in DOMAIN d.crowdsourcers : x # c => x \in DOMAIN e.crowdsourcers
    BY <1>0
  <2>5. Winners(e, m) = Winners(d, m)
    BY <1>4, <2>3, <2>4 DEF Winners, CrowdsourcersOf
  <2> QED
    BY <1>0, <2>2, <2>5
<1>8. SettledRight(d, t, time) => SettledRight(e, s, time)
  <2>1. SUFFICES ASSUME SettledRight(d, t, time), NEW x \in DOMAIN e.crowdsourcers
                 PROVE  SettledAt(e.crowdsourcers[x], Did(s, "DisputeCrowdsourcerCompleted", x),
                                  IsOpen(s, x), time)
    BY DEF SettledRight
  <2>2. SettledAt(d.crowdsourcers[x], Did(t, "DisputeCrowdsourcerCompleted", x), IsOpen(t, x), time)
    BY <1>4, <2>1 DEF SettledRight
  <2> QED
    BY <1>2, <1>4, <2>2 DEF SettledAt
<1> QED
  BY <1>2, <1>3, <1>5, <1>6, <1>7, <1>8 DEF Told

LEMMA CrowdsourcerCreatedTells ==
  ASSUME MarketAssumption, RunAssumption, IInv, RInv, IInv', NEW t \in Times, NEW c \in Crowdsourcer,
         AddDisputeCrowdsourcerCreated(t, c)
  PROVE  RInv'
<1> DEFINE found == AdvanceTime(db, t)
           m == MarketOf[c]
           log == CrowdLog("DisputeCrowdsourcerCreated", c)
           b == Added(t, log)
           e(w) == DisputeCrowdsourcerCreated(found, c, w)
<1>1. /\ found \in Tables /\ t \in Nat
      /\ \A x \in Crowdsourcer :
           x \in DOMAIN found.crowdsourcers <=> Did(chain, "DisputeCrowdsourcerCreated", x)
  BY FoundTables
<1>2. /\ log \in Logs /\ "DisputeCrowdsourcerCreated" \in CrowdKinds
      /\ chain \in Seq(Block) /\ Sane(chain)
  BY LogsAreLogs, WholeChain DEF IInv, CrowdKinds
<1>3. /\ Disputable(t, c) /\ ~Did(chain, "DisputeCrowdsourcerCreated", c)
      /\ (Throw \/ \E w \in Current(found, HomeOf(m)) : Extend(t, log, e(w)))
  BY Seen DEF AddDisputeCrowdsourcerCreated, Did
<1>4. Mining(t) /\ m \in Market /\ Reported(m) /\ ReportedIn(chain, m) /\ InRound(m, t)
  BY <1>3, Disputed DEF Disputable
<1>5. LegalInRound(chain, t, log)
  BY <1>1, <1>2, <1>3, <1>4, LegalInDispute
<1>6. b \in Block /\ b.log = log
  BY <1>2, AddedBlock
<1>7. Told(found, chain, unwound, t)
  BY <1>4, TimeTold
<1>8. c \notin DOMAIN found.crowdsourcers /\ ~Did(chain, "DisputeCrowdsourcerCompleted", c)
  BY <1>1, <1>2, <1>3 DEF Sane, SaneCrowdsourcer
<1> HIDE DEF found, b, m
<1>9. ASSUME NEW w \in Current(found, HomeOf(m)), "time" \notin unwound
      PROVE  w = RoundIn(chain, m) /\ t <= EndOf(w)
  <2>1. w \in DOMAIN found.windows /\ w[1] = HomeOf(m) /\ found.windows[w] = "CURRENT"
    BY DEF Current
  <2>2. RightAt(found.windows[w], w, t)
    BY <1>4, <1>9, <2>1, FoundRight DEF found
  <2>3. w \in Window
    BY <1>1, <2>1, WindowRows
  <2>4. PICK z \in Nat : z = EndOf(w)
    BY <2>3, BoundsOfWindow
  <2>5. StartOf(w) < t /\ ~(z < t)
    BY <2>1, <2>2, <2>4 DEF RightAt
  <2>6. t <= EndOf(w)
    BY <1>1, <2>4, <2>5
  <2>7. PICK v : v = RoundIn(chain, m)
    OBVIOUS
  <2>8. v \in Window /\ v[1] = HomeOf(m)
    BY <1>2, <1>4, <2>7, RoundIsWindow, HomeSeen DEF RoundIn, WindowAt
  <2>9. StartOf(v) < t /\ t < EndOf(v)
    BY <1>4, <2>7, RoundSeen DEF InRound
  <2>10. t <= EndOf(v)
    BY <1>1, <2>8, <2>9, BoundsOfWindow
  <2>11. v = w
    BY <1>1, <2>1, <2>3, <2>5, <2>6, <2>8, <2>9, <2>10, WindowsApart
  <2> QED
    BY <2>6, <2>7, <2>11
<1>10. \A x : ~StartsRound(log, x)
  BY DEF StartsRound, CrowdLog
<1>11. ASSUME NEW w \in Current(found, HomeOf(m)), Extend(t, log, e(w))
       PROVE  RInv'
  <2>1. PICK f : f = e(w)
    OBVIOUS
  <2>2. /\ f.markets = found.markets
        /\ DOMAIN f.crowdsourcers = DOMAIN found.crowdsourcers \cup {c}
        /\ f.crowdsourcers[c] = [feeWindow |-> w, completed |-> None, disavowed |-> 0, staked |-> 0]
        /\ \A x \in DOMAIN found.crowdsourcers : x # c => f.crowdsourcers[x] = found.crowdsourcers[x]
    BY <1>1, <2>1, CreationRows
  <2>3. "time" \notin unwound => w = RoundIn(chain, MarketOf[c]) /\ t <= EndOf(w)
    BY <1>9 DEF m
  <2>4. b.log = CrowdLog("DisputeCrowdsourcerCreated", c)
    BY <1>6
  <2> HIDE DEF log, e
  <2>5. Told(f, Append(chain, b), unwound, t)
    BY <1>2, <1>6, <1>7, <1>8, <2>2, <2>3, <2>4, CreatedTold
  <2>6. Extend(t, log, f)
    BY <1>11, <2>1
  <2> QED
    BY <1>2, <1>4, <1>5, <1>10, <2>5, <2>6, RExtended DEF b
<1> QED
  BY <1>3, <1>11, ThrowKeeps

LEMMA CrowdsourcerCreatedUntells ==
  ASSUME MarketAssumption, RunAssumption, IInv, RInv, IInv', NEW c \in Crowdsourcer,
         RemoveDisputeCrowdsourcerCreated(c)
  PROVE  RInv'
<1> DEFINE s == SubSeq(chain, 1, Len(chain) - 1)
           b == Final(chain)
           log == CrowdLog("DisputeCrowdsourcerCreated", c)
           e == DisputeCrowdsourcerCreatedRemoval(db, c)
<1>1. Removing(log) /\ Retract(e)
  BY DEF RemoveDisputeCrowdsourcerCreated
<1>2. /\ s \in Seq(Block) /\ b \in Block /\ chain = Append(s, b) /\ b.log = log
      /\ Sane(s) /\ LegalAfter(s, log) /\ db \in Tables /\ chain # <<>>
      /\ Told(db, chain, unwound, b.time)
  BY <1>1, Undoing
<1>3. e \in Tables /\ unwound \subseteq unwound'
  <2>1. db' = e /\ unwound \subseteq unwound'
    BY <1>1 DEF Retract
  <2> QED
    BY <2>1 DEF IInv
<1> HIDE DEF s, b
<1>4. ~Did(s, "DisputeCrowdsourcerCompleted", c)
  <2>1. log # NoLog
    BY DEF NoLog, CrowdLog
  <2>2. ~Did(s, "DisputeCrowdsourcerCreated", c)
    BY <1>2, <2>1 DEF LegalAfter, Did
  <2> QED
    BY <1>2, <2>2 DEF Sane, SaneCrowdsourcer
<1>5. /\ e.markets = db.markets /\ DOMAIN e.crowdsourcers = DOMAIN db.crowdsourcers \ {c}
      /\ \A x \in DOMAIN e.crowdsourcers : e.crowdsourcers[x] = db.crowdsourcers[x]
  BY <1>2, CreationRemovalRows
<1> HIDE DEF e
<1>6. Told(db, Append(s, b), unwound, b.time)
  BY <1>2
<1>7. Told(e, s, unwound, b.time)
  <2>1. s \in Seq(Block) /\ b \in Block /\ b.log = CrowdLog("DisputeCrowdsourcerCreated", c)
    BY <1>2
  <2>2. Lacks(db, e, c)
    BY <1>5 DEF Lacks
  <2> HIDE DEF log
  <2> QED
    BY <1>4, <1>6, <2>1, <2>2, UncreatedTold
<1>8. Told(e, s, unwound', b.time)
  BY <1>3, <1>7, ToldOfMore
<1> QED
  BY <1>1, <1>2, <1>3, <1>8, RRetracted DEF s, b

-----------------------------------------------------------------------------
(* Crowdsourcers completed: the others of the round fail, and one more round is *)
(* counted.                                                                     *)

LEMMA PrefixOfPrefix ==
  ASSUME NEW s \in Seq(Block), NEW n \in 0..Len(s), NEW k \in 0..n
  PROVE  SubSeq(SubSeq(s, 1, n), 1, k) = SubSeq(s, 1, k)
<1>1. PICK l \in Nat : l = Len(s)
  OBVIOUS
<1>2. PICK p \in Seq(Block) : p = SubSeq(s, 1, n) /\ Len(p) = n /\ \A i \in 1..n : p[i] = s[i]
  BY Prefix
<1>3. \A i \in 1..k : p[i] = s[i]
  BY <1>2
<1>4. SubSeq(p, 1, k) = [i \in 1..k |-> p[i]] /\ SubSeq(s, 1, k) = [i \in 1..k |-> s[i]]
  BY <1>1, <1>2
<1> QED
  BY <1>2, <1>3, <1>4

\* A crowdsourcer of the round is filed under the window of the round.
LEMMA OpenFiled ==
  ASSUME MarketAssumption, IInv, NEW c \in Crowdsourcer, NEW w, FiledBy(chain, c, w),
         NEW n \in 0..Len(chain), IsOpen(SubSeq(chain, 1, n), c)
  PROVE  w = RoundIn(SubSeq(chain, 1, n), MarketOf[c])
<1>1. PICK l \in Nat : l = Len(chain)
  BY DEF IInv
<1>2. PICK p \in Seq(Block) : p = SubSeq(chain, 1, n) /\ Len(p) = n /\ \A i \in 1..n : p[i] = chain[i]
  <2>1. chain \in Seq(Block)
    BY DEF IInv
  <2>2. PICK p : p = SubSeq(chain, 1, n)
    OBVIOUS
  <2>3. p \in Seq(Block) /\ Len(p) = n /\ \A i \in 1..n : p[i] = chain[i]
    BY <2>1, <2>2, Prefix
  <2> QED
    BY <2>2, <2>3
<1>3. PICK j \in 1..n : /\ p[j].log = CrowdLog("DisputeCrowdsourcerCreated", c)
                        /\ \A k \in j + 1..n : ~StartsRound(p[k].log, MarketOf[c])
  BY <1>2 DEF IsOpen
<1>4. PICK i \in 0..l - 1 : /\ chain[i + 1].log = CrowdLog("DisputeCrowdsourcerCreated", c)
                            /\ w = RoundIn(SubSeq(chain, 1, i), MarketOf[c])
  BY <1>1 DEF FiledBy
<1>5. i + 1 = j
  <2>1. CrowdLog("DisputeCrowdsourcerCreated", c) # NoLog
    BY DEF CrowdLog, NoLog
  <2>2. i + 1 \in 1..l /\ j \in 1..l
    BY <1>1
  <2> QED
    BY <1>1, <1>2, <1>3, <1>4, <2>1, <2>2, OnlyOnce
<1>6. i \in 0..n /\ i \in 0..l /\ i < l
  BY <1>1, <1>4, <1>5
<1>7. SubSeq(p, 1, i) = SubSeq(chain, 1, i)
  BY <1>2, <1>6, PrefixOfPrefix DEF IInv
<1>8. PICK q \in Seq(Block) : q = SubSeq(chain, 1, i)
  BY <1>1, <1>6, Prefix DEF IInv
<1>9. Sane(q) /\ LegalAfter(q, chain[i + 1].log)
  BY <1>1, <1>6, <1>8 DEF IInv, History
<1>10. MarketOf[c] \in Market /\ ReportedIn(q, MarketOf[c])
  BY <1>4, <1>9 DEF LegalAfter, MarketAssumption
<1>11. LatestStart(q, Latest(q, MarketOf[c]), MarketOf[c])
  BY <1>8, <1>9, <1>10, LatestOfReported
<1>12. \A k \in i + 1..n : ~StartsRound(p[k].log, MarketOf[c])
  <2>1. ~StartsRound(p[j].log, MarketOf[c])
    BY <1>3 DEF StartsRound, CrowdLog
  <2>2. \A k \in i + 1..n : k = j \/ k \in j + 1..n
    BY <1>5
  <2> QED
    BY <1>3, <2>1, <2>2
<1>13. RoundIn(p, MarketOf[c]) = RoundIn(q, MarketOf[c])
  <2>1. i \in 0..Len(p) /\ \A k \in i + 1..Len(p) : ~StartsRound(p[k].log, MarketOf[c])
    BY <1>2, <1>6, <1>12
  <2>2. LatestStart(SubSeq(p, 1, i), Latest(q, MarketOf[c]), MarketOf[c])
    BY <1>7, <1>8, <1>11
  <2>3. RoundIn(p, MarketOf[c]) = RoundIn(SubSeq(p, 1, i), MarketOf[c])
    BY <2>1, <2>2, RoundStays
  <2> QED
    BY <1>7, <1>8, <2>3
<1> QED
  BY <1>2, <1>4, <1>8, <1>13

LEMMA CompletionLog ==
  ASSUME MarketAssumption, NEW s \in Seq(Block), NEW b \in Block, NEW c \in Crowdsourcer,
         b.log = CrowdLog("DisputeCrowdsourcerCompleted", c)
  PROVE  LET t == Append(s, b)
         IN  /\ \A x : Was(t, "UniverseForked", x) <=> Was(s, "UniverseForked", x)
             /\ \A x : NoOtherFork(t, x) <=> NoOtherFork(s, x)
             /\ ForkedIn(t) <=> ForkedIn(s)
             /\ \A x : Did(t, "DisputeCrowdsourcerCompleted", x)
                         <=> Did(s, "DisputeCrowdsourcerCompleted", x) \/ x = c
             /\ \A x : ReportedIn(t, x) <=> ReportedIn(s, x)
             /\ \A x : IsOpen(t, x) <=> IsOpen(s, x) /\ MarketOf[x] # MarketOf[c]
             /\ \A x, w : FiledBy(t, x, w) <=> FiledBy(s, x, w)
<1>1. PICK t : t = Append(s, b)
  OBVIOUS
<1>2. /\ \A x : b.log # MarketLog("UniverseForked", x)
      /\ \A x : b.log = CrowdLog("DisputeCrowdsourcerCompleted", x) <=> x = c
      /\ \A x : b.log # CrowdLog("DisputeCrowdsourcerCreated", x)
      /\ b.log.kind # "InitialReportSubmitted"
      /\ \A x : StartsRound(b.log, x) <=> x = MarketOf[c]
  BY DEF MarketLog, CrowdLog, StartsRound
<1>3. \A x : Was(t, "UniverseForked", x) <=> Was(s, "UniverseForked", x)
  BY <1>1, <1>2, Grows
<1>4. \A x : Did(t, "DisputeCrowdsourcerCompleted", x)
               <=> Did(s, "DisputeCrowdsourcerCompleted", x) \/ x = c
  BY <1>1, <1>2, Grows
<1>5. \A x : ReportedIn(t, x) <=> ReportedIn(s, x)
  BY <1>1, <1>2, ReportedAppended
<1>6. \A x : IsOpen(t, x) <=> IsOpen(s, x) /\ MarketOf[x] # MarketOf[c]
  BY <1>1, <1>2, OpenAppended
<1>7. \A x, w : FiledBy(t, x, w) <=> FiledBy(s, x, w)
  BY <1>1, <1>2, FiledAppended
<1>8. (\A x : NoOtherFork(t, x) <=> NoOtherFork(s, x)) /\ (ForkedIn(t) <=> ForkedIn(s))
  BY <1>3 DEF NoOtherFork, ForkedIn
<1> QED
  BY <1>1, <1>3, <1>4, <1>5, <1>6, <1>7, <1>8

\* What CompletionRows says of the tables before and after.
CompletesRows(d, e, c) ==
  LET m == MarketOf[c]
  IN  /\ DOMAIN e.crowdsourcers = DOMAIN d.crowdsourcers
      /\ \A x \in DOMAIN d.crowdsourcers :
           LET old == d.crowdsourcers[x]
               new == e.crowdsourcers[x]
           IN  /\ new.feeWindow = old.feeWindow
               /\ x = c => new.completed = 1 /\ new.disavowed = old.disavowed
               /\ x # c /\ Fails(old, m, x) =>
                    new.completed = 0 /\ new.disavowed = old.disavowed + 1
               /\ x # c /\ ~Fails(old, m, x) =>
                    new.completed = old.completed /\ new.disavowed = old.disavowed
      /\ DOMAIN e.markets = DOMAIN d.markets
      /\ e.markets[m].disputeRounds = Cardinality(Winners(e, m))
      /\ \A x \in DOMAIN d.markets : x # m =>
           e.markets[x].disputeRounds = d.markets[x].disputeRounds

LEMMA CompletedTold ==
  ASSUME MarketAssumption, NEW s \in Seq(Block), NEW b \in Block, NEW c \in Crowdsourcer,
         b.log = CrowdLog("DisputeCrowdsourcerCompleted", c), IsOpen(s, c),
         NEW d, NEW e, CompletesRows(d, e, c), NEW u, NEW time,
         "time" \notin u =>
           \A x \in DOMAIN d.crowdsourcers : MarketOf[x] = MarketOf[c] /\ IsOpen(s, x) =>
             time <= EndOf(d.crowdsourcers[x].feeWindow),
         Told(d, s, u, time)
  PROVE  Told(e, Append(s, b), u, time)
<1>1. PICK t : t = Append(s, b)
  OBVIOUS
<1>2. PICK m : m = MarketOf[c]
  OBVIOUS
<1>3. /\ \A x : NoOtherFork(t, x) <=> NoOtherFork(s, x)
      /\ ForkedIn(t) <=> ForkedIn(s)
      /\ \A x : Did(t, "DisputeCrowdsourcerCompleted", x)
                  <=> Did(s, "DisputeCrowdsourcerCompleted", x) \/ x = c
      /\ \A x : ReportedIn(t, x) <=> ReportedIn(s, x)
      /\ \A x : IsOpen(t, x) <=> IsOpen(s, x) /\ MarketOf[x] # m
      /\ \A x, w : FiledBy(t, x, w) <=> FiledBy(s, x, w)
  BY <1>1, <1>2, CompletionLog
<1>4. None # 1 /\ None # 0
  BY DEF MarketAssumption
<1>5. /\ DOMAIN e.crowdsourcers = DOMAIN d.crowdsourcers
      /\ DOMAIN e.markets = DOMAIN d.markets
      /\ e.markets[m].disputeRounds = Cardinality(Winners(e, m))
      /\ \A x \in DOMAIN d.markets : x # m =>
           e.markets[x].disputeRounds = d.markets[x].disputeRounds
  BY <1>2 DEF CompletesRows
<1>6. ASSUME NEW x \in DOMAIN d.crowdsourcers
      PROVE  LET old == d.crowdsourcers[x]
                 new == e.crowdsourcers[x]
                 fails == MarketOf[x] = m /\ old.completed = None
             IN  /\ new.feeWindow = old.feeWindow
                 /\ x = c => new.completed = 1 /\ new.disavowed = old.disavowed
                 /\ x # c /\ fails => new.completed = 0 /\ new.disavowed = old.disavowed + 1
                 /\ x # c /\ ~fails =>
                      new.completed = old.completed /\ new.disavowed = old.disavowed
  BY <1>2 DEF CompletesRows, Fails
<1>7. Filed(d, s) => Filed(e, t)
  BY <1>3, <1>5, <1>6 DEF Filed
<1>8. Won(d, s) => Won(e, t)
  <2>1. SUFFICES ASSUME Won(d, s), NEW x \in DOMAIN d.crowdsourcers, NoOtherFork(t, MarketOf[x])
                 PROVE  e.crowdsourcers[x].completed = 1 <=> Did(t, "DisputeCrowdsourcerCompleted", x)
    BY <1>5 DEF Won
  <2>2. d.crowdsourcers[x].completed = 1 <=> Did(s, "DisputeCrowdsourcerCompleted", x)
    BY <1>3, <2>1 DEF Won
  <2> QED
    BY <1>3, <1>4, <1>6, <2>2
<1>9. \A x : x # m => Winners(e, x) = Winners(d, x)
  <2>1. SUFFICES ASSUME NEW x, x # m PROVE Winners(e, x) = Winners(d, x)
    OBVIOUS
  <2>2. \A y \in DOMAIN d.crowdsourcers : MarketOf[y] = x =>
          e.crowdsourcers[y].completed = d.crowdsourcers[y].completed
    BY <1>2, <1>6, <2>1
  <2> QED
    BY <1>5, <2>2 DEF Winners, CrowdsourcersOf
<1>10. Counted(d, s) => Counted(e, t)
  <2>1. SUFFICES ASSUME Counted(d, s), NEW x \in DOMAIN d.markets, ReportedIn(t, x), NoOtherFork(t, x)
                 PROVE  e.markets[x].disputeRounds = Cardinality(Winners(e, x))
    BY <1>5 DEF Counted
  <2>2. CASE x = m
    BY <1>5, <2>2
  <2>3. CASE x # m
    <3>1. d.markets[x].disputeRounds = Cardinality(Winners(d, x))
      BY <1>3, <2>1 DEF Counted
    <3> QED
      BY <1>5, <1>9, <2>3, <3>1
  <2> QED
    BY <2>2, <2>3
<1>11. ASSUME "time" \notin u, SettledRight(d, s, time)
       PROVE  SettledRight(e, t, time)
  <2>1. SUFFICES ASSUME NEW x \in DOMAIN d.crowdsourcers
                 PROVE  SettledAt(e.crowdsourcers[x], Did(t, "DisputeCrowdsourcerCompleted", x),
                                  IsOpen(t, x), time)
    BY <1>5 DEF SettledRight
  <2>2. PICK old, new : old = d.crowdsourcers[x] /\ new = e.crowdsourcers[x]
    OBVIOUS
  <2>3. SettledAt(old, Did(s, "DisputeCrowdsourcerCompleted", x), IsOpen(s, x), time)
    BY <1>11, <2>2 DEF SettledRight
  <2>4. MarketOf[x] = m /\ IsOpen(s, x) => time <= EndOf(old.feeWindow)
    BY <1>2, <1>11, <2>2
  <2>5. CASE x = c
    <3>1. new.completed = 1 /\ new.disavowed = 0
      BY <1>6, <2>2, <2>3, <2>5 DEF SettledAt
    <3> QED
      BY <1>3, <2>2, <2>5, <3>1 DEF SettledAt
  <2>6. CASE x # c /\ MarketOf[x] # m
    <3>1. new.completed = old.completed /\ new.disavowed = old.disavowed /\ new.feeWindow = old.feeWindow
      BY <1>6, <2>2, <2>6
    <3>2. /\ Did(t, "DisputeCrowdsourcerCompleted", x) <=> Did(s, "DisputeCrowdsourcerCompleted", x)
          /\ IsOpen(t, x) <=> IsOpen(s, x)
      BY <1>3, <2>6
    <3> QED
      BY <2>2, <2>3, <3>1, <3>2 DEF SettledAt
  <2>7. CASE x # c /\ MarketOf[x] = m
    <3>1. ~IsOpen(t, x) /\ (Did(t, "DisputeCrowdsourcerCompleted", x)
                              <=> Did(s, "DisputeCrowdsourcerCompleted", x))
      BY <1>3, <2>7
    <3>2. CASE Did(s, "DisputeCrowdsourcerCompleted", x)
      <4>1. old.completed = 1 /\ old.disavowed = 0
        BY <2>3, <3>2 DEF SettledAt
      <4>2. new.completed = 1 /\ new.disavowed = 0
        BY <1>4, <1>6, <2>2, <2>7, <4>1
      <4> QED
        BY <2>2, <3>1, <3>2, <4>2 DEF SettledAt
    <3>3. CASE ~Did(s, "DisputeCrowdsourcerCompleted", x) /\ IsOpen(s, x)
      <4>1. old.completed = None /\ old.disavowed = 0
        BY <2>3, <2>4, <2>7, <3>3 DEF SettledAt
      <4>2. new.completed = 0 /\ new.disavowed = 1
        BY <1>6, <2>2, <2>7, <4>1
      <4> QED
        BY <2>2, <3>1, <3>3, <4>2 DEF SettledAt
    <3>4. CASE ~Did(s, "DisputeCrowdsourcerCompleted", x) /\ ~IsOpen(s, x)
      <4>1. old.completed = 0 /\ old.disavowed = 1
        BY <2>3, <3>4 DEF SettledAt
      <4>2. new.completed = 0 /\ new.disavowed = 1
        BY <1>4, <1>6, <2>2, <2>7, <4>1
      <4> QED
        BY <2>2, <3>1, <3>4, <4>2 DEF SettledAt
    <3> QED
      BY <3>2, <3>3, <3>4
  <2> QED
    BY <2>5, <2>6, <2>7
<1>12. \A S : u \cap ({"time"} \cup S) = {} => "time" \notin u
  OBVIOUS
<1>13. Told(e, t, u, time)
  BY <1>3, <1>7, <1>8, <1>10, <1>11, <1>12 DEF Told
<1> QED
  BY <1>1, <1>13

LEMMA CompletedTells ==
  ASSUME MarketAssumption, RunAssumption, IInv, RInv, IInv', NEW t \in Times, NEW c \in Crowdsourcer,
         AddDisputeCrowdsourcerCompleted(t, c)
  PROVE  RInv'
<1> DEFINE found == AdvanceTime(db, t)
           m == MarketOf[c]
           log == CrowdLog("DisputeCrowdsourcerCompleted", c)
           b == Added(t, log)
           e == DisputeCrowdsourcerCompleted(found, c, t)
<1>1. /\ found \in Tables /\ Follows(found, chain) /\ t \in Nat
      /\ \A x \in Market : x \in DOMAIN found.markets <=> Was(chain, "MarketCreated", x)
      /\ \A x \in Crowdsourcer :
           x \in DOMAIN found.crowdsourcers <=> Did(chain, "DisputeCrowdsourcerCreated", x)
  BY FoundTables
<1>2. /\ log \in Logs /\ "DisputeCrowdsourcerCompleted" \in CrowdKinds
      /\ chain \in Seq(Block) /\ Sane(chain) /\ Rounds(chain)
  BY LogsAreLogs, WholeChain DEF IInv, RInv, CrowdKinds
<1>3. /\ Disputable(t, c) /\ ThisRound("DisputeCrowdsourcerContribution", c)
      /\ Extend(t, log, e) /\ Present(chain, WindowAt(HomeIn(chain, m), t + Duration))
  BY HomeSeen, ExistsSeen DEF AddDisputeCrowdsourcerCompleted, NextWindowExists
<1>4. Mining(t) /\ m \in Market /\ Reported(m) /\ ReportedIn(chain, m) /\ InRound(m, t)
  BY <1>3, Disputed DEF Disputable
<1>5. IsOpen(chain, c)
  BY <1>2, <1>3, <1>4, ContributionSeen
<1>6. LegalInRound(chain, t, log)
  BY <1>1, <1>2, <1>3, <1>4, <1>5, LegalInDispute
<1>7. b \in Block /\ b.log = log
  BY <1>2, AddedBlock
<1>8. Told(found, chain, unwound, t)
  BY <1>4, TimeTold
<1> HIDE DEF found, b
<1>9. CompletesRows(found, e, c)
  <2>1. Did(chain, "DisputeCrowdsourcerCreated", c)
    BY <1>5 DEF IsOpen, Did, In
  <2>2. Was(chain, "MarketCreated", MarketOf[c])
    BY <1>2, <1>4 DEF Sane, SaneMarket
  <2>3. /\ c \in DOMAIN found.crowdsourcers /\ MarketOf[c] \in DOMAIN found.markets
        /\ IsFiniteSet(DOMAIN found.crowdsourcers)
    BY <1>1, <1>4, <2>1, <2>2 DEF Follows, StakesFollow
  <2> QED
    BY <1>1, <2>3, CompletionRows DEF CompletesRows
<1> HIDE DEF e
<1>10. ASSUME "time" \notin unwound, NEW x \in DOMAIN found.crowdsourcers, MarketOf[x] = m,
              IsOpen(chain, x)
       PROVE  t <= EndOf(found.crowdsourcers[x].feeWindow)
  <2>1. PICK w : w = found.crowdsourcers[x].feeWindow
    OBVIOUS
  <2>2. x \in Crowdsourcer
    BY <1>1, CastRows
  <2>3. FiledBy(chain, x, w)
    BY <1>8, <1>10, <2>1 DEF Told, Filed
  <2>4. Len(chain) \in 0..Len(chain) /\ SubSeq(chain, 1, Len(chain)) = chain
    BY <1>2, WholePrefix
  <2>5. IsOpen(SubSeq(chain, 1, Len(chain)), x)
    BY <1>10, <2>4
  <2>6. w = RoundIn(SubSeq(chain, 1, Len(chain)), MarketOf[x])
    BY <2>2, <2>3, <2>4, <2>5, OpenFiled
  <2>7. w = RoundIn(chain, m)
    BY <1>10, <2>4, <2>6
  <2>8. w \in Window /\ t < EndOf(w)
    BY <1>2, <1>4, <2>7, RoundIsWindow, RoundSeen DEF InRound
  <2>9. t <= EndOf(w)
    BY <1>1, <2>8, BoundsOfWindow
  <2> QED
    BY <2>1, <2>9
<1>11. b.log = CrowdLog("DisputeCrowdsourcerCompleted", c)
  BY <1>7
<1>12. ASSUME NEW x \in Market, StartsRound(log, x)
       PROVE  Present(chain, WindowAt(HomeIn(Append(chain, b), x), t + Duration))
  <2>1. x = m
    BY <1>12 DEF StartsRound, CrowdLog
  <2>2. Was(Append(chain, b), "MarketMigrated", x) <=> Was(chain, "MarketMigrated", x)
    BY <1>2, <1>7, CrowdLogAdded DEF Kinds
  <2> QED
    BY <1>3, <2>1, <2>2 DEF HomeIn
<1> HIDE DEF log
<1>13. Told(e, Append(chain, b), unwound, t)
  BY <1>2, <1>5, <1>7, <1>8, <1>9, <1>10, <1>11, CompletedTold
<1>14. \A x \in Market : StartsRound(log, x) =>
         Present(chain, WindowAt(HomeIn(Append(chain, Added(t, log)), x), t + Duration))
  BY <1>12 DEF b
<1> QED
  BY <1>2, <1>3, <1>4, <1>6, <1>13, <1>14, RExtended DEF b

\* A window that has begun is not the one a dispute round later.
LEMMA WindowsLater ==
  ASSUME MarketAssumption, NEW w \in Window, NEW u \in Universe, NEW a \in Nat, StartOf(w) < a
  PROVE  WindowAt(u, a + Duration) # w
<1>1. PICK i \in Nat : i = w[2]
  BY DEF Window
<1>2. PICK k \in Nat \ {0} : k = Duration
  BY DEF MarketAssumption
<1>3. i * k < a
  BY <1>1, <1>2 DEF StartOf
<1>4. SUFFICES ASSUME WindowAt(u, a + Duration) = w PROVE FALSE
  OBVIOUS
<1>5. (a + k) \div k = i
  BY <1>1, <1>2, <1>4 DEF WindowAt
<1>6. PICK n \in Nat : n = a + k
  BY <1>2
<1>7. n < (n \div k) * k + k
  BY <1>2, <1>6
<1>8. n < i * k + k
  BY <1>5, <1>6, <1>7
<1>9. i * k \in Nat
  BY <1>2
<1> QED
  BY <1>2, <1>3, <1>6, <1>8, <1>9

\* Two crowdsourcers of a market that were completed are of different rounds, and
\* filed under different windows.
LEMMA CompletedApart ==
  ASSUME MarketAssumption, IInv, Rounds(chain), NEW c \in Crowdsourcer, NEW x \in Crowdsourcer,
         MarketOf[x] = MarketOf[c],
         NEW k \in 1..Len(chain), chain[k].log = CrowdLog("DisputeCrowdsourcerCompleted", x),
         k < Len(chain), Final(chain).log = CrowdLog("DisputeCrowdsourcerCompleted", c),
         NEW w, FiledBy(chain, x, w), NEW v, FiledBy(chain, c, v)
  PROVE  w # v
<1>1. PICK l \in Nat : l = Len(chain)
  BY DEF IInv
<1>2. PICK m \in Market : m = MarketOf[c]
  BY DEF MarketAssumption
<1>3. chain \in Seq(Block) /\ k \in 1..l /\ k < l /\ l \in 1..l
  BY <1>1 DEF IInv
<1>4. \A i \in 1..l : LegalInRound(SubSeq(chain, 1, i - 1), chain[i].time, chain[i].log)
  <2>1. SUFFICES ASSUME NEW i \in 1..l
                 PROVE  LegalInRound(SubSeq(chain, 1, i - 1), chain[i].time, chain[i].log)
    OBVIOUS
  <2>2. i - 1 \in 0..l /\ i - 1 < l /\ (i - 1) + 1 = i
    OBVIOUS
  <2> QED
    BY <1>1, <2>2 DEF Rounds
<1>5. /\ "DisputeCrowdsourcerCompleted" \in CrowdKinds
      /\ "DisputeCrowdsourcerCompleted" \in CrowdKinds \ {"DisputeCrowdsourcerCreated"}
  BY DEF CrowdKinds
<1>6. k - 1 \in 0..l /\ l - 1 \in 0..l
  BY <1>3
<1>7. /\ IsOpen(SubSeq(chain, 1, k - 1), x)
      /\ StartOf(RoundIn(SubSeq(chain, 1, k - 1), m)) < chain[k].time
  BY <1>2, <1>3, <1>4, <1>5 DEF LegalInRound
<1>8. IsOpen(SubSeq(chain, 1, l - 1), c)
  BY <1>1, <1>3, <1>4, <1>5 DEF LegalInRound, Final
<1>9. w = RoundIn(SubSeq(chain, 1, k - 1), m)
  BY <1>1, <1>2, <1>6, <1>7, OpenFiled
<1>10. v = RoundIn(SubSeq(chain, 1, l - 1), m)
  BY <1>1, <1>2, <1>6, <1>8, OpenFiled
<1>11. w \in Window
  BY <1>3, FiledWindow DEF IInv
<1>12. PICK p \in Seq(Block) : p = SubSeq(chain, 1, l - 1) /\ Len(p) = l - 1
                               /\ \A i \in 1..l - 1 : p[i] = chain[i]
  <2>1. chain \in Seq(Block) /\ l - 1 \in 0..Len(chain)
    BY <1>1, <1>3, <1>6 DEF IInv
  <2>2. PICK p : p = SubSeq(chain, 1, l - 1)
    OBVIOUS
  <2>3. p \in Seq(Block) /\ Len(p) = l - 1 /\ \A i \in 1..l - 1 : p[i] = chain[i]
    BY <2>1, <2>2, Prefix
  <2> QED
    BY <2>2, <2>3
<1>13. Sane(p) /\ ReportedIn(p, m)
  <2>1. Sane(p)
    BY <1>1, <1>6, <1>12 DEF IInv, History
  <2>2. Did(p, "DisputeCrowdsourcerCreated", c)
    BY <1>8, <1>12 DEF IsOpen, Did, In
  <2> QED
    BY <1>2, <2>1, <2>2 DEF Sane, SaneCrowdsourcer
<1>14. PICK r \in 1..l - 1 : r = Latest(p, m) /\ LatestStart(p, r, m)
  BY <1>12, <1>13, LatestOfReported DEF LatestStart
<1>15. k <= r
  <2>1. StartsRound(chain[k].log, m)
    BY <1>2 DEF StartsRound, CrowdLog
  <2>2. k \in 1..l - 1 /\ p[k] = chain[k]
    BY <1>3, <1>12
  <2>3. k \notin r + 1..l - 1
    BY <1>12, <1>14, <2>1, <2>2 DEF LatestStart
  <2> QED
    BY <1>3, <2>2, <2>3
<1>16. chain[k] \in Block /\ chain[r] \in Block /\ r \in 1..l /\ p[r] = chain[r]
  BY <1>1, <1>3, <1>12
<1>17. PICK a \in Nat, z \in Nat : a = chain[r].time /\ z = chain[k].time
  BY <1>16 DEF Block
<1>18. z <= a
  <2>1. CASE k = r
    BY <1>17, <2>1
  <2>2. CASE k < r
    <3>1. r - 1 \in 0..l /\ k \in 1..r - 1
      BY <1>3, <1>16, <2>2
    <3>2. Len(SubSeq(chain, 1, r - 1)) = r - 1 /\ SubSeq(chain, 1, r - 1)[k] = chain[k]
      BY <1>1, <1>3, <3>1, Prefix
    <3> QED
      BY <1>4, <1>16, <1>17, <3>1, <3>2 DEF LegalInRound
  <2> QED
    BY <1>3, <1>15, <1>16, <2>1, <2>2
<1>19. StartOf(w) < a
  <2>1. PICK start \in Nat : start = StartOf(w)
    BY <1>11, BoundsOfWindow
  <2>2. start < z
    BY <1>7, <1>9, <1>17, <2>1
  <2> QED
    BY <1>17, <1>18, <2>1, <2>2, SMTT(20)
<1>20. v = WindowAt(HomeIn(p, m), a + Duration)
  BY <1>10, <1>12, <1>14, <1>16, <1>17 DEF RoundIn
<1>21. HomeIn(p, m) \in Universe
  BY DEF HomeIn, MarketAssumption
<1> QED
  BY <1>11, <1>19, <1>20, <1>21, WindowsLater

\* What UncompletionRows says of the tables before and after.
UncompletesRows(d, e, c) ==
  LET m == MarketOf[c]
      w == d.crowdsourcers[c].feeWindow
  IN  /\ DOMAIN e.crowdsourcers = DOMAIN d.crowdsourcers
      /\ \A x \in DOMAIN d.crowdsourcers :
           LET old == d.crowdsourcers[x]
               new == e.crowdsourcers[x]
           IN  /\ new.feeWindow = old.feeWindow
               /\ new.completed = 1 <=>
                    old.completed = 1 /\ ~(MarketOf[x] = m /\ old.feeWindow = w)
      /\ DOMAIN e.markets = DOMAIN d.markets
      /\ e.markets[m].disputeRounds = Cardinality(Winners(e, m))
      /\ \A x \in DOMAIN d.markets : x # m =>
           e.markets[x].disputeRounds = d.markets[x].disputeRounds

LEMMA UncompletedTold ==
  ASSUME MarketAssumption, NEW s \in Seq(Block), NEW b \in Block, NEW c \in Crowdsourcer,
         b.log = CrowdLog("DisputeCrowdsourcerCompleted", c),
         ~Did(s, "DisputeCrowdsourcerCompleted", c),
         NEW d, NEW e, UncompletesRows(d, e, c), NEW u, NEW v, NEW time,
         u \subseteq v, "DisputeCrowdsourcerCompleted" \in v,
         "time" \notin u =>
           \A x \in DOMAIN d.crowdsourcers :
             /\ x # c /\ MarketOf[x] = MarketOf[c]
             /\ Did(s, "DisputeCrowdsourcerCompleted", x)
             => d.crowdsourcers[x].feeWindow # d.crowdsourcers[c].feeWindow,
         Told(d, Append(s, b), u, time)
  PROVE  Told(e, s, v, time)
<1>1. PICK t : t = Append(s, b)
  OBVIOUS
<1>2. PICK m : m = MarketOf[c]
  OBVIOUS
<1>3. /\ \A x : NoOtherFork(t, x) <=> NoOtherFork(s, x)
      /\ \A x : Did(t, "DisputeCrowdsourcerCompleted", x)
                  <=> Did(s, "DisputeCrowdsourcerCompleted", x) \/ x = c
      /\ \A x : ReportedIn(t, x) <=> ReportedIn(s, x)
      /\ \A x, w : FiledBy(t, x, w) <=> FiledBy(s, x, w)
  BY <1>1, CompletionLog
<1>4. /\ DOMAIN e.crowdsourcers = DOMAIN d.crowdsourcers
      /\ DOMAIN e.markets = DOMAIN d.markets
      /\ e.markets[m].disputeRounds = Cardinality(Winners(e, m))
      /\ \A x \in DOMAIN d.markets : x # m =>
           e.markets[x].disputeRounds = d.markets[x].disputeRounds
  BY <1>2 DEF UncompletesRows
<1>5. ASSUME NEW x \in DOMAIN d.crowdsourcers
      PROVE  LET old == d.crowdsourcers[x]
                 new == e.crowdsourcers[x]
             IN  /\ new.feeWindow = old.feeWindow
                 /\ new.completed = 1 <=>
                      /\ old.completed = 1
                      /\ ~(MarketOf[x] = m /\ old.feeWindow = d.crowdsourcers[c].feeWindow)
  BY <1>2 DEF UncompletesRows
<1>6. Told(d, t, v, time)
  BY <1>1, ToldOfMore
<1>7. Filed(d, t) => Filed(e, s)
  BY <1>3, <1>4, <1>5 DEF Filed
<1>8. ASSUME "time" \notin v, Won(d, t)
      PROVE  Won(e, s)
  <2>1. SUFFICES ASSUME NEW x \in DOMAIN d.crowdsourcers, NoOtherFork(s, MarketOf[x])
                 PROVE  e.crowdsourcers[x].completed = 1 <=> Did(s, "DisputeCrowdsourcerCompleted", x)
    BY <1>4 DEF Won
  <2>2. d.crowdsourcers[x].completed = 1 <=> Did(t, "DisputeCrowdsourcerCompleted", x)
    BY <1>3, <1>8, <2>1 DEF Won
  <2>3. "time" \notin u
    BY <1>8
  <2>4. CASE x = c
    BY <1>2, <1>5, <2>4
  <2>5. CASE x # c
    <3>1. Did(s, "DisputeCrowdsourcerCompleted", x) /\ MarketOf[x] = m =>
            d.crowdsourcers[x].feeWindow # d.crowdsourcers[c].feeWindow
      BY <1>2, <2>3, <2>5
    <3> QED
      BY <1>3, <1>5, <2>2, <2>5, <3>1
  <2> QED
    BY <2>4, <2>5
<1>9. \A x : x # m => Winners(e, x) = Winners(d, x)
  <2>1. SUFFICES ASSUME NEW x, x # m PROVE Winners(e, x) = Winners(d, x)
    OBVIOUS
  <2>2. \A y \in DOMAIN d.crowdsourcers : MarketOf[y] = x =>
          (e.crowdsourcers[y].completed = 1 <=> d.crowdsourcers[y].completed = 1)
    BY <1>5, <2>1
  <2> QED
    BY <1>4, <2>2 DEF Winners, CrowdsourcersOf
<1>10. Counted(d, t) => Counted(e, s)
  <2>1. SUFFICES ASSUME Counted(d, t), NEW x \in DOMAIN d.markets, ReportedIn(s, x), NoOtherFork(s, x)
                 PROVE  e.markets[x].disputeRounds = Cardinality(Winners(e, x))
    BY <1>4 DEF Counted
  <2>2. CASE x = m
    BY <1>4, <2>2
  <2>3. CASE x # m
    <3>1. d.markets[x].disputeRounds = Cardinality(Winners(d, x))
      BY <1>3, <2>1 DEF Counted
    <3> QED
      BY <1>4, <1>9, <2>3, <3>1
  <2> QED
    BY <2>2, <2>3
<1>11. \A S : v \cap ({"time"} \cup S) = {} => "time" \notin v
  OBVIOUS
<1>12. v \cap {"time", "UniverseForked", "DisputeCrowdsourcerCompleted"} # {}
  OBVIOUS
<1> QED
  BY <1>6, <1>7, <1>8, <1>10, <1>11, <1>12 DEF Told

LEMMA CompletedUntells ==
  ASSUME MarketAssumption, RunAssumption, IInv, RInv, IInv', NEW c \in Crowdsourcer,
         RemoveDisputeCrowdsourcerCompleted(c)
  PROVE  RInv'
<1> DEFINE s == SubSeq(chain, 1, Len(chain) - 1)
           b == Final(chain)
           log == CrowdLog("DisputeCrowdsourcerCompleted", c)
           e == DisputeCrowdsourcerCompletedRemoval(db, c, head)
<1>1. Removing(log) /\ (Throw \/ Retract(e))
  BY DEF RemoveDisputeCrowdsourcerCompleted
<1>2. /\ s \in Seq(Block) /\ b \in Block /\ chain = Append(s, b) /\ b.log = log
      /\ Sane(s) /\ LegalAfter(s, log) /\ db \in Tables /\ Follows(db, Append(s, b))
      /\ chain # <<>> /\ head \in Nat
      /\ Told(db, chain, unwound, b.time)
      /\ \A x \in Market : Was(s, "MarketCreated", x) => x \in DOMAIN db.markets
      /\ \A x \in Crowdsourcer :
           Did(s, "DisputeCrowdsourcerCreated", x) => x \in DOMAIN db.crowdsourcers
  BY <1>1, Undoing
<1>3. Retract(e) => /\ e \in Tables /\ unwound \subseteq unwound'
                    /\ "DisputeCrowdsourcerCompleted" \in unwound'
  <2>1. log.kind = "DisputeCrowdsourcerCompleted"
    BY DEF CrowdLog
  <2>2. Retract(e) => db' = e /\ unwound \subseteq unwound' /\ b.log.kind \in unwound'
    BY SMTT(20) DEF Retract
  <2> QED
    BY <1>2, <2>1, <2>2 DEF IInv
<1> DEFINE l == Len(chain)
<1>4. l = Len(s) + 1 /\ l \in Nat /\ \A i \in 1..Len(s) : chain[i] = s[i]
  <2>1. l = Len(s) + 1 /\ l \in Nat
    BY <1>2, LastBlock
  <2>2. \A i \in 1..Len(s) : Append(s, b)[i] = s[i]
    BY <1>2, Appended
  <2> QED
    BY <1>2, <2>1, <2>2
<1> HIDE DEF s, b
<1>5. ~Did(s, "DisputeCrowdsourcerCompleted", c) /\ Did(s, "DisputeCrowdsourcerCreated", c)
  <2>1. log # NoLog
    BY DEF NoLog, CrowdLog
  <2> QED
    BY <1>2, <2>1 DEF LegalAfter, Did, Sane, SaneCrowdsourcer
<1>6. /\ c \in DOMAIN db.crowdsourcers /\ MarketOf[c] \in DOMAIN db.markets
      /\ IsFiniteSet(DOMAIN db.crowdsourcers)
  <2>1. MarketOf[c] \in Market
    BY DEF MarketAssumption
  <2>2. Was(s, "MarketCreated", MarketOf[c])
    BY <1>2, <1>5, <2>1 DEF Sane, SaneMarket, SaneCrowdsourcer
  <2> QED
    BY <1>2, <1>5, <2>1, <2>2 DEF Follows, StakesFollow
<1>7. UncompletesRows(db, e, c)
  BY <1>2, <1>6, UncompletionRows DEF UncompletesRows
<1> HIDE DEF e
<1>8. ASSUME "time" \notin unwound, NEW x \in DOMAIN db.crowdsourcers,
             MarketOf[x] = MarketOf[c], Did(s, "DisputeCrowdsourcerCompleted", x)
      PROVE  db.crowdsourcers[x].feeWindow # db.crowdsourcers[c].feeWindow
  <2>1. x \in Crowdsourcer
    BY <1>2, CastRows
  <2>2. /\ FiledBy(chain, x, db.crowdsourcers[x].feeWindow)
        /\ FiledBy(chain, c, db.crowdsourcers[c].feeWindow)
    BY <1>2, <1>6, <1>8 DEF Told, Filed
  <2>3. PICK k \in 1..Len(s) : s[k].log = CrowdLog("DisputeCrowdsourcerCompleted", x)
    BY <1>8 DEF Did, In
  <2>4. Len(s) \in Nat
    BY <1>2
  <2>5. k \in 1..Len(chain) /\ k < Len(chain) /\ chain[k].log = CrowdLog("DisputeCrowdsourcerCompleted", x)
    BY <1>4, <2>3, <2>4
  <2>6. Final(chain).log = CrowdLog("DisputeCrowdsourcerCompleted", c) /\ Rounds(chain)
    BY <1>2 DEF b, RInv
  <2> QED
    BY <1>8, <2>1, <2>2, <2>5, <2>6, CompletedApart
<1>9. b.log = CrowdLog("DisputeCrowdsourcerCompleted", c) /\ Told(db, Append(s, b), unwound, b.time)
  BY <1>2
<1> HIDE DEF log
<1>10. Retract(e) => Told(e, s, unwound', b.time)
  BY <1>2, <1>3, <1>5, <1>7, <1>8, <1>9, UncompletedTold
<1>11. Retract(e) => RInv'
  BY <1>2, <1>3, <1>10, RRetracted DEF s, b
<1> QED
  BY <1>1, <1>11, ThrowKeeps

\* A fork of a market leaves right what is said of the rounds of that market,
\* and nothing is said of the others; taken back, it leaves the windows right.
LEMMA ForkLog ==
  ASSUME NEW s \in Seq(Block), NEW b \in Block, NEW m \in Market,
         b.log = MarketLog("UniverseForked", m)
  PROVE  LET t == Append(s, b)
         IN  /\ \A x : Was(t, "UniverseForked", x) <=> Was(s, "UniverseForked", x) \/ x = m
             /\ ForkedIn(t)
             /\ \A x : NoOtherFork(t, x) => x = m
             /\ \A x : Did(t, "DisputeCrowdsourcerCompleted", x)
                         <=> Did(s, "DisputeCrowdsourcerCompleted", x)
             /\ \A x : ReportedIn(t, x) <=> ReportedIn(s, x)
             /\ \A x, w : FiledBy(t, x, w) <=> FiledBy(s, x, w)
<1>1. PICK t : t = Append(s, b)
  OBVIOUS
<1>2. /\ \A x : b.log = MarketLog("UniverseForked", x) <=> x = m
      /\ \A x : b.log # CrowdLog("DisputeCrowdsourcerCompleted", x)
      /\ \A x : b.log # CrowdLog("DisputeCrowdsourcerCreated", x)
      /\ b.log.kind # "InitialReportSubmitted"
  BY DEF MarketLog, CrowdLog
<1>3. \A x : Was(t, "UniverseForked", x) <=> Was(s, "UniverseForked", x) \/ x = m
  BY <1>1, <1>2, Grows
<1>4. \A x : Did(t, "DisputeCrowdsourcerCompleted", x) <=> Did(s, "DisputeCrowdsourcerCompleted", x)
  BY <1>1, <1>2, Grows
<1>5. \A x : ReportedIn(t, x) <=> ReportedIn(s, x)
  BY <1>1, <1>2, ReportedAppended
<1>6. \A x, w : FiledBy(t, x, w) <=> FiledBy(s, x, w)
  BY <1>1, <1>2, FiledAppended
<1>7. ForkedIn(t) /\ \A x : NoOtherFork(t, x) => x = m
  BY <1>3 DEF NoOtherFork, ForkedIn
<1> QED
  BY <1>1, <1>3, <1>4, <1>5, <1>6, <1>7

LEMMA ForkTold ==
  ASSUME NEW s \in Seq(Block), NEW b \in Block, NEW m \in Market,
         b.log = MarketLog("UniverseForked", m), ~ForkedIn(s),
         NEW d, NEW e, m \in DOMAIN d.markets,
         DOMAIN e.crowdsourcers = DOMAIN d.crowdsourcers,
         \A c \in DOMAIN d.crowdsourcers :
           /\ e.crowdsourcers[c].feeWindow = d.crowdsourcers[c].feeWindow
           /\ MarketOf[c] = m => e.crowdsourcers[c].completed = d.crowdsourcers[c].completed,
         e.markets[m].disputeRounds = d.markets[m].disputeRounds,
         NEW u, NEW time, Told(d, s, u, time)
  PROVE  Told(e, Append(s, b), u, time)
<1>1. PICK t : t = Append(s, b)
  OBVIOUS
<1>2. /\ ForkedIn(t)
      /\ \A x : NoOtherFork(t, x) => x = m
      /\ \A x : Did(t, "DisputeCrowdsourcerCompleted", x) <=> Did(s, "DisputeCrowdsourcerCompleted", x)
      /\ \A x : ReportedIn(t, x) <=> ReportedIn(s, x)
      /\ \A x, w : FiledBy(t, x, w) <=> FiledBy(s, x, w)
  BY <1>1, ForkLog
<1>3. \A x : NoOtherFork(s, x)
  BY DEF ForkedIn, NoOtherFork
<1>4. Filed(d, s) => Filed(e, t)
  BY <1>2 DEF Filed
<1>5. Won(d, s) => Won(e, t)
  <2>1. SUFFICES ASSUME Won(d, s), NEW c \in DOMAIN d.crowdsourcers, NoOtherFork(t, MarketOf[c])
                 PROVE  e.crowdsourcers[c].completed = 1 <=> Did(t, "DisputeCrowdsourcerCompleted", c)
    BY DEF Won
  <2>2. MarketOf[c] = m
    BY <1>2, <2>1
  <2>3. d.crowdsourcers[c].completed = 1 <=> Did(s, "DisputeCrowdsourcerCompleted", c)
    BY <1>3, <2>1 DEF Won
  <2> QED
    BY <1>2, <2>1, <2>2, <2>3
<1>6. Winners(e, m) = Winners(d, m)
  BY DEF Winners, CrowdsourcersOf
<1>7. Counted(d, s) => Counted(e, t)
  <2>1. SUFFICES ASSUME Counted(d, s), NEW x \in DOMAIN e.markets, ReportedIn(t, x), NoOtherFork(t, x)
                 PROVE  e.markets[x].disputeRounds = Cardinality(Winners(e, x))
    BY DEF Counted
  <2>2. x = m /\ ReportedIn(s, m)
    BY <1>2, <2>1
  <2>3. d.markets[m].disputeRounds = Cardinality(Winners(d, m))
    BY <1>3, <2>1, <2>2 DEF Counted
  <2> QED
    BY <1>6, <2>2, <2>3
<1>8. Told(e, t, u, time)
  BY <1>2, <1>4, <1>5, <1>7 DEF Told
<1> QED
  BY <1>1, <1>8

LEMMA ForkUntold ==
  ASSUME NEW s \in Seq(Block), NEW b \in Block, NEW m \in Market,
         b.log = MarketLog("UniverseForked", m),
         NEW d, NEW e, KeepsCasting(d, e), NEW u, NEW v, u \subseteq v, "UniverseForked" \in v,
         NEW time, Told(d, Append(s, b), u, time)
  PROVE  Told(e, s, v, time)
<1>1. PICK t : t = Append(s, b)
  OBVIOUS
<1>2. \A x, w : FiledBy(t, x, w) <=> FiledBy(s, x, w)
  BY <1>1, ForkLog
<1>3. Filed(d, t) => Filed(e, s)
  BY <1>2, FiledKept
<1>4. "time" \notin v => Filed(e, s)
  BY <1>1, <1>3 DEF Told
<1>5. /\ v \cap {"time", "UniverseForked"} # {}
      /\ v \cap {"time", "UniverseForked", "DisputeCrowdsourcerCompleted"} # {}
  OBVIOUS
<1> QED
  BY <1>4, <1>5 DEF Told

LEMMA UniverseForkedTells ==
  ASSUME MarketAssumption, RunAssumption, IInv, RInv, IInv', NEW t \in Times, NEW m \in Market,
         AddUniverseForked(t, m)
  PROVE  RInv'
<1> DEFINE found == AdvanceTime(db, t)
           log == MarketLog("UniverseForked", m)
           b == Added(t, log)
           e == UniverseForked(found, Genesis, m)
<1>1. /\ found \in Tables /\ t \in Nat
      /\ \A x \in Market : x \in DOMAIN found.markets <=> Was(chain, "MarketCreated", x)
  BY FoundTables
<1>2. log \in Logs /\ chain \in Seq(Block)
  BY LogsAreLogs DEF Kinds, IInv
<1>3. Mining(t) /\ Extend(t, log, e) /\ ~ForkedIn(chain)
  BY Seen DEF AddUniverseForked, ForkDue
<1>4. \A x \in Market : ~StartsRound(log, x)
  BY DEF StartsRound, MarketLog
<1>5. LegalInRound(chain, t, log)
  BY <1>1, <1>3, LegalAtAnyTime DEF MarketLog, CrowdKinds
<1>6. b \in Block /\ b.log = log
  BY <1>2, AddedBlock
<1>7. Told(found, chain, unwound, t)
  BY <1>3, TimeTold
<1> HIDE DEF found, b
<1>8. m \in DOMAIN found.markets
  <2>1. chain' = Append(chain, b)
    BY <1>3 DEF Extend, Added, b
  <2>2. Sane(chain') /\ chain' \in Seq(Block)
    <3>1. chain' \in Seq(Block) /\ History(chain')
      BY DEF IInv
    <3>2. Len(chain') \in 0..Len(chain') /\ SubSeq(chain', 1, Len(chain')) = chain'
      BY <3>1, WholePrefix
    <3> QED
      BY <3>1, <3>2 DEF History
  <2>3. Was(chain', "UniverseForked", m)
    BY <1>2, <1>6, <2>1, Grows
  <2>4. Was(chain', "MarketCreated", m)
    BY <2>2, <2>3 DEF Sane, SaneMarket
  <2>5. log # MarketLog("MarketCreated", m)
    BY DEF MarketLog
  <2>6. Was(chain, "MarketCreated", m)
    BY <1>2, <1>6, <2>1, <2>4, <2>5, Grows
  <2> QED
    BY <1>1, <2>6
<1>9. /\ DOMAIN e.crowdsourcers = DOMAIN found.crowdsourcers
      /\ \A c \in DOMAIN found.crowdsourcers :
           /\ e.crowdsourcers[c].feeWindow = found.crowdsourcers[c].feeWindow
           /\ MarketOf[c] = m => e.crowdsourcers[c].completed = found.crowdsourcers[c].completed
      /\ e.markets[m].disputeRounds = found.markets[m].disputeRounds
  BY <1>1, <1>8, ForkRows
<1>10. b.log = MarketLog("UniverseForked", m)
  BY <1>6
<1> HIDE DEF log, e
<1>11. Told(e, Append(chain, b), unwound, t)
  BY <1>2, <1>3, <1>6, <1>7, <1>8, <1>9, <1>10, ForkTold
<1> QED
  BY <1>2, <1>3, <1>4, <1>5, <1>11, RExtended DEF b

LEMMA UniverseForkedUntells ==
  ASSUME MarketAssumption, RunAssumption, IInv, RInv, IInv', NEW m \in Market, RemoveUniverseForked(m)
  PROVE  RInv'
<1> DEFINE s == SubSeq(chain, 1, Len(chain) - 1)
           b == Final(chain)
           log == MarketLog("UniverseForked", m)
           e(f) == UniverseForkedRemoval(db, Genesis, f)
<1>1. /\ Removing(log)
      /\ Throw \/ \E f \in ForkingMarkets(db, Genesis) : Retract(e(f))
  BY DEF RemoveUniverseForked
<1>2. /\ s \in Seq(Block) /\ b \in Block /\ chain = Append(s, b) /\ b.log = log
      /\ chain # <<>> /\ db \in Tables /\ Told(db, chain, unwound, b.time)
  BY <1>1, Undoing
<1>3. ASSUME NEW f, Retract(e(f))
      PROVE  RInv'
  <2>1. PICK g : g = e(f)
    OBVIOUS
  <2>2. Retract(g) /\ KeepsCasting(db, g)
    BY <1>2, <1>3, <2>1, ForkRemovalKeeps
  <2>3. log.kind = "UniverseForked"
    BY DEF MarketLog
  <2>4. db' = g /\ unwound \subseteq unwound' /\ b.log.kind \in unwound'
    BY <2>2 DEF Retract
  <2> HIDE DEF s, b
  <2>5. g \in Tables /\ "UniverseForked" \in unwound'
    BY <1>2, <2>3, <2>4 DEF IInv
  <2>6. Told(db, Append(s, b), unwound, b.time) /\ b.log = MarketLog("UniverseForked", m)
    BY <1>2
  <2> HIDE DEF log
  <2>7. Told(g, s, unwound', b.time)
    BY <1>2, <2>2, <2>4, <2>5, <2>6, ForkUntold
  <2> QED
    BY <1>2, <2>2, <2>5, <2>7, RRetracted DEF s, b
<1> QED
  BY <1>1, <1>3, ThrowKeeps

-----------------------------------------------------------------------------
(* The invariant holds. *)

LEMMA RoundsInit ==
  ASSUME MarketAssumption, RunAssumption, Init
  PROVE  RInv
<1>1. PICK s \in Seq(Block) : s = chain /\ s = <<>> /\ Len(s) = 0 /\ SubSeq(s, 1, 0) = s
  <2>1. chain = <<>>
    BY DEF Init
  <2>2. <<>> \in Seq(Block) /\ Len(<<>>) = 0
    OBVIOUS
  <2>3. PICK s \in Seq(Block) : s = <<>>
    BY <2>2
  <2>4. Len(s) = 0
    BY <2>3
  <2>5. SubSeq(s, 1, 0) = s
    BY <2>3, <2>4
  <2> QED
    BY <2>1, <2>3, <2>4, <2>5
<1>2. RoundsPresent(s)
  BY <1>1, NothingIn DEF RoundsPresent
<1>3. Rounds(s)
  <2>1. \A n \in 0..0 : n = 0 /\ ~(n < 0)
    OBVIOUS
  <2> QED
    BY <1>1, <1>2, <2>1 DEF Rounds
<1>4. DOMAIN db.crowdsourcers = {} /\ DOMAIN db.markets = {}
  BY InitTables DEF Init
<1>5. \A u, time : Told(db, s, u, time)
  BY <1>4 DEF Told, Filed, Won, Counted, SettledRight
<1> QED
  BY <1>1, <1>3, <1>5 DEF RInv

LEMMA RoundsStep ==
  ASSUME MarketAssumption, RunAssumption, IInv, RInv, [Next]_vars
  PROVE  RInv'
<1>1. IInv'
  BY StepInvariant
<1>2. ASSUME NEW t \in Times, AddLog(t) PROVE RInv'
  <2>1. CASE AddBlock(t)
    BY <1>1, <2>1, NoLogTells
  <2>2. CASE \E m \in Market : \/ AddMarketCreated(t, m) \/ AddMarketFinalized(t, m)
                               \/ AddUniverseForked(t, m) \/ AddMarketMigrated(t, m)
                               \/ AddMarketParticipantsDisavowed(t, m)
                               \/ \E p \in Payout : AddInitialReportSubmitted(t, m, p)
    BY <1>1, <2>2, MarketCreatedTells, MarketFinalizedTells, UniverseForkedTells,
       MarketMigratedTells, MarketDisavowedTells, ReportTells
  <2>3. CASE \E w \in Windows : AddFeeWindowCreated(t, w)
    BY <1>1, <2>3, FeeWindowCreatedTells
  <2>4. CASE \E c \in Crowdsourcer : \/ AddDisputeCrowdsourcerCreated(t, c)
                                     \/ AddDisputeCrowdsourcerContribution(t, c)
                                     \/ AddDisputeCrowdsourcerCompleted(t, c)
    BY <1>1, <2>4, CrowdsourcerCreatedTells, ContributionTells, CompletedTells
  <2>5. CASE \E x \in Market \cup Crowdsourcer : AddReportingParticipantDisavowed(t, x)
    BY <1>1, <2>5, ParticipantDisavowedTells
  <2> QED
    BY <1>2, <2>1, <2>2, <2>3, <2>4, <2>5 DEF AddLog
<1>3. ASSUME RemoveLog PROVE RInv'
  <2>1. CASE RemoveBlock
    BY <1>1, <2>1, NoLogUntells
  <2>2. CASE \E m \in Market : \/ RemoveMarketCreated(m) \/ RemoveMarketFinalized(m)
                               \/ RemoveUniverseForked(m) \/ RemoveMarketMigrated(m)
                               \/ RemoveMarketParticipantsDisavowed(m)
                               \/ \E p \in Payout : RemoveInitialReportSubmitted(m, p)
    BY <1>1, <2>2, MarketCreatedUntells, MarketFinalizedUntells, UniverseForkedUntells,
       MarketMigratedUntells, MarketDisavowedUntells, ReportUntells
  <2>3. CASE \E w \in Windows : RemoveFeeWindowCreated(w)
    BY <1>1, <2>3, FeeWindowCreatedUntells
  <2>4. CASE \E c \in Crowdsourcer : \/ RemoveDisputeCrowdsourcerCreated(c)
                                     \/ RemoveDisputeCrowdsourcerContribution(c)
                                     \/ RemoveDisputeCrowdsourcerCompleted(c)
    BY <1>1, <2>4, CrowdsourcerCreatedUntells, ContributionUntells, CompletedUntells
  <2>5. CASE \E x \in Market \cup Crowdsourcer : RemoveReportingParticipantDisavowed(x)
    BY <1>1, <2>5, ParticipantDisavowedUntells
  <2> QED
    BY <1>3, <2>1, <2>2, <2>3, <2>4, <2>5 DEF RemoveLog
<1>4. ASSUME UNCHANGED vars PROVE RInv'
  <2>1. UNCHANGED chain /\ UNCHANGED db /\ UNCHANGED unwound
    BY <1>4 DEF vars
  <2> QED
    BY <2>1 DEF RInv
<1> QED
  BY <1>2, <1>3, <1>4 DEF Next

\* Every crowdsourcer's log comes in the fee window of the round its market is
\* in, and the tables follow the rounds: a crowdsourcer stays filed under the
\* window it was created for, the completed ones of a market are those the
\* chain has completed and their number is the market's count of rounds, and
\* each crowdsourcer stands as its round left it.  It lasts as far as no block
\* was taken back whose removal the log processors do not undo in full.
THEOREM RoundsFollowTheChain == Spec => []RInv
<1>1. Init => RInv
  BY RoundsInit, MarketAssumption, RunAssumption
<1>2. IInv /\ RInv /\ [Next]_vars => RInv'
  BY RoundsStep, MarketAssumption, RunAssumption
<1> QED
  BY <1>1, <1>2, TablesFollowTheChain, PTL DEF Spec

-----------------------------------------------------------------------------
(* What the runs check of rounds and of crowdsourcers. *)

LEMMA NotUndone ==
  ASSUME NEW S, ~Undone(S)
  PROVE  unwound \cap S = {}
BY DEF Undone

\* The dispute rounds counted in a market's row are the crowdsourcers of it that
\* have completed on the chain, until a block is taken back whose time had moved
\* the tables, or that forked; of the forking market they still are after that.
THEOREM RoundsCountedHolds == Spec => []RoundsCounted
<1>1. IInv /\ RInv => RoundsCounted
  <2>1. SUFFICES ASSUME IInv, RInv, ~Undone({"time", "UniverseForked"}),
                        NEW m \in DOMAIN db.markets, Reported(m), Forking \subseteq {m}
                 PROVE  db.markets[m].disputeRounds =
                          Cardinality({c \in Crowdsourcer : MarketOf[c] = m /\ Completed(c)})
    BY DEF RoundsCounted
  <2>2. db \in Tables /\ Follows(db, chain) /\ chain \in Seq(Block) /\ Sane(chain) /\ m \in Market
    BY <2>1, WholeChain, MarketRows DEF IInv
  <2>3. Won(db, chain) /\ Counted(db, chain)
    BY <2>1, NotUndone DEF RInv, Told
  <2>4. ReportedIn(chain, m) /\ NoOtherFork(chain, m)
    BY <2>1, Seen DEF NoOtherFork
  <2>5. {c \in Crowdsourcer : MarketOf[c] = m /\ Completed(c)} = Winners(db, m)
    <3>1. ASSUME NEW c \in Crowdsourcer, MarketOf[c] = m, Completed(c)
          PROVE  c \in Winners(db, m)
      <4>1. Did(chain, "DisputeCrowdsourcerCompleted", c)
        BY <3>1, Seen
      <4>2. c \in DOMAIN db.crowdsourcers
        BY <2>2, <4>1 DEF Sane, SaneCrowdsourcer, Follows, StakesFollow
      <4>3. db.crowdsourcers[c].completed = 1
        BY <2>3, <2>4, <3>1, <4>1, <4>2 DEF Won
      <4> QED
        BY <3>1, <4>2, <4>3 DEF Winners, CrowdsourcersOf
    <3>2. ASSUME NEW c \in Winners(db, m)
          PROVE  c \in Crowdsourcer /\ MarketOf[c] = m /\ Completed(c)
      <4>1. c \in DOMAIN db.crowdsourcers /\ MarketOf[c] = m /\ db.crowdsourcers[c].completed = 1
        BY DEF Winners, CrowdsourcersOf
      <4>2. c \in Crowdsourcer
        BY <2>2, <4>1, CastRows, MarketAssumption
      <4>3. Did(chain, "DisputeCrowdsourcerCompleted", c)
        BY <2>3, <2>4, <4>1 DEF Won
      <4> QED
        BY <4>1, <4>2, <4>3, Seen
    <3> QED
      BY <3>1, <3>2
  <2>6. db.markets[m].disputeRounds = Cardinality(Winners(db, m))
    BY <2>3, <2>4 DEF Counted
  <2> QED
    BY <2>5, <2>6
<1> QED
  BY <1>1, TablesFollowTheChain, RoundsFollowTheChain, PTL

\* Until the universe forks a crowdsourcer's row is what became of it on the
\* chain: completed, open until its window ends, or failed; disavowed when its
\* round has gone on without it; filed under the window of its round while it
\* is of it; with the stake contributed to it.
THEOREM CrowdsourcersSettledHolds == Spec => []CrowdsourcersSettled
<1>1. IInv /\ RInv => CrowdsourcersSettled
  <2>1. SUFFICES ASSUME IInv, RInv,
                        ~Undone({"time", "DisputeCrowdsourcerCompleted", "UniverseForked"}),
                        Forking = {}, NEW c \in DOMAIN db.crowdsourcers
                 PROVE  LET row == db.crowdsourcers[c]
                            open == ThisRound("DisputeCrowdsourcerCreated", c)
                        IN /\ row.completed = IF Completed(c) THEN 1
                                              ELSE IF open /\ Now <= EndOf(row.feeWindow) THEN None ELSE 0
                           /\ row.disavowed = IF Completed(c) \/ open THEN 0 ELSE 1
                           /\ open => row.feeWindow = RoundWindow(MarketOf[c])
                           /\ row.staked = IF Has(CrowdLog("DisputeCrowdsourcerContribution", c))
                                           THEN Size[c] ELSE 0
    BY DEF CrowdsourcersSettled
  <2>2. db \in Tables /\ Follows(db, chain) /\ chain \in Seq(Block) /\ Sane(chain) /\ Rounds(chain)
    BY <2>1, WholeChain DEF IInv, RInv
  <2>3. c \in Crowdsourcer /\ MarketOf[c] \in Market
    BY <2>2, CastRows, MarketAssumption
  <2>4. Filed(db, chain) /\ SettledRight(db, chain, Now)
    <3>1. ~ForkedIn(chain) /\ Now = TimeAt(chain, Len(chain))
      BY <2>1, <2>2, Seen, TimeOfHead
    <3>2. unwound \cap {"time", "UniverseForked", "DisputeCrowdsourcerCompleted"} = {}
      BY <2>1, NotUndone
    <3>3. "time" \notin unwound
      BY <3>2
    <3> QED
      BY <2>1, <3>1, <3>2, <3>3 DEF RInv, Told
  <2>5. Did(chain, "DisputeCrowdsourcerCreated", c)
    BY <2>2, <2>3 DEF Follows, StakesFollow
  <2>6. ReportedIn(chain, MarketOf[c]) /\ Reported(MarketOf[c])
    BY <2>2, <2>3, <2>5, Seen DEF Sane, SaneCrowdsourcer
  <2>7. ThisRound("DisputeCrowdsourcerCreated", c) <=> IsOpen(chain, c)
    BY <2>1, <2>3, <2>6, OpenSeen
  <2>8. Completed(c) <=> Did(chain, "DisputeCrowdsourcerCompleted", c)
    BY Seen
  <2>9. SettledAt(db.crowdsourcers[c], Completed(c), ThisRound("DisputeCrowdsourcerCreated", c), Now)
    BY <2>4, <2>7, <2>8 DEF SettledRight, SettledAt
  <2>10. ASSUME IsOpen(chain, c)
         PROVE  db.crowdsourcers[c].feeWindow = RoundWindow(MarketOf[c])
    <3>1. Len(chain) \in 0..Len(chain) /\ SubSeq(chain, 1, Len(chain)) = chain
      BY <2>2, WholePrefix
    <3>2. IsOpen(SubSeq(chain, 1, Len(chain)), c)
      BY <2>10, <3>1
    <3>3. FiledBy(chain, c, db.crowdsourcers[c].feeWindow)
      BY <2>4 DEF Filed
    <3>4. db.crowdsourcers[c].feeWindow = RoundIn(SubSeq(chain, 1, Len(chain)), MarketOf[c])
      BY <2>1, <2>3, <3>1, <3>2, <3>3, OpenFiled, MarketAssumption
    <3>5. RoundWindow(MarketOf[c]) = RoundIn(chain, MarketOf[c])
      BY <2>1, <2>3, <2>6, RoundSeen
    <3> QED
      BY <3>1, <3>4, <3>5
  <2>11. db.crowdsourcers[c].staked =
           IF Has(CrowdLog("DisputeCrowdsourcerContribution", c)) THEN Size[c] ELSE 0
    <3>1. db.crowdsourcers[c].staked =
            IF Did(chain, "DisputeCrowdsourcerContribution", c) THEN Size[c] ELSE 0
      BY <2>2, <2>3 DEF Follows, StakesFollow
    <3> QED
      BY <3>1, Seen DEF Did
  <2> QED
    BY <2>7, <2>9, <2>10, <2>11 DEF SettledAt
<1> QED
  BY <1>1, TablesFollowTheChain, RoundsFollowTheChain, PTL
=============================================================================
