--------------------------- MODULE ReportingProofs --------------------------
(***************************************************************************)
(* Proofs about MarketReporting.                                           *)
(***************************************************************************)
EXTENDS MarketReporting, TablesProofs, SequenceTheorems
-----------------------------------------------------------------------------
(* The chain: what is on it, and what must be before each log. *)

Kinds == {"MarketCreated", "MarketFinalized", "UniverseForked", "MarketMigrated",
          "MarketParticipantsDisavowed"}
CrowdKinds == {"DisputeCrowdsourcerCreated", "DisputeCrowdsourcerContribution",
               "DisputeCrowdsourcerCompleted"}
Logs == {NoLog} \cup {MarketLog(k, m) : k \in Kinds, m \in Market}
        \cup {ReportLog(m, p) : m \in Market, p \in Payout}
        \cup {CrowdLog(k, c) : k \in CrowdKinds, c \in Crowdsourcer}
        \cup {WindowLog(w) : w \in Window}
        \cup {ParticipantLog(x) : x \in Market \cup Crowdsourcer}
Block == [time : Nat, log : Logs, moved : BOOLEAN, before : Tables]

In(s, log)       == \E i \in 1..Len(s) : s[i].log = log
Was(s, kind, m)  == In(s, MarketLog(kind, m))
Did(s, kind, c)  == In(s, CrowdLog(kind, c))
ReportedIn(s, m) == \E i \in 1..Len(s) :
                      s[i].log.kind = "InitialReportSubmitted" /\ s[i].log.market = m
ForkedIn(s)      == \E m \in Market : Was(s, "UniverseForked", m)
DecidedIn(s)     == \E m \in Market : Was(s, "UniverseForked", m) /\ Was(s, "MarketFinalized", m)

\* What the contracts guarantee of the chain a log is added to.
LegalAfter(s, log) ==
  /\ log # NoLog => ~In(s, log)
  /\ \A m \in Market :
       /\ log = MarketLog("MarketCreated", m) => ~ForkedIn(s)
       /\ log = MarketLog("MarketFinalized", m) =>
            /\ Was(s, "MarketCreated", m)
            /\ \/ Was(s, "UniverseForked", m) \/ ~ForkedIn(s) \/ Was(s, "MarketMigrated", m)
       /\ log = MarketLog("UniverseForked", m) =>
            ReportedIn(s, m) /\ ~ForkedIn(s) /\ ~Was(s, "MarketFinalized", m)
       /\ log = MarketLog("MarketMigrated", m) =>
            Was(s, "MarketCreated", m) /\ ~Was(s, "UniverseForked", m) /\ DecidedIn(s)
       /\ log = MarketLog("MarketParticipantsDisavowed", m) =>
            Was(s, "MarketCreated", m) /\ ~Was(s, "UniverseForked", m) /\ ForkedIn(s)
       /\ \A p \in Payout : log = ReportLog(m, p) => Was(s, "MarketCreated", m) /\ ~ReportedIn(s, m)
  /\ \A c \in Crowdsourcer :
       /\ log = CrowdLog("DisputeCrowdsourcerCreated", c) => ReportedIn(s, MarketOf[c])
       /\ log = CrowdLog("DisputeCrowdsourcerContribution", c) => Did(s, "DisputeCrowdsourcerCreated", c)
       /\ log = CrowdLog("DisputeCrowdsourcerCompleted", c) =>
            /\ Did(s, "DisputeCrowdsourcerContribution", c)
            /\ ~Was(s, "MarketFinalized", MarketOf[c])
  /\ \A x \in Market \cup Crowdsourcer : log = ParticipantLog(x) =>
       \/ x \in Market /\ Was(s, "UniverseForked", x)
       \/ x \in Crowdsourcer /\ Did(s, "DisputeCrowdsourcerCompleted", x)
  /\ \A w \in Window : log = WindowLog(w) => w \notin Prepared

\* What follows of it for a chain.
SaneMarket(s, m) ==
  /\ ReportedIn(s, m) => Was(s, "MarketCreated", m)
  /\ Was(s, "UniverseForked", m) => ReportedIn(s, m)
  /\ Was(s, "MarketFinalized", m) => Was(s, "MarketCreated", m)
  /\ Was(s, "MarketMigrated", m) =>
       Was(s, "MarketCreated", m) /\ ~Was(s, "UniverseForked", m) /\ DecidedIn(s)
  /\ Was(s, "MarketParticipantsDisavowed", m) =>
       Was(s, "MarketCreated", m) /\ ~Was(s, "UniverseForked", m) /\ ForkedIn(s)
  /\ \A f \in Market : Was(s, "UniverseForked", m) /\ Was(s, "UniverseForked", f) => m = f
LastStart(s, m) ==
  ReportedIn(s, m) => \E i \in 1..Len(s) : /\ StartsRound(s[i].log, m)
                                           /\ \A j \in 1..Len(s) : StartsRound(s[j].log, m) => j <= i
SaneCrowdsourcer(s, c) ==
  /\ Did(s, "DisputeCrowdsourcerCreated", c) => ReportedIn(s, MarketOf[c])
  /\ Did(s, "DisputeCrowdsourcerContribution", c) => Did(s, "DisputeCrowdsourcerCreated", c)
  /\ Did(s, "DisputeCrowdsourcerCompleted", c) => Did(s, "DisputeCrowdsourcerContribution", c)
Sane(s) == /\ \A m \in Market : SaneMarket(s, m) /\ LastStart(s, m)
           /\ \A c \in Crowdsourcer : SaneCrowdsourcer(s, c)

History(s) ==
  \A n \in 0..Len(s) : /\ Sane(SubSeq(s, 1, n))
                       /\ n < Len(s) => LegalAfter(SubSeq(s, 1, n), s[n + 1].log)

\* The tables have a row for what is on the chain, and the flags of its fork.
MarketsFollow(d, s) ==
  \A m \in Market : m \in DOMAIN d.markets <=> Was(s, "MarketCreated", m)
ReportsFollow(d, s) == \A m \in Market : m \in DOMAIN d.reports <=> ReportedIn(s, m)
StakesFollow(d, s) ==
  /\ IsFiniteSet(DOMAIN d.crowdsourcers)
  /\ \A c \in Crowdsourcer :
       /\ c \in DOMAIN d.crowdsourcers <=> Did(s, "DisputeCrowdsourcerCreated", c)
       /\ c \in DOMAIN d.crowdsourcers =>
            d.crowdsourcers[c].staked =
              IF Did(s, "DisputeCrowdsourcerContribution", c) THEN Size[c] ELSE 0
WindowsFollow(d, s) ==
  /\ IsFiniteSet(DOMAIN d.windows)
  /\ \A w \in Window : w \in DOMAIN d.windows <=> w \in Prepared \/ In(s, WindowLog(w))

HomeIn(s, m)     == IF Was(s, "MarketMigrated", m) THEN Child ELSE Genesis
ForkerIn(s, m)   == IF Was(s, "UniverseForked", m) THEN 1 ELSE 0
MigrationIn(s, m) ==
  IF DecidedIn(s) /\ ~Was(s, "UniverseForked", m) /\ ~Was(s, "MarketMigrated", m) THEN 1 ELSE 0
DisavowalIn(s, m) ==
  (IF ForkedIn(s) /\ ~Was(s, "UniverseForked", m) THEN 1 ELSE 0)
    - (IF Was(s, "MarketMigrated", m) THEN 1 ELSE 0)
    - (IF Was(s, "MarketParticipantsDisavowed", m) THEN 1 ELSE 0)

FlagsFollow(d, s) ==
  /\ Genesis \in d.forked <=> ForkedIn(s)
  /\ \A m \in DOMAIN d.markets :
       Owes(d.markets[m], HomeIn(s, m), ForkerIn(s, m), MigrationIn(s, m), DisavowalIn(s, m))

-----------------------------------------------------------------------------
(* A chain with one more block. *)

LEMMA Appended ==
  ASSUME NEW s \in Seq(Block), NEW b \in Block
  PROVE  /\ Append(s, b) \in Seq(Block) /\ Len(Append(s, b)) = Len(s) + 1
         /\ Append(s, b)[Len(s) + 1] = b
         /\ \A i \in 1..Len(s) : Append(s, b)[i] = s[i]
OBVIOUS

LEMMA InAppended ==
  ASSUME NEW s \in Seq(Block), NEW b \in Block, NEW log
  PROVE  In(Append(s, b), log) <=> In(s, log) \/ b.log = log
<1> DEFINE t == Append(s, b)
<1>1. PICK n \in Nat : n = Len(s)
  OBVIOUS
<1>2. Len(t) = n + 1 /\ t[n + 1] = b /\ \A i \in 1..n : t[i] = s[i]
  BY <1>1, Appended
<1> HIDE DEF t
<1>3. ASSUME In(t, log) PROVE In(s, log) \/ b.log = log
  BY <1>1, <1>2, <1>3 DEF In
<1>4. ASSUME In(s, log) PROVE In(t, log)
  <2>1. PICK i \in 1..n : s[i].log = log
    BY <1>1, <1>4 DEF In
  <2>2. i \in 1..n + 1
    OBVIOUS
  <2> QED
    BY <1>2, <2>1, <2>2 DEF In
<1>5. ASSUME b.log = log PROVE In(t, log)
  <2>1. n + 1 \in 1..n + 1
    OBVIOUS
  <2> QED
    BY <1>2, <1>5, <2>1 DEF In
<1> QED
  BY <1>3, <1>4, <1>5 DEF t

LEMMA ReportedAppended ==
  ASSUME NEW s \in Seq(Block), NEW b \in Block, NEW m
  PROVE  ReportedIn(Append(s, b), m) <=>
           ReportedIn(s, m) \/ (b.log.kind = "InitialReportSubmitted" /\ b.log.market = m)
<1> DEFINE t == Append(s, b)
           Rep(l) == l.kind = "InitialReportSubmitted" /\ l.market = m
<1>1. PICK n \in Nat : n = Len(s)
  OBVIOUS
<1>2. Len(t) = n + 1 /\ t[n + 1] = b /\ \A i \in 1..n : t[i] = s[i]
  BY <1>1, Appended
<1>3. /\ ReportedIn(t, m) <=> \E i \in 1..n + 1 : Rep(t[i].log)
      /\ ReportedIn(s, m) <=> \E i \in 1..n : Rep(s[i].log)
  BY <1>1, <1>2 DEF ReportedIn
<1> HIDE DEF t, Rep
<1>4. \A i \in 1..n + 1 : i \in 1..n \/ i = n + 1
  OBVIOUS
<1>5. n + 1 \in 1..n + 1 /\ \A i \in 1..n : i \in 1..n + 1
  OBVIOUS
<1>6. ReportedIn(t, m) <=> ReportedIn(s, m) \/ Rep(b.log)
  BY <1>2, <1>3, <1>4, <1>5
<1>7. Rep(b.log) <=> b.log.kind = "InitialReportSubmitted" /\ b.log.market = m
  BY DEF Rep
<1> QED
  BY <1>6, <1>7 DEF t

LEMMA PrefixOfAppended ==
  ASSUME NEW s \in Seq(Block), NEW b \in Block, NEW n \in 0..Len(s)
  PROVE  SubSeq(Append(s, b), 1, n) = SubSeq(s, 1, n)
<1> DEFINE t == Append(s, b)
<1>1. PICK l \in Nat : l = Len(s)
  OBVIOUS
<1>2. t \in Seq(Block) /\ Len(t) = l + 1 /\ \A i \in 1..l : t[i] = s[i]
  BY <1>1, Appended
<1> HIDE DEF t
<1>3. \A i \in 1..n : t[i] = s[i]
  BY <1>1, <1>2
<1>4. SubSeq(t, 1, n) = [i \in 1..n |-> t[i]] /\ SubSeq(s, 1, n) = [i \in 1..n |-> s[i]]
  BY <1>1, <1>2
<1> QED
  BY <1>3, <1>4 DEF t

LEMMA WholePrefix ==
  ASSUME NEW s \in Seq(Block)
  PROVE  SubSeq(s, 1, Len(s)) = s
OBVIOUS

LEMMA HistoryExtends ==
  ASSUME NEW s \in Seq(Block), NEW b \in Block, History(s), LegalAfter(s, b.log), Sane(Append(s, b))
  PROVE  History(Append(s, b))
<1> DEFINE t == Append(s, b)
<1>1. PICK l \in Nat : l = Len(s)
  OBVIOUS
<1>2. t \in Seq(Block) /\ Len(t) = l + 1 /\ t[l + 1] = b /\ \A i \in 1..l : t[i] = s[i]
  BY <1>1, Appended
<1>3. \A n \in 0..l : SubSeq(t, 1, n) = SubSeq(s, 1, n)
  BY <1>1, PrefixOfAppended
<1>4. SubSeq(s, 1, l) = s
  BY <1>1, WholePrefix
<1>5. Sane(t)
  OBVIOUS
<1> HIDE DEF t
<1>6. SubSeq(t, 1, l + 1) = t
  BY <1>2, WholePrefix
<1>7. ASSUME NEW n \in 0..l + 1
      PROVE  Sane(SubSeq(t, 1, n)) /\ (n < l + 1 => LegalAfter(SubSeq(t, 1, n), t[n + 1].log))
  <2>1. CASE n = l + 1
    <3>1. SubSeq(t, 1, n) = t
      BY <1>6, <2>1
    <3>2. ~(n < l + 1)
      BY <2>1
    <3> QED
      BY <1>5, <3>1, <3>2
  <2>2. CASE n = l
    <3>1. n \in 0..l
      BY <2>2
    <3>2. SubSeq(t, 1, n) = SubSeq(s, 1, n)
      BY <1>3, <3>1
    <3>3. SubSeq(t, 1, n) = s
      BY <1>4, <2>2, <3>2
    <3>4. Sane(SubSeq(s, 1, n)) /\ t[n + 1] = b
      BY <1>1, <1>2, <2>2, <3>1 DEF History
    <3> QED
      BY <3>2, <3>3, <3>4
  <2>3. CASE n < l
    <3>1. n \in 0..l /\ n + 1 \in 1..l
      BY <2>3
    <3> QED
      BY <1>1, <1>2, <1>3, <2>3, <3>1 DEF History
  <2> QED
    BY <2>1, <2>2, <2>3
<1>8. History(t)
  BY <1>2, <1>7 DEF History
<1> QED
  BY <1>8 DEF t

LEMMA HistoryRetracts ==
  ASSUME NEW s \in Seq(Block), NEW b \in Block, History(Append(s, b))
  PROVE  History(s) /\ Sane(s) /\ LegalAfter(s, b.log)
<1> DEFINE t == Append(s, b)
<1>1. PICK l \in Nat : l = Len(s)
  OBVIOUS
<1>2. t \in Seq(Block) /\ Len(t) = l + 1 /\ t[l + 1] = b /\ \A i \in 1..l : t[i] = s[i]
  BY <1>1, Appended
<1>3. \A n \in 0..l : SubSeq(t, 1, n) = SubSeq(s, 1, n)
  BY <1>1, PrefixOfAppended
<1>4. SubSeq(s, 1, l) = s
  BY <1>1, WholePrefix
<1>5. History(t)
  OBVIOUS
<1> HIDE DEF t
<1>6. \A n \in 0..l + 1 : /\ Sane(SubSeq(t, 1, n))
                          /\ n < l + 1 => LegalAfter(SubSeq(t, 1, n), t[n + 1].log)
  BY <1>2, <1>5 DEF History
<1>7. Sane(s) /\ LegalAfter(s, b.log)
  <2>1. l \in 0..l + 1 /\ l < l + 1 /\ l \in 0..l
    OBVIOUS
  <2> QED
    BY <1>2, <1>3, <1>4, <1>6, <2>1
<1>8. ASSUME NEW n \in 0..l
      PROVE  Sane(SubSeq(s, 1, n)) /\ (n < l => LegalAfter(SubSeq(s, 1, n), s[n + 1].log))
  <2>1. n \in 0..l + 1 /\ n < l + 1 /\ (n < l => n + 1 \in 1..l)
    OBVIOUS
  <2>2. Sane(SubSeq(t, 1, n)) /\ LegalAfter(SubSeq(t, 1, n), t[n + 1].log)
    BY <1>6, <2>1
  <2> QED
    BY <1>2, <1>3, <2>1, <2>2
<1>9. History(s)
  BY <1>1, <1>8 DEF History
<1> QED
  BY <1>7, <1>9

LEMMA MarketLogAdded ==
  ASSUME NEW s \in Seq(Block), NEW b \in Block, NEW k \in Kinds, NEW m \in Market,
         b.log = MarketLog(k, m)
  PROVE  LET t == Append(s, b)
         IN  /\ \A j \in Kinds, x \in Market : Was(t, j, x) <=> Was(s, j, x) \/ (j = k /\ x = m)
             /\ \A j \in CrowdKinds, c \in Crowdsourcer : Did(t, j, c) <=> Did(s, j, c)
             /\ \A x \in Market : ReportedIn(t, x) <=> ReportedIn(s, x)
             /\ \A w \in Window : In(t, WindowLog(w)) <=> In(s, WindowLog(w))
<1>1. \A j \in Kinds, x \in Market : b.log = MarketLog(j, x) <=> (j = k /\ x = m)
  BY DEF MarketLog
<1>2. \A j \in CrowdKinds, c \in Crowdsourcer : b.log # CrowdLog(j, c)
  BY DEF MarketLog, CrowdLog, Kinds, CrowdKinds
<1>3. b.log.kind # "InitialReportSubmitted" /\ \A w \in Window : b.log # WindowLog(w)
  BY DEF MarketLog, WindowLog, Kinds
<1>4. \A j \in Kinds, x \in Market :
        Was(Append(s, b), j, x) <=> Was(s, j, x) \/ (j = k /\ x = m)
  BY <1>1, InAppended DEF Was
<1>5. \A j \in CrowdKinds, c \in Crowdsourcer : Did(Append(s, b), j, c) <=> Did(s, j, c)
  BY <1>2, InAppended DEF Did
<1>6. \A x \in Market : ReportedIn(Append(s, b), x) <=> ReportedIn(s, x)
  BY <1>3, ReportedAppended
<1>7. \A w \in Window : In(Append(s, b), WindowLog(w)) <=> In(s, WindowLog(w))
  BY <1>3, InAppended
<1> QED
  BY <1>4, <1>5, <1>6, <1>7

LEMMA CrowdLogAdded ==
  ASSUME NEW s \in Seq(Block), NEW b \in Block, NEW k \in CrowdKinds, NEW c \in Crowdsourcer,
         b.log = CrowdLog(k, c)
  PROVE  LET t == Append(s, b)
         IN  /\ \A j \in Kinds, x \in Market : Was(t, j, x) <=> Was(s, j, x)
             /\ \A j \in CrowdKinds, x \in Crowdsourcer :
                  Did(t, j, x) <=> Did(s, j, x) \/ (j = k /\ x = c)
             /\ \A x \in Market : ReportedIn(t, x) <=> ReportedIn(s, x)
             /\ \A w \in Window : In(t, WindowLog(w)) <=> In(s, WindowLog(w))
<1>1. \A j \in CrowdKinds, x \in Crowdsourcer : b.log = CrowdLog(j, x) <=> (j = k /\ x = c)
  BY DEF CrowdLog
<1>2. \A j \in Kinds, x \in Market : b.log # MarketLog(j, x)
  BY DEF MarketLog, CrowdLog, Kinds, CrowdKinds
<1>3. b.log.kind # "InitialReportSubmitted" /\ \A w \in Window : b.log # WindowLog(w)
  BY DEF CrowdLog, WindowLog, CrowdKinds
<1>4. \A j \in CrowdKinds, x \in Crowdsourcer :
        Did(Append(s, b), j, x) <=> Did(s, j, x) \/ (j = k /\ x = c)
  BY <1>1, InAppended DEF Did
<1>5. \A j \in Kinds, x \in Market : Was(Append(s, b), j, x) <=> Was(s, j, x)
  BY <1>2, InAppended DEF Was
<1>6. \A x \in Market : ReportedIn(Append(s, b), x) <=> ReportedIn(s, x)
  BY <1>3, ReportedAppended
<1>7. \A w \in Window : In(Append(s, b), WindowLog(w)) <=> In(s, WindowLog(w))
  BY <1>3, InAppended
<1> QED
  BY <1>4, <1>5, <1>6, <1>7

LEMMA ReportLogAdded ==
  ASSUME NEW s \in Seq(Block), NEW b \in Block, NEW m \in Market, NEW p \in Payout,
         b.log = ReportLog(m, p)
  PROVE  LET t == Append(s, b)
         IN  /\ \A j \in Kinds, x \in Market : Was(t, j, x) <=> Was(s, j, x)
             /\ \A j \in CrowdKinds, c \in Crowdsourcer : Did(t, j, c) <=> Did(s, j, c)
             /\ \A x \in Market : ReportedIn(t, x) <=> ReportedIn(s, x) \/ x = m
             /\ \A w \in Window : In(t, WindowLog(w)) <=> In(s, WindowLog(w))
<1>1. \A j \in CrowdKinds, x \in Crowdsourcer : b.log # CrowdLog(j, x)
  BY DEF ReportLog, CrowdLog, CrowdKinds
<1>2. \A j \in Kinds, x \in Market : b.log # MarketLog(j, x)
  BY DEF MarketLog, ReportLog, Kinds
<1>3. /\ b.log.kind = "InitialReportSubmitted" /\ b.log.market = m
      /\ \A w \in Window : b.log # WindowLog(w)
  BY DEF ReportLog, WindowLog
<1>4. \A j \in CrowdKinds, c \in Crowdsourcer : Did(Append(s, b), j, c) <=> Did(s, j, c)
  BY <1>1, InAppended DEF Did
<1>5. \A j \in Kinds, x \in Market : Was(Append(s, b), j, x) <=> Was(s, j, x)
  BY <1>2, InAppended DEF Was
<1>6. \A x \in Market : ReportedIn(Append(s, b), x) <=> ReportedIn(s, x) \/ x = m
  BY <1>3, ReportedAppended
<1>7. \A w \in Window : In(Append(s, b), WindowLog(w)) <=> In(s, WindowLog(w))
  BY <1>3, InAppended
<1> QED
  BY <1>4, <1>5, <1>6, <1>7

LEMMA WindowLogAdded ==
  ASSUME NEW s \in Seq(Block), NEW b \in Block, NEW w \in Window, b.log = WindowLog(w)
  PROVE  LET t == Append(s, b)
         IN  /\ \A j \in Kinds, x \in Market : Was(t, j, x) <=> Was(s, j, x)
             /\ \A j \in CrowdKinds, c \in Crowdsourcer : Did(t, j, c) <=> Did(s, j, c)
             /\ \A x \in Market : ReportedIn(t, x) <=> ReportedIn(s, x)
             /\ \A v \in Window : In(t, WindowLog(v)) <=> In(s, WindowLog(v)) \/ v = w
<1>1. \A j \in CrowdKinds, x \in Crowdsourcer : b.log # CrowdLog(j, x)
  BY DEF WindowLog, CrowdLog, CrowdKinds
<1>2. \A j \in Kinds, x \in Market : b.log # MarketLog(j, x)
  BY DEF MarketLog, WindowLog, Kinds
<1>3. b.log.kind # "InitialReportSubmitted" /\ \A v \in Window : b.log = WindowLog(v) <=> v = w
  BY DEF WindowLog
<1>4. \A j \in CrowdKinds, c \in Crowdsourcer : Did(Append(s, b), j, c) <=> Did(s, j, c)
  BY <1>1, InAppended DEF Did
<1>5. \A j \in Kinds, x \in Market : Was(Append(s, b), j, x) <=> Was(s, j, x)
  BY <1>2, InAppended DEF Was
<1>6. \A x \in Market : ReportedIn(Append(s, b), x) <=> ReportedIn(s, x)
  BY <1>3, ReportedAppended
<1>7. \A v \in Window : In(Append(s, b), WindowLog(v)) <=> In(s, WindowLog(v)) \/ v = w
  BY <1>3, InAppended
<1> QED
  BY <1>4, <1>5, <1>6, <1>7

LEMMA OtherLogAdded ==
  ASSUME NEW s \in Seq(Block), NEW b \in Block,
         b.log.kind \in {"none", "ReportingParticipantDisavowed"}
  PROVE  LET t == Append(s, b)
         IN  /\ \A j \in Kinds, x \in Market : Was(t, j, x) <=> Was(s, j, x)
             /\ \A j \in CrowdKinds, c \in Crowdsourcer : Did(t, j, c) <=> Did(s, j, c)
             /\ \A x \in Market : ReportedIn(t, x) <=> ReportedIn(s, x)
             /\ \A w \in Window : In(t, WindowLog(w)) <=> In(s, WindowLog(w))
<1>1. \A j \in CrowdKinds, x \in Crowdsourcer : b.log # CrowdLog(j, x)
  BY DEF CrowdLog, CrowdKinds
<1>2. \A j \in Kinds, x \in Market : b.log # MarketLog(j, x)
  BY DEF MarketLog, Kinds
<1>3. b.log.kind # "InitialReportSubmitted" /\ \A w \in Window : b.log # WindowLog(w)
  BY DEF WindowLog
<1>4. \A j \in CrowdKinds, c \in Crowdsourcer : Did(Append(s, b), j, c) <=> Did(s, j, c)
  BY <1>1, InAppended DEF Did
<1>5. \A j \in Kinds, x \in Market : Was(Append(s, b), j, x) <=> Was(s, j, x)
  BY <1>2, InAppended DEF Was
<1>6. \A x \in Market : ReportedIn(Append(s, b), x) <=> ReportedIn(s, x)
  BY <1>3, ReportedAppended
<1>7. \A w \in Window : In(Append(s, b), WindowLog(w)) <=> In(s, WindowLog(w))
  BY <1>3, InAppended
<1> QED
  BY <1>4, <1>5, <1>6, <1>7

LEMMA Grows ==
  ASSUME NEW s \in Seq(Block), NEW b \in Block
  PROVE  LET t == Append(s, b)
         IN  /\ \A j, x : Was(t, j, x) <=> Was(s, j, x) \/ b.log = MarketLog(j, x)
             /\ \A j, c : Did(t, j, c) <=> Did(s, j, c) \/ b.log = CrowdLog(j, c)
             /\ \A x : ReportedIn(s, x) => ReportedIn(t, x)
             /\ ForkedIn(s) => ForkedIn(t)
             /\ DecidedIn(s) => DecidedIn(t)
<1>1. \A j, x : Was(Append(s, b), j, x) <=> Was(s, j, x) \/ b.log = MarketLog(j, x)
  BY InAppended DEF Was
<1>2. \A j, c : Did(Append(s, b), j, c) <=> Did(s, j, c) \/ b.log = CrowdLog(j, c)
  BY InAppended DEF Did
<1>3. \A x : ReportedIn(s, x) => ReportedIn(Append(s, b), x)
  BY ReportedAppended
<1>4. ForkedIn(s) => ForkedIn(Append(s, b))
  BY <1>1 DEF ForkedIn
<1>5. DecidedIn(s) => DecidedIn(Append(s, b))
  BY <1>1 DEF DecidedIn
<1> QED
  BY <1>1, <1>2, <1>3, <1>4, <1>5

LEMMA ReportOnly ==
  ASSUME NEW s \in Seq(Block), NEW b \in Block, NEW m \in Market,
         ReportedIn(Append(s, b), m), ~ReportedIn(s, m)
  PROVE  \E p \in Payout : b.log = ReportLog(m, p)
<1>1. b.log.kind = "InitialReportSubmitted" /\ b.log.market = m
  BY ReportedAppended
<1>2. b.log \in Logs
  BY DEF Block
<1>3. \E x \in Market, p \in Payout : b.log = ReportLog(x, p)
  BY <1>1, <1>2 DEF Logs, Kinds, CrowdKinds, NoLog, MarketLog, CrowdLog, WindowLog, ParticipantLog
<1> QED
  BY <1>1, <1>3 DEF ReportLog

LEMMA SaneMarketExtends ==
  ASSUME NEW s \in Seq(Block), NEW b \in Block, Sane(s), LegalAfter(s, b.log), NEW m \in Market
  PROVE  SaneMarket(Append(s, b), m)
<1> DEFINE t == Append(s, b)
<1>1. /\ \A j, x : Was(t, j, x) <=> Was(s, j, x) \/ b.log = MarketLog(j, x)
      /\ \A x : ReportedIn(s, x) => ReportedIn(t, x)
      /\ ForkedIn(s) => ForkedIn(t)
      /\ DecidedIn(s) => DecidedIn(t)
  BY Grows
<1>2. ReportedIn(t, m) => ReportedIn(s, m) \/ \E p \in Payout : b.log = ReportLog(m, p)
  BY ReportOnly
<1> HIDE DEF t
<1>3. SaneMarket(s, m) /\ \A f \in Market : SaneMarket(s, f)
  BY DEF Sane
<1>4. \A k, j \in Kinds, x, y \in Market : MarketLog(k, x) = MarketLog(j, y) => k = j /\ x = y
  BY DEF MarketLog
<1>5. DecidedIn(s) => ForkedIn(s)
  BY DEF DecidedIn, ForkedIn
<1>6. ReportedIn(t, m) => Was(t, "MarketCreated", m)
  BY <1>1, <1>2, <1>3 DEF SaneMarket, LegalAfter
<1>7. Was(t, "UniverseForked", m) => ReportedIn(t, m)
  BY <1>1, <1>3 DEF SaneMarket, LegalAfter
<1>8. Was(t, "MarketFinalized", m) => Was(t, "MarketCreated", m)
  BY <1>1, <1>3 DEF SaneMarket, LegalAfter
<1>9. \A x \in Market : Was(t, "UniverseForked", x) /\ ~Was(s, "UniverseForked", x) =>
        ~ForkedIn(s) /\ b.log = MarketLog("UniverseForked", x)
  BY <1>1 DEF LegalAfter
<1>10. Was(t, "MarketMigrated", m) =>
         Was(t, "MarketCreated", m) /\ ~Was(t, "UniverseForked", m) /\ DecidedIn(t)
  <2>1. Was(t, "MarketMigrated", m) =>
          Was(s, "MarketCreated", m) /\ ~Was(s, "UniverseForked", m) /\ DecidedIn(s)
    BY <1>1, <1>3 DEF SaneMarket, LegalAfter
  <2> QED
    BY <1>1, <1>5, <1>9, <2>1
<1>11. Was(t, "MarketParticipantsDisavowed", m) =>
         Was(t, "MarketCreated", m) /\ ~Was(t, "UniverseForked", m) /\ ForkedIn(t)
  <2>1. Was(t, "MarketParticipantsDisavowed", m) =>
          Was(s, "MarketCreated", m) /\ ~Was(s, "UniverseForked", m) /\ ForkedIn(s)
    BY <1>1, <1>3 DEF SaneMarket, LegalAfter
  <2> QED
    BY <1>1, <1>9, <2>1
<1>12. ASSUME NEW f \in Market, Was(t, "UniverseForked", m), Was(t, "UniverseForked", f)
       PROVE  m = f
  <2>1. CASE Was(s, "UniverseForked", m) /\ Was(s, "UniverseForked", f)
    BY <1>3, <2>1 DEF SaneMarket
  <2>2. CASE ~Was(s, "UniverseForked", m) /\ ~Was(s, "UniverseForked", f)
    BY <1>4, <1>9, <1>12, <2>2 DEF Kinds
  <2>3. Was(s, "UniverseForked", m) \/ Was(s, "UniverseForked", f) => ForkedIn(s)
    BY DEF ForkedIn
  <2> QED
    BY <1>9, <1>12, <2>1, <2>2, <2>3
<1> QED
  BY <1>6, <1>7, <1>8, <1>10, <1>11, <1>12 DEF SaneMarket, t

LEMMA LastStartExtends ==
  ASSUME NEW s \in Seq(Block), NEW b \in Block, NEW m \in Market, LastStart(s, m)
  PROVE  LastStart(Append(s, b), m)
<1> DEFINE t == Append(s, b)
<1>1. PICK n \in Nat : n = Len(s)
  OBVIOUS
<1>2. Len(t) = n + 1 /\ t[n + 1] = b /\ \A i \in 1..n : t[i] = s[i]
  BY <1>1, Appended
<1>3. ReportedIn(t, m) => ReportedIn(s, m) \/ StartsRound(b.log, m)
  BY ReportedAppended DEF StartsRound
<1> HIDE DEF t
<1>4. CASE StartsRound(b.log, m)
  <2>1. n + 1 \in 1..n + 1 /\ \A j \in 1..n + 1 : j <= n + 1
    OBVIOUS
  <2> QED
    BY <1>2, <1>4, <2>1 DEF LastStart, t
<1>5. CASE ~StartsRound(b.log, m)
  <2>1. SUFFICES ASSUME ReportedIn(t, m)
                 PROVE  \E i \in 1..n + 1 : /\ StartsRound(t[i].log, m)
                                            /\ \A j \in 1..n + 1 : StartsRound(t[j].log, m) => j <= i
    BY <1>2 DEF LastStart, t
  <2>2. PICK i \in 1..n : /\ StartsRound(s[i].log, m)
                          /\ \A j \in 1..n : StartsRound(s[j].log, m) => j <= i
    BY <1>1, <1>3, <1>5, <2>1 DEF LastStart
  <2>3. i \in 1..n + 1 /\ \A j \in 1..n + 1 : j \in 1..n \/ j = n + 1
    OBVIOUS
  <2> QED
    BY <1>2, <1>5, <2>2, <2>3
<1> QED
  BY <1>4, <1>5

LEMMA SaneExtends ==
  ASSUME MarketAssumption, NEW s \in Seq(Block), NEW b \in Block, Sane(s), LegalAfter(s, b.log)
  PROVE  Sane(Append(s, b))
<1> DEFINE t == Append(s, b)
<1>1. \A m \in Market : SaneMarket(t, m)
  BY SaneMarketExtends
<1>2. \A m \in Market : LastStart(t, m)
  BY LastStartExtends DEF Sane
<1>3. /\ \A j, c : Did(t, j, c) <=> Did(s, j, c) \/ b.log = CrowdLog(j, c)
      /\ \A x : ReportedIn(s, x) => ReportedIn(t, x)
  BY Grows
<1> HIDE DEF t
<1>4. \A c \in Crowdsourcer : SaneCrowdsourcer(t, c)
  BY <1>3 DEF Sane, SaneCrowdsourcer, LegalAfter
<1> QED
  BY <1>1, <1>2, <1>4 DEF Sane, t

-----------------------------------------------------------------------------
(* The tables follow the chain through every log and every removal. *)

Follows(d, s) == /\ MarketsFollow(d, s) /\ ReportsFollow(d, s) /\ StakesFollow(d, s)
                 /\ WindowsFollow(d, s) /\ FlagsFollow(d, s)

\* e has what is on the chain s, and the windows of d.
Tracks(d, e, s) == e \in Tables /\ Follows(e, s) /\ KeepsWindows(d, e)

SameFork(s, t) ==
  \A k \in {"MarketFinalized", "UniverseForked", "MarketMigrated", "MarketParticipantsDisavowed"},
     m \in Market : Was(t, k, m) <=> Was(s, k, m)

LEMMA FlagsOfSameFork ==
  ASSUME NEW s, NEW t, SameFork(s, t), NEW m \in Market
  PROVE  /\ HomeIn(t, m) = HomeIn(s, m) /\ ForkerIn(t, m) = ForkerIn(s, m)
         /\ MigrationIn(t, m) = MigrationIn(s, m) /\ DisavowalIn(t, m) = DisavowalIn(s, m)
         /\ ForkedIn(t) <=> ForkedIn(s)
         /\ DecidedIn(t) <=> DecidedIn(s)
<1>1. \A x \in Market : /\ Was(t, "MarketFinalized", x) <=> Was(s, "MarketFinalized", x)
                        /\ Was(t, "UniverseForked", x) <=> Was(s, "UniverseForked", x)
                        /\ Was(t, "MarketMigrated", x) <=> Was(s, "MarketMigrated", x)
                        /\ Was(t, "MarketParticipantsDisavowed", x)
                             <=> Was(s, "MarketParticipantsDisavowed", x)
  BY DEF SameFork
<1>2. (ForkedIn(t) <=> ForkedIn(s)) /\ (DecidedIn(t) <=> DecidedIn(s))
  BY <1>1 DEF ForkedIn, DecidedIn
<1> QED
  BY <1>1, <1>2 DEF HomeIn, ForkerIn, MigrationIn, DisavowalIn

LEMMA MarketsKept ==
  ASSUME NEW d, NEW e, NEW s, NEW t, MarketsFollow(d, s), DOMAIN e.markets = DOMAIN d.markets,
         \A m \in Market : Was(t, "MarketCreated", m) <=> Was(s, "MarketCreated", m)
  PROVE  MarketsFollow(e, t)
BY DEF MarketsFollow

LEMMA ReportsKept ==
  ASSUME NEW d, NEW e, NEW s, NEW t, ReportsFollow(d, s), KeepsReports(d, e),
         \A m \in Market : ReportedIn(t, m) <=> ReportedIn(s, m)
  PROVE  ReportsFollow(e, t)
BY DEF ReportsFollow, KeepsReports

LEMMA StakesKept ==
  ASSUME NEW d, NEW e, NEW s, NEW t, StakesFollow(d, s), KeepsStakes(d, e),
         \A c \in Crowdsourcer :
           /\ Did(t, "DisputeCrowdsourcerCreated", c) <=> Did(s, "DisputeCrowdsourcerCreated", c)
           /\ Did(t, "DisputeCrowdsourcerContribution", c)
                <=> Did(s, "DisputeCrowdsourcerContribution", c)
  PROVE  StakesFollow(e, t)
BY DEF StakesFollow, KeepsStakes

LEMMA WindowsKept ==
  ASSUME NEW d, NEW e, NEW s, NEW t, WindowsFollow(d, s), DOMAIN e.windows = DOMAIN d.windows,
         \A w \in Window : In(t, WindowLog(w)) <=> In(s, WindowLog(w))
  PROVE  WindowsFollow(e, t)
BY DEF WindowsFollow

LEMMA FlagsKept ==
  ASSUME NEW d \in Tables, NEW e \in Tables, NEW s, NEW t, FlagsFollow(d, s),
         KeepsMarkets(d, e), SameFork(s, t)
  PROVE  FlagsFollow(e, t)
<1>1. \A m \in DOMAIN d.markets : m \in Market
  BY MarketRows
<1>2. \A m \in DOMAIN d.markets :
        Owes(e.markets[m], HomeIn(t, m), ForkerIn(t, m), MigrationIn(t, m), DisavowalIn(t, m))
  <2> SUFFICES ASSUME NEW m \in DOMAIN d.markets
               PROVE  Owes(e.markets[m], HomeIn(t, m), ForkerIn(t, m), MigrationIn(t, m),
                           DisavowalIn(t, m))
    OBVIOUS
  <2>1. Owes(d.markets[m], HomeIn(s, m), ForkerIn(s, m), MigrationIn(s, m), DisavowalIn(s, m))
    BY DEF FlagsFollow
  <2>2. /\ HomeIn(t, m) = HomeIn(s, m) /\ ForkerIn(t, m) = ForkerIn(s, m)
        /\ MigrationIn(t, m) = MigrationIn(s, m) /\ DisavowalIn(t, m) = DisavowalIn(s, m)
    BY <1>1, FlagsOfSameFork
  <2> QED
    BY <2>1, <2>2 DEF Owes, KeepsMarkets
<1>3. Genesis \in e.forked <=> ForkedIn(t)
  <2>1. ForkedIn(t) <=> ForkedIn(s)
    BY DEF SameFork, ForkedIn
  <2> QED
    BY <2>1 DEF FlagsFollow, KeepsMarkets
<1> QED
  BY <1>2, <1>3 DEF FlagsFollow, KeepsMarkets

\* What a log or a removal keeps, with the chain changed in other logs only.
LEMMA FollowsKept ==
  ASSUME NEW d \in Tables, NEW e \in Tables, NEW s, NEW t, Follows(d, s), KeepsAll(d, e),
         SameFork(s, t),
         \A m \in Market : Was(t, "MarketCreated", m) <=> Was(s, "MarketCreated", m),
         \A m \in Market : ReportedIn(t, m) <=> ReportedIn(s, m),
         \A c \in Crowdsourcer :
           /\ Did(t, "DisputeCrowdsourcerCreated", c) <=> Did(s, "DisputeCrowdsourcerCreated", c)
           /\ Did(t, "DisputeCrowdsourcerContribution", c)
                <=> Did(s, "DisputeCrowdsourcerContribution", c),
         \A w \in Window : In(t, WindowLog(w)) <=> In(s, WindowLog(w))
  PROVE  Follows(e, t)
<1>1. /\ KeepsMarkets(d, e) /\ KeepsReports(d, e) /\ KeepsStakes(d, e)
      /\ DOMAIN e.markets = DOMAIN d.markets /\ DOMAIN e.windows = DOMAIN d.windows
  BY DEF KeepsAll, KeepsMarkets, KeepsWindows
<1>2. /\ MarketsFollow(d, s) /\ ReportsFollow(d, s) /\ StakesFollow(d, s)
      /\ WindowsFollow(d, s) /\ FlagsFollow(d, s)
  BY DEF Follows
<1>3. MarketsFollow(e, t)
  BY <1>1, <1>2, MarketsKept
<1>4. ReportsFollow(e, t)
  BY <1>1, <1>2, ReportsKept
<1>5. StakesFollow(e, t)
  BY <1>1, <1>2, StakesKept
<1>6. WindowsFollow(e, t)
  BY <1>1, <1>2, WindowsKept
<1>7. FlagsFollow(e, t)
  BY <1>1, <1>2, FlagsKept
<1> QED
  BY <1>3, <1>4, <1>5, <1>6, <1>7 DEF Follows

LEMMA TimeFollows ==
  ASSUME NEW d \in Tables, NEW s, Follows(d, s), NEW now
  PROVE  LET e == AdvanceTime(d, now)
         IN  e \in Tables /\ Follows(e, s) /\ e.windows = NewWindows(d, now)
<1> DEFINE e == AdvanceTime(d, now)
<1>1. IsFiniteSet(DOMAIN d.windows)
  BY DEF Follows, WindowsFollow
<1>2. /\ e \in Tables /\ e.windows = NewWindows(d, now) /\ e.markets = d.markets
      /\ e.reports = d.reports /\ e.forked = d.forked /\ KeepsStakes(d, e)
  BY <1>1, TimeAdvances
<1> HIDE DEF e
<1>3. DOMAIN e.windows = DOMAIN d.windows
  BY <1>2 DEF NewWindows
<1>4. KeepsMarkets(d, e) /\ KeepsReports(d, e) /\ SameFork(s, s)
  BY <1>2 DEF KeepsMarkets, KeepsReports, SameFork
<1>5. /\ MarketsFollow(d, s) /\ ReportsFollow(d, s) /\ StakesFollow(d, s)
      /\ WindowsFollow(d, s) /\ FlagsFollow(d, s)
  BY DEF Follows
<1>6. MarketsFollow(e, s)
  BY <1>2, <1>5, MarketsKept
<1>7. ReportsFollow(e, s)
  BY <1>4, <1>5, ReportsKept
<1>8. StakesFollow(e, s)
  BY <1>2, <1>5, StakesKept
<1>9. WindowsFollow(e, s)
  BY <1>3, <1>5, WindowsKept
<1>10. FlagsFollow(e, s)
  BY <1>2, <1>4, <1>5, FlagsKept
<1>11. Follows(e, s)
  BY <1>6, <1>7, <1>8, <1>9, <1>10 DEF Follows
<1> QED
  BY <1>2, <1>11 DEF e

LEMMA NoLogFollows ==
  ASSUME NEW s \in Seq(Block), NEW b \in Block, b.log = NoLog
  PROVE  /\ \A d \in Tables : Follows(d, s) => Follows(d, Append(s, b))
         /\ \A d \in Tables : Follows(d, Append(s, b)) => Follows(d, s)
<1> DEFINE t == Append(s, b)
<1>1. b.log.kind \in {"none", "ReportingParticipantDisavowed"}
  BY DEF NoLog
<1>2. /\ \A j \in Kinds, x \in Market : Was(t, j, x) <=> Was(s, j, x)
      /\ \A j \in CrowdKinds, c \in Crowdsourcer : Did(t, j, c) <=> Did(s, j, c)
      /\ \A x \in Market : ReportedIn(t, x) <=> ReportedIn(s, x)
      /\ \A w \in Window : In(t, WindowLog(w)) <=> In(s, WindowLog(w))
  BY <1>1, OtherLogAdded
<1> HIDE DEF t
<1>3. SameFork(s, t) /\ SameFork(t, s)
  BY <1>2 DEF SameFork, Kinds
<1>4. \A m \in Market : Was(t, "MarketCreated", m) <=> Was(s, "MarketCreated", m)
  BY <1>2 DEF Kinds
<1>5. \A c \in Crowdsourcer :
        /\ Did(t, "DisputeCrowdsourcerCreated", c) <=> Did(s, "DisputeCrowdsourcerCreated", c)
        /\ Did(t, "DisputeCrowdsourcerContribution", c)
             <=> Did(s, "DisputeCrowdsourcerContribution", c)
  BY <1>2 DEF CrowdKinds
<1>6. \A d : KeepsAll(d, d)
  BY DEF KeepsAll, KeepsMarkets, KeepsReports, KeepsStakes, KeepsWindows
<1>7. ASSUME NEW d \in Tables, Follows(d, s) PROVE Follows(d, t)
  BY <1>2, <1>3, <1>4, <1>5, <1>6, <1>7, FollowsKept
<1>8. ASSUME NEW d \in Tables, Follows(d, t) PROVE Follows(d, s)
  BY <1>2, <1>3, <1>4, <1>5, <1>6, <1>8, FollowsKept
<1> QED
  BY <1>7, <1>8 DEF t

\* Logs that leave the rows and the flags alone: KeepsAll.
LEMMA CompletionFollows ==
  ASSUME NEW s \in Seq(Block), NEW b \in Block, NEW c \in Crowdsourcer,
         b.log = CrowdLog("DisputeCrowdsourcerCompleted", c),
         NEW d \in Tables, NEW e \in Tables, KeepsAll(d, e)
  PROVE  /\ Follows(d, s) => Follows(e, Append(s, b))
         /\ Follows(d, Append(s, b)) => Follows(e, s)
<1> DEFINE t == Append(s, b)
<1>1. "DisputeCrowdsourcerCompleted" \in CrowdKinds
  BY DEF CrowdKinds
<1>2. /\ \A j \in Kinds, x \in Market : Was(t, j, x) <=> Was(s, j, x)
      /\ \A j \in CrowdKinds, x \in Crowdsourcer :
           Did(t, j, x) <=> Did(s, j, x) \/ (j = "DisputeCrowdsourcerCompleted" /\ x = c)
      /\ \A x \in Market : ReportedIn(t, x) <=> ReportedIn(s, x)
      /\ \A w \in Window : In(t, WindowLog(w)) <=> In(s, WindowLog(w))
  BY <1>1, CrowdLogAdded
<1> HIDE DEF t
<1>3. SameFork(s, t) /\ SameFork(t, s)
  BY <1>2 DEF SameFork, Kinds
<1>4. \A m \in Market : Was(t, "MarketCreated", m) <=> Was(s, "MarketCreated", m)
  BY <1>2 DEF Kinds
<1>5. \A x \in Crowdsourcer :
        /\ Did(t, "DisputeCrowdsourcerCreated", x) <=> Did(s, "DisputeCrowdsourcerCreated", x)
        /\ Did(t, "DisputeCrowdsourcerContribution", x)
             <=> Did(s, "DisputeCrowdsourcerContribution", x)
  BY <1>2 DEF CrowdKinds
<1>6. Follows(d, s) => Follows(e, t)
  BY <1>2, <1>3, <1>4, <1>5, FollowsKept
<1>7. Follows(d, t) => Follows(e, s)
  BY <1>2, <1>3, <1>4, <1>5, FollowsKept
<1> QED
  BY <1>6, <1>7 DEF t

LEMMA ParticipantFollows ==
  ASSUME NEW s \in Seq(Block), NEW b \in Block, NEW x, b.log = ParticipantLog(x),
         NEW d \in Tables, NEW e \in Tables, KeepsAll(d, e)
  PROVE  /\ Follows(d, s) => Follows(e, Append(s, b))
         /\ Follows(d, Append(s, b)) => Follows(e, s)
<1> DEFINE t == Append(s, b)
<1>1. b.log.kind \in {"none", "ReportingParticipantDisavowed"}
  BY DEF ParticipantLog
<1>2. /\ \A j \in Kinds, m \in Market : Was(t, j, m) <=> Was(s, j, m)
      /\ \A j \in CrowdKinds, c \in Crowdsourcer : Did(t, j, c) <=> Did(s, j, c)
      /\ \A m \in Market : ReportedIn(t, m) <=> ReportedIn(s, m)
      /\ \A w \in Window : In(t, WindowLog(w)) <=> In(s, WindowLog(w))
  BY <1>1, OtherLogAdded
<1> HIDE DEF t
<1>3. SameFork(s, t) /\ SameFork(t, s)
  BY <1>2 DEF SameFork, Kinds
<1>4. \A m \in Market : Was(t, "MarketCreated", m) <=> Was(s, "MarketCreated", m)
  BY <1>2 DEF Kinds
<1>5. \A c \in Crowdsourcer :
        /\ Did(t, "DisputeCrowdsourcerCreated", c) <=> Did(s, "DisputeCrowdsourcerCreated", c)
        /\ Did(t, "DisputeCrowdsourcerContribution", c)
             <=> Did(s, "DisputeCrowdsourcerContribution", c)
  BY <1>2 DEF CrowdKinds
<1>6. Follows(d, s) => Follows(e, t)
  BY <1>2, <1>3, <1>4, <1>5, FollowsKept
<1>7. Follows(d, t) => Follows(e, s)
  BY <1>2, <1>3, <1>4, <1>5, FollowsKept
<1> QED
  BY <1>6, <1>7 DEF t

\* A market is created, or its creation is taken back.
LEMMA CreationFollows ==
  ASSUME MarketAssumption, NEW s \in Seq(Block), NEW b \in Block, NEW m \in Market,
         b.log = MarketLog("MarketCreated", m), Sane(s), LegalAfter(s, b.log)
  PROVE  /\ \A d \in Tables : Follows(d, s) =>
              Tracks(d, MarketCreated(d, m), Append(s, b))
         /\ \A d \in Tables : Follows(d, Append(s, b)) =>
              Tracks(d, MarketCreatedRemoval(d, m), s)
<1> DEFINE t == Append(s, b)
<1>1. "MarketCreated" \in Kinds
  BY DEF Kinds
<1>2. /\ \A j \in Kinds, x \in Market : Was(t, j, x) <=> Was(s, j, x) \/ (j = "MarketCreated" /\ x = m)
      /\ \A j \in CrowdKinds, c \in Crowdsourcer : Did(t, j, c) <=> Did(s, j, c)
      /\ \A x \in Market : ReportedIn(t, x) <=> ReportedIn(s, x)
      /\ \A w \in Window : In(t, WindowLog(w)) <=> In(s, WindowLog(w))
  BY <1>1, MarketLogAdded
<1> HIDE DEF t
<1>3. SameFork(s, t) /\ SameFork(t, s)
  BY <1>2 DEF SameFork, Kinds
<1>4. \A x \in Market : Was(t, "MarketCreated", x) <=> Was(s, "MarketCreated", x) \/ x = m
  BY <1>2 DEF Kinds
<1>5. \A c \in Crowdsourcer :
        /\ Did(t, "DisputeCrowdsourcerCreated", c) <=> Did(s, "DisputeCrowdsourcerCreated", c)
        /\ Did(t, "DisputeCrowdsourcerContribution", c)
             <=> Did(s, "DisputeCrowdsourcerContribution", c)
  BY <1>2 DEF CrowdKinds
<1>6. ~Was(s, "MarketCreated", m) /\ ~ForkedIn(s)
  <2>1. b.log # NoLog
    BY DEF MarketLog, NoLog
  <2> QED
    BY <2>1 DEF LegalAfter, Was
<1>7. /\ HomeIn(s, m) = Genesis /\ ForkerIn(s, m) = 0
      /\ MigrationIn(s, m) = 0 /\ DisavowalIn(s, m) = 0
  <2>1. /\ ~Was(s, "MarketMigrated", m) /\ ~Was(s, "UniverseForked", m)
        /\ ~Was(s, "MarketParticipantsDisavowed", m) /\ ~DecidedIn(s)
    BY <1>6 DEF Sane, SaneMarket, ForkedIn, DecidedIn
  <2> QED
    BY <1>6, <2>1 DEF HomeIn, ForkerIn, MigrationIn, DisavowalIn
<1>8. ASSUME NEW d \in Tables, Follows(d, s)
      PROVE  Tracks(d, MarketCreated(d, m), t)
  <2> DEFINE e == MarketCreated(d, m)
  <2>1. /\ e \in Tables /\ KeepsRest(d, e) /\ e.forked = d.forked
        /\ DOMAIN e.markets = DOMAIN d.markets \cup {m} /\ e.markets[m] = NewMarket
        /\ \A x \in DOMAIN d.markets : x # m => e.markets[x] = d.markets[x]
    BY MarketCreates
  <2> HIDE DEF e
  <2>2. KeepsReports(d, e) /\ KeepsStakes(d, e) /\ DOMAIN e.windows = DOMAIN d.windows
    BY <2>1 DEF KeepsRest, KeepsWindows
  <2>3. /\ MarketsFollow(d, s) /\ ReportsFollow(d, s) /\ StakesFollow(d, s)
        /\ WindowsFollow(d, s) /\ FlagsFollow(d, s)
    BY <1>8 DEF Follows
  <2>4. MarketsFollow(e, t)
    BY <1>4, <2>1, <2>3 DEF MarketsFollow
  <2>5. ReportsFollow(e, t)
    BY <1>2, <2>2, <2>3, ReportsKept
  <2>6. StakesFollow(e, t)
    BY <1>5, <2>2, <2>3, StakesKept
  <2>7. WindowsFollow(e, t)
    BY <1>2, <2>2, <2>3, WindowsKept
  <2>8. FlagsFollow(e, t)
    <3>1. Genesis \in e.forked <=> ForkedIn(t)
      BY <1>3, <2>1, <2>3, FlagsOfSameFork DEF FlagsFollow
    <3>2. ASSUME NEW x \in DOMAIN e.markets
          PROVE  Owes(e.markets[x], HomeIn(t, x), ForkerIn(t, x), MigrationIn(t, x), DisavowalIn(t, x))
      <4>1. x \in Market
        BY <2>1, <3>2, MarketRows
      <4>2. /\ HomeIn(t, x) = HomeIn(s, x) /\ ForkerIn(t, x) = ForkerIn(s, x)
            /\ MigrationIn(t, x) = MigrationIn(s, x) /\ DisavowalIn(t, x) = DisavowalIn(s, x)
        BY <1>3, <4>1, FlagsOfSameFork
      <4>3. CASE x = m
        BY <1>7, <2>1, <4>2, <4>3 DEF Owes, NewMarket
      <4>4. CASE x # m
        BY <2>1, <2>3, <3>2, <4>2, <4>4 DEF FlagsFollow
      <4> QED
        BY <4>3, <4>4
    <3> QED
      BY <3>1, <3>2 DEF FlagsFollow
  <2>9. Follows(e, t)
    BY <2>4, <2>5, <2>6, <2>7, <2>8 DEF Follows
  <2> QED
    BY <2>1, <2>9 DEF e, Tracks, KeepsRest, KeepsRows
<1>9. ASSUME NEW d \in Tables, Follows(d, t)
      PROVE  Tracks(d, MarketCreatedRemoval(d, m), s)
  <2> DEFINE e == MarketCreatedRemoval(d, m)
  <2>1. /\ e \in Tables /\ KeepsRest(d, e) /\ e.forked = d.forked
        /\ DOMAIN e.markets = DOMAIN d.markets \ {m}
        /\ \A x \in DOMAIN d.markets : x # m => e.markets[x] = d.markets[x]
    BY MarketUncreates
  <2> HIDE DEF e
  <2>2. KeepsReports(d, e) /\ KeepsStakes(d, e) /\ DOMAIN e.windows = DOMAIN d.windows
    BY <2>1 DEF KeepsRest, KeepsWindows
  <2>3. /\ MarketsFollow(d, t) /\ ReportsFollow(d, t) /\ StakesFollow(d, t)
        /\ WindowsFollow(d, t) /\ FlagsFollow(d, t)
    BY <1>9 DEF Follows
  <2>4. MarketsFollow(e, s)
    BY <1>4, <1>6, <2>1, <2>3 DEF MarketsFollow
  <2>5. ReportsFollow(e, s)
    BY <1>2, <2>2, <2>3, ReportsKept
  <2>6. StakesFollow(e, s)
    BY <1>5, <2>2, <2>3, StakesKept
  <2>7. WindowsFollow(e, s)
    BY <1>2, <2>2, <2>3, WindowsKept
  <2>8. FlagsFollow(e, s)
    <3>1. Genesis \in e.forked <=> ForkedIn(s)
      BY <1>3, <2>1, <2>3, FlagsOfSameFork DEF FlagsFollow
    <3>2. ASSUME NEW x \in DOMAIN e.markets
          PROVE  Owes(e.markets[x], HomeIn(s, x), ForkerIn(s, x), MigrationIn(s, x), DisavowalIn(s, x))
      <4>1. x \in DOMAIN d.markets /\ x # m /\ x \in Market
        BY <2>1, <3>2, MarketRows
      <4>2. /\ HomeIn(t, x) = HomeIn(s, x) /\ ForkerIn(t, x) = ForkerIn(s, x)
            /\ MigrationIn(t, x) = MigrationIn(s, x) /\ DisavowalIn(t, x) = DisavowalIn(s, x)
        BY <1>3, <4>1, FlagsOfSameFork
      <4> QED
        BY <2>1, <2>3, <4>1, <4>2 DEF FlagsFollow
    <3> QED
      BY <3>1, <3>2 DEF FlagsFollow
  <2>9. Follows(e, s)
    BY <2>4, <2>5, <2>6, <2>7, <2>8 DEF Follows
  <2> QED
    BY <2>1, <2>9 DEF e, Tracks, KeepsRest, KeepsRows
<1> QED
  BY <1>8, <1>9 DEF t

\* A fee window is created, or its creation is taken back.
LEMMA OpeningFollows ==
  ASSUME NEW s \in Seq(Block), NEW b \in Block, NEW w \in Window,
         b.log = WindowLog(w), LegalAfter(s, b.log), NEW now
  PROVE  /\ \A d \in Tables : Follows(d, s) =>
              FeeWindowCreated(d, w, now) \in Tables /\ Follows(FeeWindowCreated(d, w, now), Append(s, b))
         /\ \A d \in Tables : Follows(d, Append(s, b)) =>
              FeeWindowCreatedRemoval(d, w) \in Tables /\ Follows(FeeWindowCreatedRemoval(d, w), s)
<1> DEFINE t == Append(s, b)
<1>1. /\ \A j \in Kinds, x \in Market : Was(t, j, x) <=> Was(s, j, x)
      /\ \A j \in CrowdKinds, c \in Crowdsourcer : Did(t, j, c) <=> Did(s, j, c)
      /\ \A x \in Market : ReportedIn(t, x) <=> ReportedIn(s, x)
      /\ \A v \in Window : In(t, WindowLog(v)) <=> In(s, WindowLog(v)) \/ v = w
  BY WindowLogAdded
<1> HIDE DEF t
<1>2. SameFork(s, t) /\ SameFork(t, s)
  BY <1>1 DEF SameFork, Kinds
<1>3. \A m \in Market : Was(t, "MarketCreated", m) <=> Was(s, "MarketCreated", m)
  BY <1>1 DEF Kinds
<1>4. \A c \in Crowdsourcer :
        /\ Did(t, "DisputeCrowdsourcerCreated", c) <=> Did(s, "DisputeCrowdsourcerCreated", c)
        /\ Did(t, "DisputeCrowdsourcerContribution", c)
             <=> Did(s, "DisputeCrowdsourcerContribution", c)
  BY <1>1 DEF CrowdKinds
<1>5. ~In(s, WindowLog(w)) /\ w \notin Prepared
  <2>1. b.log # NoLog
    BY DEF WindowLog, NoLog
  <2> QED
    BY <2>1 DEF LegalAfter
<1>6. ASSUME NEW d \in Tables, Follows(d, s)
      PROVE  FeeWindowCreated(d, w, now) \in Tables /\ Follows(FeeWindowCreated(d, w, now), t)
  <2> DEFINE e == FeeWindowCreated(d, w, now)
             opened == [d EXCEPT !.windows = With(@, w, "FUTURE")]
  <2>1. /\ MarketsFollow(d, s) /\ ReportsFollow(d, s) /\ StakesFollow(d, s)
        /\ WindowsFollow(d, s) /\ FlagsFollow(d, s)
    BY <1>6 DEF Follows
  <2>2. IsFiniteSet(DOMAIN d.windows)
    BY <2>1 DEF WindowsFollow
  <2>3. /\ e \in Tables /\ e.markets = d.markets /\ e.forked = d.forked
        /\ KeepsReports(d, e) /\ KeepsStakes(d, e)
        /\ opened.windows = With(d.windows, w, "FUTURE")
        /\ e.windows = NewWindows(opened, now)
    BY <2>2, WindowCreates
  <2> HIDE DEF e, opened
  <2>4. DOMAIN e.windows = DOMAIN d.windows \cup {w}
    BY <2>3 DEF NewWindows, With
  <2>5. KeepsMarkets(d, e)
    BY <2>3 DEF KeepsMarkets
  <2>6. MarketsFollow(e, t)
    BY <1>3, <2>1, <2>3, MarketsKept
  <2>7. ReportsFollow(e, t)
    BY <1>1, <2>1, <2>3, ReportsKept
  <2>8. StakesFollow(e, t)
    BY <1>4, <2>1, <2>3, StakesKept
  <2>9. WindowsFollow(e, t)
    <3>1. IsFiniteSet(DOMAIN d.windows \cup {w})
      BY <2>2, FS_AddElement
    <3> QED
      BY <1>1, <2>1, <2>4, <3>1 DEF WindowsFollow
  <2>10. FlagsFollow(e, t)
    BY <1>2, <2>1, <2>3, <2>5, FlagsKept
  <2>11. Follows(e, t)
    BY <2>6, <2>7, <2>8, <2>9, <2>10 DEF Follows
  <2> QED
    BY <2>3, <2>11 DEF e
<1>7. ASSUME NEW d \in Tables, Follows(d, t)
      PROVE  FeeWindowCreatedRemoval(d, w) \in Tables /\ Follows(FeeWindowCreatedRemoval(d, w), s)
  <2> DEFINE e == FeeWindowCreatedRemoval(d, w)
  <2>1. /\ MarketsFollow(d, t) /\ ReportsFollow(d, t) /\ StakesFollow(d, t)
        /\ WindowsFollow(d, t) /\ FlagsFollow(d, t)
    BY <1>7 DEF Follows
  <2>2. IsFiniteSet(DOMAIN d.windows)
    BY <2>1 DEF WindowsFollow
  <2>3. /\ e \in Tables /\ KeepsMarkets(d, e) /\ KeepsReports(d, e) /\ KeepsStakes(d, e)
        /\ DOMAIN e.windows = DOMAIN d.windows \ {w}
    BY WindowUncreates
  <2> HIDE DEF e
  <2>4. DOMAIN e.markets = DOMAIN d.markets
    BY <2>3 DEF KeepsMarkets
  <2>6. MarketsFollow(e, s)
    BY <1>3, <2>1, <2>4, MarketsKept
  <2>7. ReportsFollow(e, s)
    BY <1>1, <2>1, <2>3, ReportsKept
  <2>8. StakesFollow(e, s)
    BY <1>4, <2>1, <2>3, StakesKept
  <2>9. WindowsFollow(e, s)
    <3>1. IsFiniteSet(DOMAIN d.windows \ {w})
      BY <2>2, FS_RemoveElement
    <3> QED
      BY <1>1, <1>5, <2>1, <2>3, <3>1 DEF WindowsFollow
  <2>10. FlagsFollow(e, s)
    BY <1>2, <2>1, <2>3, FlagsKept
  <2>11. Follows(e, s)
    BY <2>6, <2>7, <2>8, <2>9, <2>10 DEF Follows
  <2> QED
    BY <2>3, <2>11 DEF e
<1> QED
  BY <1>6, <1>7 DEF t

\* An initial report, or its removal.
LEMMA ReportFollows ==
  ASSUME MarketAssumption, NEW s \in Seq(Block), NEW b \in Block, NEW m \in Market, NEW p \in Payout,
         b.log = ReportLog(m, p), LegalAfter(s, b.log), NEW now \in Nat
  PROVE  /\ \A d \in Tables : Follows(d, s) =>
              Tracks(d, InitialReportSubmitted(d, m, p, now), Append(s, b))
         /\ \A d \in Tables : Follows(d, Append(s, b)) =>
              Tracks(d, InitialReportSubmittedRemoval(d, m, now), s)
<1> DEFINE t == Append(s, b)
<1>1. /\ \A j \in Kinds, x \in Market : Was(t, j, x) <=> Was(s, j, x)
      /\ \A j \in CrowdKinds, c \in Crowdsourcer : Did(t, j, c) <=> Did(s, j, c)
      /\ \A x \in Market : ReportedIn(t, x) <=> ReportedIn(s, x) \/ x = m
      /\ \A w \in Window : In(t, WindowLog(w)) <=> In(s, WindowLog(w))
  BY ReportLogAdded
<1> HIDE DEF t
<1>2. SameFork(s, t) /\ SameFork(t, s)
  BY <1>1 DEF SameFork, Kinds
<1>3. \A x \in Market : Was(t, "MarketCreated", x) <=> Was(s, "MarketCreated", x)
  BY <1>1 DEF Kinds
<1>4. \A c \in Crowdsourcer :
        /\ Did(t, "DisputeCrowdsourcerCreated", c) <=> Did(s, "DisputeCrowdsourcerCreated", c)
        /\ Did(t, "DisputeCrowdsourcerContribution", c)
             <=> Did(s, "DisputeCrowdsourcerContribution", c)
  BY <1>1 DEF CrowdKinds
<1>5. Was(s, "MarketCreated", m) /\ ~ReportedIn(s, m)
  BY DEF LegalAfter
<1>6. ASSUME NEW d \in Tables, Follows(d, s)
      PROVE  Tracks(d, InitialReportSubmitted(d, m, p, now), t)
  <2> DEFINE e == InitialReportSubmitted(d, m, p, now)
  <2>1. /\ MarketsFollow(d, s) /\ ReportsFollow(d, s) /\ StakesFollow(d, s)
        /\ WindowsFollow(d, s) /\ FlagsFollow(d, s)
    BY <1>6 DEF Follows
  <2>2. IsFiniteSet(DOMAIN d.crowdsourcers) /\ m \in DOMAIN d.markets
    BY <1>5, <2>1 DEF StakesFollow, MarketsFollow
  <2>3. /\ e \in Tables /\ KeepsMarkets(d, e) /\ KeepsStakes(d, e) /\ KeepsWindows(d, e)
        /\ DOMAIN e.reports = DOMAIN d.reports \cup {m}
    BY <2>2, ReportSubmits
  <2> HIDE DEF e
  <2>4. DOMAIN e.markets = DOMAIN d.markets /\ DOMAIN e.windows = DOMAIN d.windows
    BY <2>3 DEF KeepsMarkets, KeepsWindows
  <2>6. MarketsFollow(e, t)
    BY <1>3, <2>1, <2>4, MarketsKept
  <2>7. ReportsFollow(e, t)
    BY <1>1, <2>1, <2>3 DEF ReportsFollow
  <2>8. StakesFollow(e, t)
    BY <1>4, <2>1, <2>3, StakesKept
  <2>9. WindowsFollow(e, t)
    BY <1>1, <2>1, <2>4, WindowsKept
  <2>10. FlagsFollow(e, t)
    BY <1>2, <2>1, <2>3, FlagsKept
  <2>11. Follows(e, t)
    BY <2>6, <2>7, <2>8, <2>9, <2>10 DEF Follows
  <2> QED
    BY <2>3, <2>11 DEF e, Tracks, KeepsRest, KeepsRows
<1>7. ASSUME NEW d \in Tables, Follows(d, t)
      PROVE  Tracks(d, InitialReportSubmittedRemoval(d, m, now), s)
  <2> DEFINE e == InitialReportSubmittedRemoval(d, m, now)
  <2>1. /\ MarketsFollow(d, t) /\ ReportsFollow(d, t) /\ StakesFollow(d, t)
        /\ WindowsFollow(d, t) /\ FlagsFollow(d, t)
    BY <1>7 DEF Follows
  <2>2. m \in DOMAIN d.markets
    BY <1>3, <1>5, <2>1 DEF MarketsFollow
  <2>3. /\ e \in Tables /\ KeepsMarkets(d, e) /\ KeepsStakes(d, e) /\ KeepsWindows(d, e)
        /\ DOMAIN e.reports = DOMAIN d.reports \ {m}
    BY <2>2, ReportUnsubmits
  <2> HIDE DEF e
  <2>4. DOMAIN e.markets = DOMAIN d.markets /\ DOMAIN e.windows = DOMAIN d.windows
    BY <2>3 DEF KeepsMarkets, KeepsWindows
  <2>6. MarketsFollow(e, s)
    BY <1>3, <2>1, <2>4, MarketsKept
  <2>7. ReportsFollow(e, s)
    BY <1>1, <1>5, <2>1, <2>3 DEF ReportsFollow
  <2>8. StakesFollow(e, s)
    BY <1>4, <2>1, <2>3, StakesKept
  <2>9. WindowsFollow(e, s)
    BY <1>1, <2>1, <2>4, WindowsKept
  <2>10. FlagsFollow(e, s)
    BY <1>2, <2>1, <2>3, FlagsKept
  <2>11. Follows(e, s)
    BY <2>6, <2>7, <2>8, <2>9, <2>10 DEF Follows
  <2> QED
    BY <2>3, <2>11 DEF e, Tracks, KeepsRest, KeepsRows
<1> QED
  BY <1>6, <1>7 DEF t

\* A log of a crowdsourcer that changes nothing but its row or its stake.
LEMMA StakesAlone ==
  ASSUME NEW s \in Seq(Block), NEW b \in Block, NEW k \in CrowdKinds, NEW c \in Crowdsourcer,
         b.log = CrowdLog(k, c), NEW d \in Tables, NEW e \in Tables, KeepsRows(d, e)
  PROVE  /\ Follows(d, s) /\ StakesFollow(e, Append(s, b)) => Follows(e, Append(s, b))
         /\ Follows(d, Append(s, b)) /\ StakesFollow(e, s) => Follows(e, s)
<1> DEFINE t == Append(s, b)
<1>1. /\ \A j \in Kinds, x \in Market : Was(t, j, x) <=> Was(s, j, x)
      /\ \A x \in Market : ReportedIn(t, x) <=> ReportedIn(s, x)
      /\ \A w \in Window : In(t, WindowLog(w)) <=> In(s, WindowLog(w))
  BY CrowdLogAdded
<1> HIDE DEF t
<1>2. SameFork(s, t) /\ SameFork(t, s)
  BY <1>1 DEF SameFork, Kinds
<1>3. \A x \in Market : Was(t, "MarketCreated", x) <=> Was(s, "MarketCreated", x)
  BY <1>1 DEF Kinds
<1>4. /\ KeepsMarkets(d, e) /\ KeepsReports(d, e)
      /\ DOMAIN e.markets = DOMAIN d.markets /\ DOMAIN e.windows = DOMAIN d.windows
  BY DEF KeepsRows, KeepsMarkets, KeepsWindows
<1>5. ASSUME Follows(d, s), StakesFollow(e, t) PROVE Follows(e, t)
  <2>1. MarketsFollow(d, s) /\ ReportsFollow(d, s) /\ WindowsFollow(d, s) /\ FlagsFollow(d, s)
    BY <1>5 DEF Follows
  <2>2. MarketsFollow(e, t)
    BY <1>3, <1>4, <2>1, MarketsKept
  <2>3. ReportsFollow(e, t)
    BY <1>1, <1>4, <2>1, ReportsKept
  <2>4. WindowsFollow(e, t)
    BY <1>1, <1>4, <2>1, WindowsKept
  <2>5. FlagsFollow(e, t)
    BY <1>2, <1>4, <2>1, FlagsKept
  <2> QED
    BY <1>5, <2>2, <2>3, <2>4, <2>5 DEF Follows
<1>6. ASSUME Follows(d, t), StakesFollow(e, s) PROVE Follows(e, s)
  <2>1. MarketsFollow(d, t) /\ ReportsFollow(d, t) /\ WindowsFollow(d, t) /\ FlagsFollow(d, t)
    BY <1>6 DEF Follows
  <2>2. MarketsFollow(e, s)
    BY <1>3, <1>4, <2>1, MarketsKept
  <2>3. ReportsFollow(e, s)
    BY <1>1, <1>4, <2>1, ReportsKept
  <2>4. WindowsFollow(e, s)
    BY <1>1, <1>4, <2>1, WindowsKept
  <2>5. FlagsFollow(e, s)
    BY <1>2, <1>4, <2>1, FlagsKept
  <2> QED
    BY <1>6, <2>2, <2>3, <2>4, <2>5 DEF Follows
<1> QED
  BY <1>5, <1>6 DEF t

LEMMA CrowdsourcerFollows ==
  ASSUME MarketAssumption, NEW s \in Seq(Block), NEW b \in Block, NEW c \in Crowdsourcer,
         b.log = CrowdLog("DisputeCrowdsourcerCreated", c), Sane(s), LegalAfter(s, b.log)
  PROVE  /\ \A d \in Tables, w \in Window : Follows(d, s) =>
              Tracks(d, DisputeCrowdsourcerCreated(d, c, w), Append(s, b))
         /\ \A d \in Tables : Follows(d, Append(s, b)) =>
              Tracks(d, DisputeCrowdsourcerCreatedRemoval(d, c), s)
<1> DEFINE t == Append(s, b)
<1>1. "DisputeCrowdsourcerCreated" \in CrowdKinds
  BY DEF CrowdKinds
<1>2. \A j \in CrowdKinds, x \in Crowdsourcer :
        Did(t, j, x) <=> Did(s, j, x) \/ (j = "DisputeCrowdsourcerCreated" /\ x = c)
  BY <1>1, CrowdLogAdded
<1>3. \A x \in Crowdsourcer :
        /\ Did(t, "DisputeCrowdsourcerCreated", x) <=> Did(s, "DisputeCrowdsourcerCreated", x) \/ x = c
        /\ Did(t, "DisputeCrowdsourcerContribution", x)
             <=> Did(s, "DisputeCrowdsourcerContribution", x)
  BY <1>2 DEF CrowdKinds
<1>4. /\ ~Did(s, "DisputeCrowdsourcerCreated", c) /\ ~Did(s, "DisputeCrowdsourcerContribution", c)
  <2>1. b.log # NoLog
    BY DEF CrowdLog, NoLog
  <2> QED
    BY <2>1 DEF LegalAfter, Did, Sane, SaneCrowdsourcer
<1>5. ASSUME NEW d \in Tables, NEW w \in Window, Follows(d, s)
      PROVE  Tracks(d, DisputeCrowdsourcerCreated(d, c, w), t)
  <2> DEFINE e == DisputeCrowdsourcerCreated(d, c, w)
  <2>1. /\ e \in Tables /\ KeepsRows(d, e)
        /\ DOMAIN e.crowdsourcers = DOMAIN d.crowdsourcers \cup {c}
        /\ e.crowdsourcers[c].staked = 0
        /\ \A x \in DOMAIN d.crowdsourcers :
             x # c => e.crowdsourcers[x].staked = d.crowdsourcers[x].staked
    BY CrowdsourcerCreates
  <2> HIDE DEF e, t
  <2>2. StakesFollow(d, s)
    BY <1>5 DEF Follows
  <2>3. IsFiniteSet(DOMAIN d.crowdsourcers \cup {c})
    BY <2>2, FS_AddElement DEF StakesFollow
  <2>4. StakesFollow(e, t)
    BY <1>3, <1>4, <2>1, <2>2, <2>3 DEF StakesFollow
  <2>5. Follows(e, t)
    BY <1>1, <1>5, <2>1, <2>4, StakesAlone DEF t
  <2> QED
    BY <2>1, <2>5 DEF e, Tracks, KeepsRest, KeepsRows
<1>6. ASSUME NEW d \in Tables, Follows(d, t)
      PROVE  Tracks(d, DisputeCrowdsourcerCreatedRemoval(d, c), s)
  <2> DEFINE e == DisputeCrowdsourcerCreatedRemoval(d, c)
  <2>1. /\ e \in Tables /\ KeepsRows(d, e)
        /\ DOMAIN e.crowdsourcers = DOMAIN d.crowdsourcers \ {c}
        /\ \A x \in DOMAIN d.crowdsourcers :
             x # c => e.crowdsourcers[x].staked = d.crowdsourcers[x].staked
    BY CrowdsourcerUncreates
  <2> HIDE DEF e, t
  <2>2. StakesFollow(d, t)
    BY <1>6 DEF Follows
  <2>3. IsFiniteSet(DOMAIN d.crowdsourcers \ {c})
    BY <2>2, FS_RemoveElement DEF StakesFollow
  <2>4. StakesFollow(e, s)
    BY <1>3, <1>4, <2>1, <2>2, <2>3 DEF StakesFollow
  <2>5. Follows(e, s)
    BY <1>1, <1>6, <2>1, <2>4, StakesAlone DEF t
  <2> QED
    BY <2>1, <2>5 DEF e, Tracks, KeepsRest, KeepsRows
<1> QED
  BY <1>5, <1>6 DEF t

LEMMA ContributionFollows ==
  ASSUME MarketAssumption, NEW s \in Seq(Block), NEW b \in Block, NEW c \in Crowdsourcer,
         b.log = CrowdLog("DisputeCrowdsourcerContribution", c), LegalAfter(s, b.log)
  PROVE  /\ \A d \in Tables : Follows(d, s) =>
              Tracks(d, DisputeCrowdsourcerContribution(d, c, Size[c]), Append(s, b))
         /\ \A d \in Tables : Follows(d, Append(s, b)) =>
              Tracks(d, DisputeCrowdsourcerContributionRemoval(d, c, Size[c]), s)
<1> DEFINE t == Append(s, b)
<1>1. "DisputeCrowdsourcerContribution" \in CrowdKinds
  BY DEF CrowdKinds
<1>2. \A j \in CrowdKinds, x \in Crowdsourcer :
        Did(t, j, x) <=> Did(s, j, x) \/ (j = "DisputeCrowdsourcerContribution" /\ x = c)
  BY <1>1, CrowdLogAdded
<1>3. \A x \in Crowdsourcer :
        /\ Did(t, "DisputeCrowdsourcerCreated", x) <=> Did(s, "DisputeCrowdsourcerCreated", x)
        /\ Did(t, "DisputeCrowdsourcerContribution", x)
             <=> Did(s, "DisputeCrowdsourcerContribution", x) \/ x = c
  BY <1>2 DEF CrowdKinds
<1>4. Did(s, "DisputeCrowdsourcerCreated", c) /\ ~Did(s, "DisputeCrowdsourcerContribution", c)
  <2>1. b.log # NoLog
    BY DEF CrowdLog, NoLog
  <2> QED
    BY <2>1 DEF LegalAfter, Did
<1>5. PICK n \in Nat : n = Size[c]
  BY DEF MarketAssumption
<1>6. ASSUME NEW d \in Tables, Follows(d, s)
      PROVE  Tracks(d, DisputeCrowdsourcerContribution(d, c, n), t)
  <2> DEFINE e == DisputeCrowdsourcerContribution(d, c, n)
  <2>1. StakesFollow(d, s)
    BY <1>6 DEF Follows
  <2>2. c \in DOMAIN d.crowdsourcers /\ d.crowdsourcers[c].staked = 0
    BY <1>4, <2>1 DEF StakesFollow
  <2>3. /\ e \in Tables /\ KeepsRows(d, e)
        /\ DOMAIN e.crowdsourcers = DOMAIN d.crowdsourcers
        /\ e.crowdsourcers[c].staked = d.crowdsourcers[c].staked + n
        /\ \A x \in DOMAIN d.crowdsourcers :
             x # c => e.crowdsourcers[x].staked = d.crowdsourcers[x].staked
    BY <2>2, Contributes
  <2> HIDE DEF e, t
  <2>4. e.crowdsourcers[c].staked = n
    BY <2>2, <2>3
  <2>5. StakesFollow(e, t)
    BY <1>3, <1>5, <2>1, <2>3, <2>4 DEF StakesFollow
  <2>6. Follows(e, t)
    BY <1>1, <1>6, <2>3, <2>5, StakesAlone DEF t
  <2> QED
    BY <2>3, <2>6 DEF e, Tracks, KeepsRest, KeepsRows
<1>7. ASSUME NEW d \in Tables, Follows(d, t)
      PROVE  Tracks(d, DisputeCrowdsourcerContributionRemoval(d, c, n), s)
  <2> DEFINE e == DisputeCrowdsourcerContributionRemoval(d, c, n)
  <2>1. StakesFollow(d, t)
    BY <1>7 DEF Follows
  <2>2. c \in DOMAIN d.crowdsourcers /\ d.crowdsourcers[c].staked = n
    BY <1>3, <1>4, <1>5, <2>1 DEF StakesFollow
  <2>3. /\ e \in Tables /\ KeepsRows(d, e)
        /\ DOMAIN e.crowdsourcers = DOMAIN d.crowdsourcers
        /\ e.crowdsourcers[c].staked = 0
        /\ \A x \in DOMAIN d.crowdsourcers :
             x # c => e.crowdsourcers[x].staked = d.crowdsourcers[x].staked
    BY <2>2, Uncontributes
  <2> HIDE DEF e, t
  <2>4. StakesFollow(e, s)
    BY <1>3, <1>4, <2>1, <2>3 DEF StakesFollow
  <2>5. Follows(e, s)
    BY <1>1, <1>7, <2>3, <2>4, StakesAlone DEF t
  <2> QED
    BY <2>3, <2>5 DEF e, Tracks, KeepsRest, KeepsRows
<1> QED
  BY <1>5, <1>6, <1>7 DEF t

\* A log about a fork changes nothing but the flags of the markets' rows.
ForkKinds == {"MarketFinalized", "UniverseForked", "MarketMigrated", "MarketParticipantsDisavowed"}

LEMMA FlagsAlone ==
  ASSUME NEW s \in Seq(Block), NEW b \in Block, NEW k \in ForkKinds, NEW m \in Market,
         b.log = MarketLog(k, m), NEW d \in Tables, NEW e \in Tables,
         KeepsRest(d, e), DOMAIN e.markets = DOMAIN d.markets
  PROVE  /\ Follows(d, s) /\ FlagsFollow(e, Append(s, b)) => Follows(e, Append(s, b))
         /\ Follows(d, Append(s, b)) /\ FlagsFollow(e, s) => Follows(e, s)
<1> DEFINE t == Append(s, b)
<1>1. k \in Kinds /\ k # "MarketCreated"
  BY DEF Kinds, ForkKinds
<1>2. /\ \A j \in Kinds, x \in Market : Was(t, j, x) <=> Was(s, j, x) \/ (j = k /\ x = m)
      /\ \A j \in CrowdKinds, c \in Crowdsourcer : Did(t, j, c) <=> Did(s, j, c)
      /\ \A x \in Market : ReportedIn(t, x) <=> ReportedIn(s, x)
      /\ \A w \in Window : In(t, WindowLog(w)) <=> In(s, WindowLog(w))
  BY <1>1, MarketLogAdded
<1> HIDE DEF t
<1>3. \A x \in Market : Was(t, "MarketCreated", x) <=> Was(s, "MarketCreated", x)
  BY <1>1, <1>2 DEF Kinds
<1>4. \A c \in Crowdsourcer :
        /\ Did(t, "DisputeCrowdsourcerCreated", c) <=> Did(s, "DisputeCrowdsourcerCreated", c)
        /\ Did(t, "DisputeCrowdsourcerContribution", c)
             <=> Did(s, "DisputeCrowdsourcerContribution", c)
  BY <1>2 DEF CrowdKinds
<1>5. KeepsReports(d, e) /\ KeepsStakes(d, e) /\ DOMAIN e.windows = DOMAIN d.windows
  BY DEF KeepsRest, KeepsWindows
<1>6. ASSUME Follows(d, s), FlagsFollow(e, t) PROVE Follows(e, t)
  <2>1. MarketsFollow(d, s) /\ ReportsFollow(d, s) /\ StakesFollow(d, s) /\ WindowsFollow(d, s)
    BY <1>6 DEF Follows
  <2>2. MarketsFollow(e, t)
    BY <1>3, <2>1, MarketsKept
  <2>3. ReportsFollow(e, t)
    BY <1>2, <1>5, <2>1, ReportsKept
  <2>4. StakesFollow(e, t)
    BY <1>4, <1>5, <2>1, StakesKept
  <2>5. WindowsFollow(e, t)
    BY <1>2, <1>5, <2>1, WindowsKept
  <2> QED
    BY <1>6, <2>2, <2>3, <2>4, <2>5 DEF Follows
<1>7. ASSUME Follows(d, t), FlagsFollow(e, s) PROVE Follows(e, s)
  <2>1. MarketsFollow(d, t) /\ ReportsFollow(d, t) /\ StakesFollow(d, t) /\ WindowsFollow(d, t)
    BY <1>7 DEF Follows
  <2>2. MarketsFollow(e, s)
    BY <1>3, <2>1, MarketsKept
  <2>3. ReportsFollow(e, s)
    BY <1>2, <1>5, <2>1, ReportsKept
  <2>4. StakesFollow(e, s)
    BY <1>4, <1>5, <2>1, StakesKept
  <2>5. WindowsFollow(e, s)
    BY <1>2, <1>5, <2>1, WindowsKept
  <2> QED
    BY <1>7, <2>2, <2>3, <2>4, <2>5 DEF Follows
<1> QED
  BY <1>6, <1>7 DEF t

LEMMA ForkLogAdded ==
  ASSUME NEW s \in Seq(Block), NEW b \in Block, NEW k \in ForkKinds, NEW m \in Market,
         b.log = MarketLog(k, m), LegalAfter(s, b.log)
  PROVE  LET t == Append(s, b)
         IN  /\ \A j \in ForkKinds, x \in Market : Was(t, j, x) <=> Was(s, j, x) \/ (j = k /\ x = m)
             /\ \A x \in Market : Was(t, "MarketCreated", x) <=> Was(s, "MarketCreated", x)
             /\ ~Was(s, k, m)
<1>1. k \in Kinds /\ k # "MarketCreated" /\ "MarketCreated" \in Kinds
  BY DEF Kinds, ForkKinds
<1>2. \A j \in Kinds, x \in Market :
        Was(Append(s, b), j, x) <=> Was(s, j, x) \/ (j = k /\ x = m)
  BY <1>1, MarketLogAdded
<1>3. b.log # NoLog
  BY DEF MarketLog, NoLog, ForkKinds
<1>4. \A j \in ForkKinds : j \in Kinds
  BY DEF Kinds, ForkKinds
<1> QED
  BY <1>1, <1>2, <1>3, <1>4 DEF LegalAfter, Was

LEMMA FinalizationFollows ==
  ASSUME MarketAssumption, NEW s \in Seq(Block), NEW b \in Block, NEW m \in Market,
         b.log = MarketLog("MarketFinalized", m), Sane(s), LegalAfter(s, b.log)
  PROVE  /\ \A d \in Tables : Follows(d, s) =>
              Tracks(d, MarketFinalized(d, m), Append(s, b))
         /\ \A d \in Tables : Follows(d, Append(s, b)) =>
              Tracks(d, MarketFinalizedRemoval(d, m), s)
<1> DEFINE t == Append(s, b)
<1>1. "MarketFinalized" \in ForkKinds
  BY DEF ForkKinds
<1>2. /\ \A j \in ForkKinds, x \in Market :
           Was(t, j, x) <=> Was(s, j, x) \/ (j = "MarketFinalized" /\ x = m)
      /\ \A x \in Market : Was(t, "MarketCreated", x) <=> Was(s, "MarketCreated", x)
      /\ ~Was(s, "MarketFinalized", m)
  BY <1>1, ForkLogAdded
<1> HIDE DEF t
<1>3. \A x \in Market :
        /\ Was(t, "MarketFinalized", x) <=> Was(s, "MarketFinalized", x) \/ x = m
        /\ Was(t, "UniverseForked", x) <=> Was(s, "UniverseForked", x)
        /\ Was(t, "MarketMigrated", x) <=> Was(s, "MarketMigrated", x)
        /\ Was(t, "MarketParticipantsDisavowed", x) <=> Was(s, "MarketParticipantsDisavowed", x)
  BY <1>2 DEF ForkKinds
<1>4. ForkedIn(t) <=> ForkedIn(s)
  BY <1>3 DEF ForkedIn
<1>5. \A x \in Market : /\ HomeIn(t, x) = HomeIn(s, x) /\ ForkerIn(t, x) = ForkerIn(s, x)
                        /\ DisavowalIn(t, x) = DisavowalIn(s, x)
  BY <1>3, <1>4 DEF HomeIn, ForkerIn, DisavowalIn
<1>6. /\ Was(s, "MarketCreated", m) /\ Genesis # Child
      /\ Was(s, "UniverseForked", m) \/ ~ForkedIn(s) \/ Was(s, "MarketMigrated", m)
  BY DEF LegalAfter, MarketAssumption
<1>7. \A x \in Market : /\ Was(s, "MarketMigrated", x) => ~Was(s, "UniverseForked", x) /\ DecidedIn(s)
                        /\ Was(s, "UniverseForked", x) /\ Was(s, "UniverseForked", m) => x = m
  BY DEF Sane, SaneMarket
\* The market's own fork is decided by it, and no market has migrated yet.
<1>8. ASSUME Was(s, "UniverseForked", m)
      PROVE  /\ ForkerIn(s, m) = 1 /\ ~DecidedIn(s) /\ DecidedIn(t)
             /\ \A x \in Market : ~Was(s, "MarketMigrated", x) /\ HomeIn(s, x) = Genesis
             /\ \A x \in Market : /\ MigrationIn(s, x) = 0
                                  /\ MigrationIn(t, x) = IF x = m THEN 0 ELSE 1
  <2>1. ~DecidedIn(s) /\ DecidedIn(t)
    BY <1>2, <1>3, <1>7, <1>8 DEF DecidedIn
  <2>2. \A x \in Market : ~Was(s, "MarketMigrated", x) /\ HomeIn(s, x) = Genesis
    BY <1>7, <2>1 DEF HomeIn
  <2>3. \A x \in Market : /\ MigrationIn(s, x) = 0
                          /\ MigrationIn(t, x) = IF x = m THEN 0 ELSE 1
    BY <1>3, <1>7, <1>8, <2>1, <2>2 DEF MigrationIn
  <2> QED
    BY <1>8, <2>1, <2>2, <2>3 DEF ForkerIn
<1>9. ASSUME ~Was(s, "UniverseForked", m)
      PROVE  /\ ForkerIn(s, m) = 0
             /\ \A x \in Market : MigrationIn(t, x) = MigrationIn(s, x)
             /\ \A x \in Market : HomeIn(s, x) = HomeIn(s, m) => MigrationIn(s, x) = 0
  <2>1. DecidedIn(t) <=> DecidedIn(s)
    BY <1>3, <1>9 DEF DecidedIn
  <2>2. \A x \in Market : MigrationIn(t, x) = MigrationIn(s, x)
    BY <1>3, <2>1 DEF MigrationIn
  <2>3. ASSUME NEW x \in Market, HomeIn(s, x) = HomeIn(s, m) PROVE MigrationIn(s, x) = 0
    <3>1. CASE ~ForkedIn(s)
      BY <3>1 DEF MigrationIn, DecidedIn, ForkedIn
    <3>2. CASE Was(s, "MarketMigrated", m)
      BY <1>6, <2>3, <3>2 DEF HomeIn, MigrationIn
    <3> QED
      BY <1>6, <1>9, <3>1, <3>2
  <2> QED
    BY <1>9, <2>2, <2>3 DEF ForkerIn
<1>10. ASSUME NEW d \in Tables, Follows(d, s)
       PROVE  Tracks(d, MarketFinalized(d, m), t)
  <2> DEFINE e == MarketFinalized(d, m)
  <2>1. m \in DOMAIN d.markets /\ FlagsFollow(d, s)
    BY <1>6, <1>10 DEF Follows, MarketsFollow
  <2>2. /\ e \in Tables /\ KeepsRest(d, e) /\ e.forked = d.forked
        /\ DOMAIN e.markets = DOMAIN d.markets
        /\ \A x \in DOMAIN d.markets :
             e.markets[x] = IF /\ d.markets[m].forking = 1 /\ x # m
                               /\ d.markets[x].universe = d.markets[m].universe
                            THEN Owing(d.markets[x], 1, 0) ELSE d.markets[x]
    BY <2>1, MarketFinalizes
  <2> HIDE DEF e
  <2>3. ASSUME NEW x \in DOMAIN d.markets
        PROVE  Owes(e.markets[x], HomeIn(t, x), ForkerIn(t, x), MigrationIn(t, x), DisavowalIn(t, x))
    <3>1. x \in Market /\ d.markets[x] \in MarketRow
      BY MarketRows
    <3>2. /\ Owes(d.markets[x], HomeIn(s, x), ForkerIn(s, x), MigrationIn(s, x), DisavowalIn(s, x))
          /\ Owes(d.markets[m], HomeIn(s, m), ForkerIn(s, m), MigrationIn(s, m), DisavowalIn(s, m))
      BY <2>1 DEF FlagsFollow
    <3>3. CASE Was(s, "UniverseForked", m)
      <4>1. d.markets[m].forking = 1 /\ d.markets[x].universe = d.markets[m].universe
        BY <1>8, <3>1, <3>2, <3>3 DEF Owes
      <4>2. CASE x = m
        <5>1. e.markets[x] = d.markets[x] /\ MigrationIn(t, x) = MigrationIn(s, x)
          BY <1>8, <2>2, <3>1, <3>3, <4>2
        <5> QED
          BY <1>5, <3>1, <3>2, <5>1
      <4>3. CASE x # m
        <5>1. e.markets[x] = Owing(d.markets[x], 1, 0)
          BY <2>2, <4>1, <4>3
        <5>2. PICK r \in MarketRow : r = d.markets[x]
          BY <3>1
        <5>3. LET q == Owing(r, 1, 0)
              IN  /\ q.universe = r.universe /\ q.forking = r.forking
                  /\ q.needsMigration = r.needsMigration + 1
                  /\ q.needsDisavowal = r.needsDisavowal + 0
          BY RowOwes
        <5>4. r.needsDisavowal + 0 = r.needsDisavowal
          BY DEF MarketRow
        <5>5. r.needsMigration + 1 = 1 /\ MigrationIn(t, x) = 1
          BY <1>8, <3>1, <3>2, <3>3, <4>3, <5>2 DEF Owes
        <5> QED
          BY <1>5, <3>1, <3>2, <5>1, <5>2, <5>3, <5>4, <5>5 DEF Owes
      <4> QED
        BY <4>2, <4>3
    <3>4. CASE ~Was(s, "UniverseForked", m)
      <4>1. d.markets[m].forking = 0
        BY <1>9, <3>2, <3>4 DEF Owes
      <4>2. e.markets[x] = d.markets[x]
        BY <2>2, <4>1
      <4> QED
        BY <1>5, <1>9, <3>1, <3>2, <3>4, <4>2
    <3> QED
      BY <3>3, <3>4
  <2>4. FlagsFollow(e, t)
    BY <1>4, <2>1, <2>2, <2>3 DEF FlagsFollow
  <2>5. Follows(e, t)
    BY <1>1, <1>10, <2>2, <2>4, FlagsAlone DEF t
  <2> QED
    BY <2>2, <2>5 DEF e, Tracks, KeepsRest, KeepsRows
<1>11. ASSUME NEW d \in Tables, Follows(d, t)
       PROVE  Tracks(d, MarketFinalizedRemoval(d, m), s)
  <2> DEFINE e == MarketFinalizedRemoval(d, m)
  <2>1. m \in DOMAIN d.markets /\ FlagsFollow(d, t)
    BY <1>2, <1>6, <1>11 DEF Follows, MarketsFollow
  <2>2. /\ e \in Tables /\ KeepsRest(d, e) /\ e.forked = d.forked
        /\ DOMAIN e.markets = DOMAIN d.markets
        /\ \A x \in DOMAIN d.markets :
             e.markets[x] = IF d.markets[x].universe = d.markets[m].universe
                            THEN [d.markets[x] EXCEPT !.needsMigration = 0] ELSE d.markets[x]
    BY <2>1, MarketUnfinalizes
  <2> HIDE DEF e
  <2>3. ASSUME NEW x \in DOMAIN d.markets
        PROVE  Owes(e.markets[x], HomeIn(s, x), ForkerIn(s, x), MigrationIn(s, x), DisavowalIn(s, x))
    <3>1. x \in Market
      BY MarketRows
    <3>2. /\ Owes(d.markets[x], HomeIn(t, x), ForkerIn(t, x), MigrationIn(t, x), DisavowalIn(t, x))
          /\ Owes(d.markets[m], HomeIn(t, m), ForkerIn(t, m), MigrationIn(t, m), DisavowalIn(t, m))
      BY <2>1 DEF FlagsFollow
    <3>3. d.markets[x].universe = d.markets[m].universe <=> HomeIn(s, x) = HomeIn(s, m)
      BY <1>5, <3>1, <3>2 DEF Owes
    <3>4. CASE HomeIn(s, x) = HomeIn(s, m)
      <4>1. MigrationIn(s, x) = 0
        BY <1>8, <1>9, <3>1, <3>4
      <4>2. PICK r \in MarketRow : r = d.markets[x]
        BY MarketRows
      <4>3. LET q == [r EXCEPT !.needsMigration = 0]
            IN  Owes(q, r.universe, r.forking, 0, r.needsDisavowal)
        BY DEF MarketRow, Owes
      <4>4. e.markets[x] = [r EXCEPT !.needsMigration = 0]
        BY <2>2, <3>3, <3>4, <4>2
      <4> QED
        BY <1>5, <3>1, <3>2, <4>1, <4>2, <4>3, <4>4 DEF Owes
    <3>5. CASE HomeIn(s, x) # HomeIn(s, m)
      <4>1. e.markets[x] = d.markets[x]
        BY <2>2, <3>3, <3>5
      <4>2. MigrationIn(t, x) = MigrationIn(s, x)
        BY <1>8, <1>9, <3>1, <3>5
      <4> QED
        BY <1>5, <3>1, <3>2, <4>1, <4>2
    <3> QED
      BY <3>4, <3>5
  <2>4. FlagsFollow(e, s)
    BY <1>4, <2>1, <2>2, <2>3 DEF FlagsFollow
  <2>5. Follows(e, s)
    BY <1>1, <1>11, <2>2, <2>4, FlagsAlone DEF t
  <2> QED
    BY <2>2, <2>5 DEF e, Tracks, KeepsRest, KeepsRows
<1> QED
  BY <1>10, <1>11 DEF t

LEMMA ForkFollows ==
  ASSUME MarketAssumption, NEW s \in Seq(Block), NEW b \in Block, NEW m \in Market,
         b.log = MarketLog("UniverseForked", m), Sane(s), LegalAfter(s, b.log)
  PROVE  /\ \A d \in Tables : Follows(d, s) =>
              Tracks(d, UniverseForked(d, Genesis, m), Append(s, b))
         /\ \A d \in Tables : Follows(d, Append(s, b)) =>
              /\ ForkingMarkets(d, Genesis) = {m}
              /\ Tracks(d, UniverseForkedRemoval(d, Genesis, m), s)
<1> DEFINE t == Append(s, b)
<1>1. "UniverseForked" \in ForkKinds /\ Genesis \in Universe
  BY DEF ForkKinds, MarketAssumption
<1>2. /\ \A j \in ForkKinds, x \in Market :
           Was(t, j, x) <=> Was(s, j, x) \/ (j = "UniverseForked" /\ x = m)
      /\ \A x \in Market : Was(t, "MarketCreated", x) <=> Was(s, "MarketCreated", x)
  BY <1>1, ForkLogAdded
<1> HIDE DEF t
<1>3. \A x \in Market :
        /\ Was(t, "MarketFinalized", x) <=> Was(s, "MarketFinalized", x)
        /\ Was(t, "UniverseForked", x) <=> Was(s, "UniverseForked", x) \/ x = m
        /\ Was(t, "MarketMigrated", x) <=> Was(s, "MarketMigrated", x)
        /\ Was(t, "MarketParticipantsDisavowed", x) <=> Was(s, "MarketParticipantsDisavowed", x)
  BY <1>2 DEF ForkKinds
<1>4. /\ ReportedIn(s, m) /\ ~ForkedIn(s) /\ ~Was(s, "MarketFinalized", m)
      /\ Was(s, "MarketCreated", m)
  BY DEF LegalAfter, Sane, SaneMarket
<1>5. \A x \in Market : ~Was(s, "UniverseForked", x)
  BY <1>4 DEF ForkedIn
<1>6. ~DecidedIn(s) /\ ~DecidedIn(t) /\ ForkedIn(t)
  BY <1>3, <1>4, <1>5 DEF DecidedIn, ForkedIn
<1>7. \A x \in Market : ~Was(s, "MarketMigrated", x) /\ ~Was(s, "MarketParticipantsDisavowed", x)
  BY <1>4, <1>6 DEF Sane, SaneMarket
<1>8. \A x \in Market : /\ HomeIn(s, x) = Genesis /\ HomeIn(t, x) = Genesis
                        /\ ForkerIn(s, x) = 0 /\ ForkerIn(t, x) = IF x = m THEN 1 ELSE 0
                        /\ MigrationIn(s, x) = 0 /\ MigrationIn(t, x) = 0
                        /\ DisavowalIn(s, x) = 0 /\ DisavowalIn(t, x) = IF x = m THEN 0 ELSE 1
  BY <1>3, <1>4, <1>5, <1>6, <1>7 DEF HomeIn, ForkerIn, MigrationIn, DisavowalIn
<1>9. ASSUME NEW d \in Tables, Follows(d, s)
      PROVE  Tracks(d, UniverseForked(d, Genesis, m), t)
  <2> DEFINE e == UniverseForked(d, Genesis, m)
  <2>1. m \in DOMAIN d.markets /\ FlagsFollow(d, s)
    BY <1>4, <1>9 DEF Follows, MarketsFollow
  <2>2. /\ e \in Tables /\ KeepsRest(d, e) /\ e.forked = d.forked \cup {Genesis}
        /\ DOMAIN e.markets = DOMAIN d.markets
        /\ \A x \in DOMAIN d.markets :
             LET row == d.markets[x]
                 n == IF x # m /\ row.universe = Genesis THEN 1 ELSE 0
             IN  Owes(e.markets[x], row.universe, IF x = m THEN 1 ELSE row.forking,
                      row.needsMigration, row.needsDisavowal + n)
    BY <1>1, <2>1, UniverseForks
  <2> HIDE DEF e
  <2>3. ASSUME NEW x \in DOMAIN d.markets
        PROVE  Owes(e.markets[x], HomeIn(t, x), ForkerIn(t, x), MigrationIn(t, x), DisavowalIn(t, x))
    <3>1. x \in Market
      BY MarketRows
    <3>2. Owes(d.markets[x], Genesis, 0, 0, 0)
      BY <1>8, <2>1, <3>1 DEF FlagsFollow
    <3>3. Owes(e.markets[x], Genesis, IF x = m THEN 1 ELSE 0, 0, IF x = m THEN 0 ELSE 1)
      BY <2>2, <3>2 DEF Owes
    <3> QED
      BY <1>8, <3>1, <3>3
  <2>4. FlagsFollow(e, t)
    BY <1>6, <2>2, <2>3 DEF FlagsFollow
  <2>5. Follows(e, t)
    BY <1>1, <1>9, <2>2, <2>4, FlagsAlone DEF t
  <2> QED
    BY <2>2, <2>5 DEF e, Tracks, KeepsRest, KeepsRows
<1>10. ASSUME NEW d \in Tables, Follows(d, t)
       PROVE  /\ ForkingMarkets(d, Genesis) = {m}
              /\ Tracks(d, UniverseForkedRemoval(d, Genesis, m), s)
  <2> DEFINE e == UniverseForkedRemoval(d, Genesis, m)
  <2>1. m \in DOMAIN d.markets /\ FlagsFollow(d, t)
    BY <1>2, <1>4, <1>10 DEF Follows, MarketsFollow
  <2>2. /\ e \in Tables /\ KeepsRest(d, e) /\ e.forked = d.forked \ {Genesis}
        /\ DOMAIN e.markets = DOMAIN d.markets
        /\ \A x \in DOMAIN d.markets :
             LET row == d.markets[x]
                 n == IF x # m /\ row.universe = Genesis THEN 1 ELSE 0
             IN  Owes(e.markets[x], row.universe, IF x = m THEN 0 ELSE row.forking,
                      row.needsMigration, row.needsDisavowal - n)
    BY <1>1, <2>1, UniverseUnforks
  <2> HIDE DEF e
  <2>3. \A x \in DOMAIN d.markets :
          Owes(d.markets[x], Genesis, IF x = m THEN 1 ELSE 0, 0, IF x = m THEN 0 ELSE 1)
    <3> SUFFICES ASSUME NEW x \in DOMAIN d.markets
                 PROVE  Owes(d.markets[x], Genesis, IF x = m THEN 1 ELSE 0, 0, IF x = m THEN 0 ELSE 1)
      OBVIOUS
    <3>1. x \in Market
      BY MarketRows
    <3> QED
      BY <1>8, <2>1, <3>1 DEF FlagsFollow
  <2>4. ASSUME NEW x \in DOMAIN d.markets
        PROVE  Owes(e.markets[x], HomeIn(s, x), ForkerIn(s, x), MigrationIn(s, x), DisavowalIn(s, x))
    <3>1. x \in Market
      BY MarketRows
    <3>2. Owes(e.markets[x], Genesis, 0, 0, 0)
      <4>1. CASE x = m
        <5>1. 0 - 0 = 0
          OBVIOUS
        <5> QED
          BY <2>2, <2>3, <4>1, <5>1 DEF Owes
      <4>2. CASE x # m
        <5>1. 1 - 1 = 0
          OBVIOUS
        <5> QED
          BY <2>2, <2>3, <4>2, <5>1 DEF Owes
      <4> QED
        BY <4>1, <4>2
    <3> QED
      BY <1>8, <3>1, <3>2
  <2>5. FlagsFollow(e, s)
    BY <1>4, <2>2, <2>4 DEF FlagsFollow
  <2>6. Follows(e, s)
    BY <1>1, <1>10, <2>2, <2>5, FlagsAlone DEF t
  <2>7. ForkingMarkets(d, Genesis) = {m}
    BY <2>1, <2>3 DEF ForkingMarkets, MarketsIn, Owes
  <2> QED
    BY <2>2, <2>6, <2>7 DEF e, Tracks, KeepsRest, KeepsRows
<1> QED
  BY <1>9, <1>10 DEF t

LEMMA MigrationFollows ==
  ASSUME MarketAssumption, NEW s \in Seq(Block), NEW b \in Block, NEW m \in Market,
         b.log = MarketLog("MarketMigrated", m), LegalAfter(s, b.log)
  PROVE  /\ \A d \in Tables, now \in Nat : Follows(d, s) =>
              Tracks(d, MarketMigrated(d, m, now), Append(s, b))
         /\ \A d \in Tables : Follows(d, Append(s, b)) =>
              Tracks(d, MarketMigratedRemoval(d, m), s)
<1> DEFINE t == Append(s, b)
<1>1. "MarketMigrated" \in ForkKinds
  BY DEF ForkKinds
<1>2. /\ \A j \in ForkKinds, x \in Market :
           Was(t, j, x) <=> Was(s, j, x) \/ (j = "MarketMigrated" /\ x = m)
      /\ \A x \in Market : Was(t, "MarketCreated", x) <=> Was(s, "MarketCreated", x)
      /\ ~Was(s, "MarketMigrated", m)
  BY <1>1, ForkLogAdded
<1> HIDE DEF t
<1>3. \A x \in Market :
        /\ Was(t, "MarketFinalized", x) <=> Was(s, "MarketFinalized", x)
        /\ Was(t, "UniverseForked", x) <=> Was(s, "UniverseForked", x)
        /\ Was(t, "MarketMigrated", x) <=> Was(s, "MarketMigrated", x) \/ x = m
        /\ Was(t, "MarketParticipantsDisavowed", x) <=> Was(s, "MarketParticipantsDisavowed", x)
  BY <1>2 DEF ForkKinds
<1>4. Was(s, "MarketCreated", m) /\ ~Was(s, "UniverseForked", m) /\ DecidedIn(s)
  BY DEF LegalAfter
<1>5. (ForkedIn(t) <=> ForkedIn(s)) /\ (DecidedIn(t) <=> DecidedIn(s))
  BY <1>3 DEF ForkedIn, DecidedIn
<1>6. \A x \in Market : x # m =>
        /\ HomeIn(t, x) = HomeIn(s, x) /\ ForkerIn(t, x) = ForkerIn(s, x)
        /\ MigrationIn(t, x) = MigrationIn(s, x) /\ DisavowalIn(t, x) = DisavowalIn(s, x)
  BY <1>3, <1>5 DEF HomeIn, ForkerIn, MigrationIn, DisavowalIn
<1>7. /\ HomeIn(s, m) = Genesis /\ HomeIn(t, m) = Child /\ ForkerIn(t, m) = ForkerIn(s, m)
      /\ MigrationIn(s, m) = 1 /\ MigrationIn(t, m) = 0
  BY <1>2, <1>3, <1>4, <1>5 DEF HomeIn, ForkerIn, MigrationIn
<1>8. DisavowalIn(t, m) = DisavowalIn(s, m) - 1 /\ DisavowalIn(s, m) = DisavowalIn(t, m) + 1
  BY <1>2, <1>3, <1>5 DEF DisavowalIn
<1>9. ASSUME NEW d \in Tables, NEW now \in Nat, Follows(d, s)
      PROVE  Tracks(d, MarketMigrated(d, m, now), t)
  <2> DEFINE e == MarketMigrated(d, m, now)
  <2>1. m \in DOMAIN d.markets /\ FlagsFollow(d, s)
    BY <1>4, <1>9 DEF Follows, MarketsFollow
  <2>2. LET row == d.markets[m]
        IN  /\ e \in Tables /\ KeepsRest(d, e) /\ e.forked = d.forked
            /\ DOMAIN e.markets = DOMAIN d.markets
            /\ Owes(e.markets[m], Child, row.forking, row.needsMigration - 1, row.needsDisavowal - 1)
            /\ \A x \in DOMAIN d.markets : x # m => e.markets[x] = d.markets[x]
    BY <2>1, MarketMigrates
  <2> HIDE DEF e
  <2>3. ASSUME NEW x \in DOMAIN d.markets
        PROVE  Owes(e.markets[x], HomeIn(t, x), ForkerIn(t, x), MigrationIn(t, x), DisavowalIn(t, x))
    <3>1. x \in Market
      BY MarketRows
    <3>2. Owes(d.markets[x], HomeIn(s, x), ForkerIn(s, x), MigrationIn(s, x), DisavowalIn(s, x))
      BY <2>1 DEF FlagsFollow
    <3>3. CASE x = m
      <4>1. 1 - 1 = 0
        OBVIOUS
      <4>2. /\ d.markets[m].forking = ForkerIn(s, m) /\ d.markets[m].needsMigration = 1
            /\ d.markets[m].needsDisavowal = DisavowalIn(s, m)
        BY <1>7, <3>2, <3>3 DEF Owes
      <4>3. Owes(e.markets[m], Child, ForkerIn(s, m), 0, DisavowalIn(s, m) - 1)
        BY <2>2, <4>1, <4>2
      <4> QED
        BY <1>7, <1>8, <3>3, <4>3
    <3>4. CASE x # m
      BY <1>6, <2>2, <3>1, <3>2, <3>4
    <3> QED
      BY <3>3, <3>4
  <2>4. FlagsFollow(e, t)
    BY <1>5, <2>1, <2>2, <2>3 DEF FlagsFollow
  <2>5. Follows(e, t)
    BY <1>1, <1>9, <2>2, <2>4, FlagsAlone DEF t
  <2> QED
    BY <2>2, <2>5 DEF e, Tracks, KeepsRest, KeepsRows
<1>10. ASSUME NEW d \in Tables, Follows(d, t)
       PROVE  Tracks(d, MarketMigratedRemoval(d, m), s)
  <2> DEFINE e == MarketMigratedRemoval(d, m)
  <2>1. m \in DOMAIN d.markets /\ FlagsFollow(d, t)
    BY <1>2, <1>4, <1>10 DEF Follows, MarketsFollow
  <2>2. LET row == d.markets[m]
        IN  /\ e \in Tables /\ KeepsRest(d, e) /\ e.forked = d.forked
            /\ DOMAIN e.markets = DOMAIN d.markets
            /\ Owes(e.markets[m], Genesis, row.forking, row.needsMigration + 1, row.needsDisavowal + 1)
            /\ \A x \in DOMAIN d.markets : x # m => e.markets[x] = d.markets[x]
    BY <2>1, MarketUnmigrates
  <2> HIDE DEF e
  <2>3. ASSUME NEW x \in DOMAIN d.markets
        PROVE  Owes(e.markets[x], HomeIn(s, x), ForkerIn(s, x), MigrationIn(s, x), DisavowalIn(s, x))
    <3>1. x \in Market
      BY MarketRows
    <3>2. Owes(d.markets[x], HomeIn(t, x), ForkerIn(t, x), MigrationIn(t, x), DisavowalIn(t, x))
      BY <2>1 DEF FlagsFollow
    <3>3. CASE x = m
      <4>1. 0 + 1 = 1
        OBVIOUS
      <4>2. /\ d.markets[m].forking = ForkerIn(t, m) /\ d.markets[m].needsMigration = 0
            /\ d.markets[m].needsDisavowal = DisavowalIn(t, m)
        BY <1>7, <3>2, <3>3 DEF Owes
      <4>3. Owes(e.markets[m], Genesis, ForkerIn(t, m), 1, DisavowalIn(t, m) + 1)
        BY <2>2, <4>1, <4>2
      <4> QED
        BY <1>7, <1>8, <3>3, <4>3
    <3>4. CASE x # m
      BY <1>6, <2>2, <3>1, <3>2, <3>4
    <3> QED
      BY <3>3, <3>4
  <2>4. FlagsFollow(e, s)
    BY <1>5, <2>1, <2>2, <2>3 DEF FlagsFollow
  <2>5. Follows(e, s)
    BY <1>1, <1>10, <2>2, <2>4, FlagsAlone DEF t
  <2> QED
    BY <2>2, <2>5 DEF e, Tracks, KeepsRest, KeepsRows
<1> QED
  BY <1>9, <1>10 DEF t

LEMMA DisavowalFollows ==
  ASSUME MarketAssumption, NEW s \in Seq(Block), NEW b \in Block, NEW m \in Market,
         b.log = MarketLog("MarketParticipantsDisavowed", m), LegalAfter(s, b.log)
  PROVE  /\ \A d \in Tables : Follows(d, s) =>
              Tracks(d, MarketParticipantsDisavowed(d, m), Append(s, b))
         /\ \A d \in Tables : Follows(d, Append(s, b)) =>
              Tracks(d, MarketParticipantsDisavowedRemoval(d, m), s)
<1> DEFINE t == Append(s, b)
<1>1. "MarketParticipantsDisavowed" \in ForkKinds
  BY DEF ForkKinds
<1>2. /\ \A j \in ForkKinds, x \in Market :
           Was(t, j, x) <=> Was(s, j, x) \/ (j = "MarketParticipantsDisavowed" /\ x = m)
      /\ \A x \in Market : Was(t, "MarketCreated", x) <=> Was(s, "MarketCreated", x)
      /\ ~Was(s, "MarketParticipantsDisavowed", m)
  BY <1>1, ForkLogAdded
<1> HIDE DEF t
<1>3. \A x \in Market :
        /\ Was(t, "MarketFinalized", x) <=> Was(s, "MarketFinalized", x)
        /\ Was(t, "UniverseForked", x) <=> Was(s, "UniverseForked", x)
        /\ Was(t, "MarketMigrated", x) <=> Was(s, "MarketMigrated", x)
        /\ Was(t, "MarketParticipantsDisavowed", x)
             <=> Was(s, "MarketParticipantsDisavowed", x) \/ x = m
  BY <1>2 DEF ForkKinds
<1>4. Was(s, "MarketCreated", m)
  BY DEF LegalAfter
<1>5. (ForkedIn(t) <=> ForkedIn(s)) /\ (DecidedIn(t) <=> DecidedIn(s))
  BY <1>3 DEF ForkedIn, DecidedIn
<1>6. \A x \in Market :
        /\ HomeIn(t, x) = HomeIn(s, x) /\ ForkerIn(t, x) = ForkerIn(s, x)
        /\ MigrationIn(t, x) = MigrationIn(s, x)
        /\ x # m => DisavowalIn(t, x) = DisavowalIn(s, x)
  BY <1>3, <1>5 DEF HomeIn, ForkerIn, MigrationIn, DisavowalIn
<1>7. PICK k \in Int : k = -1
  OBVIOUS
<1>8. DisavowalIn(t, m) = DisavowalIn(s, m) + k /\ DisavowalIn(s, m) = DisavowalIn(t, m) + 1
  BY <1>2, <1>3, <1>5, <1>7 DEF DisavowalIn
<1>9. ASSUME NEW d \in Tables, Follows(d, s)
      PROVE  Tracks(d, MarketParticipantsDisavowed(d, m), t)
  <2> DEFINE e == DisavowalCounted(d, m, k, 1)
  <2>1. m \in DOMAIN d.markets /\ FlagsFollow(d, s)
    BY <1>4, <1>9 DEF Follows, MarketsFollow
  <2>2. LET row == d.markets[m]
        IN  /\ e \in Tables /\ KeepsRest(d, e) /\ e.forked = d.forked
            /\ DOMAIN e.markets = DOMAIN d.markets
            /\ Owes(e.markets[m], row.universe, row.forking, row.needsMigration,
                    row.needsDisavowal + k)
            /\ \A x \in DOMAIN d.markets : x # m => e.markets[x] = d.markets[x]
    <3>1. 1 \in Int
      OBVIOUS
    <3> QED
      BY <1>7, <2>1, <3>1, DisavowalCounts
  <2>3. MarketParticipantsDisavowed(d, m) = e
    <3>1. d.markets[m].needsDisavowal \in Int
      BY <2>1, MarketRows DEF MarketRow
    <3>2. d.markets[m].needsDisavowal - 1 = d.markets[m].needsDisavowal + k
      BY <1>7, <3>1
    <3> QED
      BY <3>2 DEF MarketParticipantsDisavowed, DisavowalCounted
  <2> HIDE DEF e
  <2>4. ASSUME NEW x \in DOMAIN d.markets
        PROVE  Owes(e.markets[x], HomeIn(t, x), ForkerIn(t, x), MigrationIn(t, x), DisavowalIn(t, x))
    <3>1. x \in Market
      BY MarketRows
    <3>2. Owes(d.markets[x], HomeIn(s, x), ForkerIn(s, x), MigrationIn(s, x), DisavowalIn(s, x))
      BY <2>1 DEF FlagsFollow
    <3>3. CASE x = m
      BY <1>6, <1>8, <2>2, <3>2, <3>3 DEF Owes
    <3>4. CASE x # m
      BY <1>6, <2>2, <3>1, <3>2, <3>4
    <3> QED
      BY <3>3, <3>4
  <2>5. FlagsFollow(e, t)
    BY <1>5, <2>1, <2>2, <2>4 DEF FlagsFollow
  <2>6. Follows(e, t)
    BY <1>1, <1>9, <2>2, <2>5, FlagsAlone DEF t
  <2> QED
    BY <2>2, <2>3, <2>6 DEF Tracks, KeepsRest
<1>10. ASSUME NEW d \in Tables, Follows(d, t)
       PROVE  Tracks(d, MarketParticipantsDisavowedRemoval(d, m), s)
  <2> DEFINE e == DisavowalCounted(d, m, 1, k)
  <2>1. m \in DOMAIN d.markets /\ FlagsFollow(d, t)
    BY <1>2, <1>4, <1>10 DEF Follows, MarketsFollow
  <2>2. LET row == d.markets[m]
        IN  /\ e \in Tables /\ KeepsRest(d, e) /\ e.forked = d.forked
            /\ DOMAIN e.markets = DOMAIN d.markets
            /\ Owes(e.markets[m], row.universe, row.forking, row.needsMigration,
                    row.needsDisavowal + 1)
            /\ \A x \in DOMAIN d.markets : x # m => e.markets[x] = d.markets[x]
    <3>1. 1 \in Int
      OBVIOUS
    <3> QED
      BY <1>7, <2>1, <3>1, DisavowalCounts
  <2>3. MarketParticipantsDisavowedRemoval(d, m) = e
    BY <1>7 DEF MarketParticipantsDisavowedRemoval, DisavowalCounted
  <2> HIDE DEF e
  <2>4. ASSUME NEW x \in DOMAIN d.markets
        PROVE  Owes(e.markets[x], HomeIn(s, x), ForkerIn(s, x), MigrationIn(s, x), DisavowalIn(s, x))
    <3>1. x \in Market
      BY MarketRows
    <3>2. Owes(d.markets[x], HomeIn(t, x), ForkerIn(t, x), MigrationIn(t, x), DisavowalIn(t, x))
      BY <2>1 DEF FlagsFollow
    <3>3. CASE x = m
      BY <1>6, <1>8, <2>2, <3>2, <3>3 DEF Owes
    <3>4. CASE x # m
      BY <1>6, <2>2, <3>1, <3>2, <3>4
    <3> QED
      BY <3>3, <3>4
  <2>5. FlagsFollow(e, s)
    BY <1>5, <2>1, <2>2, <2>4 DEF FlagsFollow
  <2>6. Follows(e, s)
    BY <1>1, <1>10, <2>2, <2>5, FlagsAlone DEF t
  <2> QED
    BY <2>2, <2>3, <2>6 DEF Tracks, KeepsRest
<1> QED
  BY <1>9, <1>10 DEF t

-----------------------------------------------------------------------------
(* The fee windows are as the time of the last block has them; and, as long *)
(* as no block after it had moved the tables, as the time of an earlier     *)
(* block, whose state a removal must find again.                            *)

TimeAt(s, k) == IF k = 0 THEN 0 ELSE s[k].time
RightAt(status, w, time) ==
  /\ status = "PAST" <=> EndOf(w) < time
  /\ StartOf(w) < time /\ time < EndOf(w) => status = "CURRENT"
  /\ status = "CURRENT" => StartOf(w) < time
ExistsAt(s, k, w) == w \in Prepared \/ In(SubSeq(s, 1, k), WindowLog(w))
WindowsTrue(f, s) ==
  \A k \in 0..Len(s) : (\A j \in k + 1..Len(s) : ~s[j].moved) =>
    \A w \in DOMAIN f : ExistsAt(s, k, w) => RightAt(f[w], w, TimeAt(s, k))

LEMMA WindowRows ==
  ASSUME NEW d \in Tables, NEW w \in DOMAIN d.windows
  PROVE  w \in Window /\ d.windows[w] \in {"FUTURE", "CURRENT", "PAST"}
BY TablesElim, RowsElim

LEMMA BoundsOfWindow ==
  ASSUME MarketAssumption, NEW w \in Window
  PROVE  StartOf(w) \in Nat /\ EndOf(w) \in Nat /\ EndOf(w) > StartOf(w) /\ EndOf(w) > 0
<1>1. PICK n \in Nat : n = w[2]
  BY DEF Window
<1>2. PICK k \in Nat \ {0} : k = Duration
  BY DEF MarketAssumption
<1>3. n * k \in Nat /\ (n + 1) * k \in Nat /\ (n + 1) * k = n * k + k
  BY <1>2
<1> QED
  BY <1>1, <1>2, <1>3 DEF StartOf, EndOf

LEMMA AdvancedRight ==
  ASSUME MarketAssumption, NEW d \in Tables, NEW w \in DOMAIN d.windows,
         NEW now \in Nat, NEW time \in Nat, time <= now, RightAt(d.windows[w], w, time)
  PROVE  RightAt(NewWindows(d, now)[w], w, now)
<1>1. PICK a \in Nat, z \in Nat : a = StartOf(w) /\ z = EndOf(w)
  BY WindowRows, BoundsOfWindow
<1>2. /\ w \in Expired(d, now) <=> d.windows[w] # "PAST" /\ z < now
      /\ w \in Opened(d, now) <=> d.windows[w] # "CURRENT" /\ z > now /\ a < now
  BY <1>1 DEF Expired, Opened
<1>3. NewWindows(d, now)[w] =
        IF w \in Expired(d, now) THEN "PAST"
        ELSE IF w \in Opened(d, now) THEN "CURRENT" ELSE d.windows[w]
  BY DEF NewWindows
<1>4. /\ d.windows[w] = "PAST" <=> z < time
      /\ d.windows[w] = "CURRENT" => a < time
  BY <1>1 DEF RightAt
<1>5. /\ NewWindows(d, now)[w] = "PAST" <=> z < now
      /\ a < now /\ now < z => NewWindows(d, now)[w] = "CURRENT"
      /\ NewWindows(d, now)[w] = "CURRENT" => a < now
  BY <1>2, <1>3, <1>4
<1> QED
  BY <1>1, <1>5 DEF RightAt

LEMMA RightStays ==
  ASSUME MarketAssumption, NEW d \in Tables, NEW w \in DOMAIN d.windows,
         NEW now \in Nat, RightAt(d.windows[w], w, now)
  PROVE  NewWindows(d, now)[w] = d.windows[w]
<1>1. PICK a \in Nat, z \in Nat : a = StartOf(w) /\ z = EndOf(w)
  BY WindowRows, BoundsOfWindow
<1>2. /\ w \in Expired(d, now) <=> d.windows[w] # "PAST" /\ z < now
      /\ w \in Opened(d, now) <=> d.windows[w] # "CURRENT" /\ z > now /\ a < now
  BY <1>1 DEF Expired, Opened
<1>3. NewWindows(d, now)[w] =
        IF w \in Expired(d, now) THEN "PAST"
        ELSE IF w \in Opened(d, now) THEN "CURRENT" ELSE d.windows[w]
  BY DEF NewWindows
<1>4. /\ d.windows[w] = "PAST" <=> z < now
      /\ a < now /\ now < z => d.windows[w] = "CURRENT"
  BY <1>1 DEF RightAt
<1> QED
  BY <1>2, <1>3, <1>4

LEMMA OpenedRight ==
  ASSUME MarketAssumption, NEW d \in Tables, NEW w \in DOMAIN d.windows,
         NEW now \in Nat, d.windows[w] = "FUTURE"
  PROVE  RightAt(NewWindows(d, now)[w], w, now)
<1>1. PICK a \in Nat, z \in Nat : a = StartOf(w) /\ z = EndOf(w)
  BY WindowRows, BoundsOfWindow
<1>2. /\ w \in Expired(d, now) <=> z < now
      /\ w \in Opened(d, now) <=> z > now /\ a < now
  BY <1>1 DEF Expired, Opened
<1>3. NewWindows(d, now)[w] =
        IF w \in Expired(d, now) THEN "PAST"
        ELSE IF w \in Opened(d, now) THEN "CURRENT" ELSE "FUTURE"
  BY DEF NewWindows
<1>4. /\ NewWindows(d, now)[w] = "PAST" <=> z < now
      /\ a < now /\ now < z => NewWindows(d, now)[w] = "CURRENT"
      /\ NewWindows(d, now)[w] = "CURRENT" => a < now
  BY <1>2, <1>3
<1> QED
  BY <1>1, <1>4 DEF RightAt

LEMMA TrueExtends ==
  ASSUME NEW s \in Seq(Block), NEW b \in Block, NEW f, NEW g, DOMAIN g \in SUBSET Window,
         WindowsTrue(f, s),
         \A w \in Window : w \in Prepared \/ In(s, WindowLog(w)) => w \in DOMAIN f,
         \A w \in DOMAIN g : RightAt(g[w], w, b.time),
         ~b.moved => \A w \in DOMAIN f : w \in DOMAIN g => g[w] = f[w]
  PROVE  WindowsTrue(g, Append(s, b))
<1> DEFINE t == Append(s, b)
<1>1. PICK n \in Nat : n = Len(s)
  OBVIOUS
<1>2. Len(t) = n + 1 /\ t[n + 1] = b /\ \A i \in 1..n : t[i] = s[i]
  BY <1>1, Appended
<1>3. \A k \in 0..n : SubSeq(t, 1, k) = SubSeq(s, 1, k)
  BY <1>1, PrefixOfAppended
<1> HIDE DEF t
<1>4. SUFFICES ASSUME NEW k \in 0..n + 1, \A j \in k + 1..n + 1 : ~t[j].moved,
                      NEW w \in DOMAIN g, ExistsAt(t, k, w)
               PROVE  RightAt(g[w], w, TimeAt(t, k))
  BY <1>2 DEF WindowsTrue, t
<1>5. CASE k = n + 1
  <2>1. TimeAt(t, k) = b.time
    BY <1>2, <1>5 DEF TimeAt
  <2> QED
    BY <2>1
<1>6. CASE k \in 0..n
  <2>1. n + 1 \in k + 1..n + 1 /\ \A j \in k + 1..n : j \in k + 1..n + 1 /\ j \in 1..n
    BY <1>6
  <2>2. ~b.moved /\ \A j \in k + 1..n : ~s[j].moved
    BY <1>2, <1>4, <2>1
  <2>3. ExistsAt(s, k, w)
    BY <1>3, <1>4, <1>6 DEF ExistsAt
  <2>4. In(SubSeq(s, 1, k), WindowLog(w)) => In(s, WindowLog(w))
    <3>1. SUFFICES ASSUME In(SubSeq(s, 1, k), WindowLog(w)) PROVE In(s, WindowLog(w))
      OBVIOUS
    <3>2. Len(SubSeq(s, 1, k)) = k /\ \A i \in 1..k : SubSeq(s, 1, k)[i] = s[i]
      BY <1>1, <1>6
    <3>3. PICK i \in 1..k : SubSeq(s, 1, k)[i].log = WindowLog(w)
      BY <3>1, <3>2 DEF In
    <3>4. i \in 1..n
      BY <1>6
    <3> QED
      BY <1>1, <3>2, <3>3, <3>4 DEF In
  <2>5. w \in DOMAIN f
    BY <2>3, <2>4 DEF ExistsAt
  <2>6. RightAt(f[w], w, TimeAt(s, k))
    BY <1>1, <1>6, <2>2, <2>3, <2>5 DEF WindowsTrue
  <2>7. TimeAt(t, k) = TimeAt(s, k)
    BY <1>2, <1>6 DEF TimeAt
  <2> QED
    BY <2>2, <2>5, <2>6, <2>7
<1>7. k = n + 1 \/ k \in 0..n
  OBVIOUS
<1> QED
  BY <1>5, <1>6, <1>7

LEMMA TrueRetracts ==
  ASSUME NEW s \in Seq(Block), NEW b \in Block, ~b.moved, NEW f, NEW g,
         WindowsTrue(f, Append(s, b)), \A w \in DOMAIN g : w \in DOMAIN f /\ g[w] = f[w]
  PROVE  WindowsTrue(g, s)
<1> DEFINE t == Append(s, b)
<1>1. PICK n \in Nat : n = Len(s)
  OBVIOUS
<1>2. Len(t) = n + 1 /\ t[n + 1] = b /\ \A i \in 1..n : t[i] = s[i]
  BY <1>1, Appended
<1>3. \A k \in 0..n : SubSeq(t, 1, k) = SubSeq(s, 1, k)
  BY <1>1, PrefixOfAppended
<1>4. WindowsTrue(f, t)
  OBVIOUS
<1> HIDE DEF t
<1>5. SUFFICES ASSUME NEW k \in 0..n, \A j \in k + 1..n : ~s[j].moved,
                      NEW w \in DOMAIN g, ExistsAt(s, k, w)
               PROVE  RightAt(g[w], w, TimeAt(s, k))
  BY <1>1 DEF WindowsTrue
<1>6. \A j \in k + 1..n + 1 : ~t[j].moved
  <2>1. \A j \in k + 1..n + 1 : j = n + 1 \/ (j \in k + 1..n /\ j \in 1..n)
    OBVIOUS
  <2> QED
    BY <1>2, <1>5, <2>1
<1>7. k \in 0..n + 1
  OBVIOUS
<1>8. ExistsAt(t, k, w) /\ w \in DOMAIN f
  BY <1>3, <1>5 DEF ExistsAt
<1>9. RightAt(f[w], w, TimeAt(t, k))
  BY <1>2, <1>4, <1>6, <1>7, <1>8 DEF WindowsTrue
<1>10. TimeAt(t, k) = TimeAt(s, k)
  BY <1>2 DEF TimeAt
<1> QED
  BY <1>9, <1>10

\* What the time of a block does, and what its log may change of the windows.
LEMMA TrueAdvances ==
  ASSUME MarketAssumption, NEW s \in Seq(Block), NEW b \in Block, NEW d \in Tables,
         WindowsFollow(d, s), WindowsTrue(d.windows, s), TimeAt(s, Len(s)) <= b.time,
         NEW found \in Tables, found.windows = NewWindows(d, b.time),
         ~b.moved => found = d,
         NEW e \in Tables,
         \A w \in DOMAIN e.windows :
           IF w \in DOMAIN found.windows THEN e.windows[w] = found.windows[w]
           ELSE RightAt(e.windows[w], w, b.time)
  PROVE  /\ WindowsTrue(e.windows, Append(s, b))
         /\ \A w \in DOMAIN found.windows : RightAt(found.windows[w], w, b.time)
<1>1. PICK n \in Nat : n = Len(s)
  OBVIOUS
<1>2. b.time \in Nat /\ TimeAt(s, n) \in Nat
  <2>1. n # 0 => s[n] \in Block
    BY <1>1
  <2> QED
    BY <1>1, <2>1 DEF Block, TimeAt
<1>3. SubSeq(s, 1, n) = s /\ n \in 0..n /\ ~(\E j \in n + 1..n : TRUE)
  BY <1>1, WholePrefix
<1>4. \A w \in DOMAIN d.windows : RightAt(d.windows[w], w, TimeAt(s, n))
  <2> SUFFICES ASSUME NEW w \in DOMAIN d.windows PROVE RightAt(d.windows[w], w, TimeAt(s, n))
    OBVIOUS
  <2>1. w \in Window
    BY WindowRows
  <2>2. ExistsAt(s, n, w)
    BY <1>3, <2>1 DEF ExistsAt, WindowsFollow
  <2> QED
    BY <1>1, <1>3, <2>2 DEF WindowsTrue
<1>5. \A w \in DOMAIN d.windows : RightAt(found.windows[w], w, b.time)
  BY <1>1, <1>2, <1>4, AdvancedRight
<1>6. DOMAIN found.windows = DOMAIN d.windows
  BY DEF NewWindows
<1>7. \A w \in DOMAIN e.windows : RightAt(e.windows[w], w, b.time)
  BY <1>5, <1>6
<1>8. DOMAIN e.windows \in SUBSET Window
  BY WindowRows
<1>9. ~b.moved => \A w \in DOMAIN d.windows : w \in DOMAIN e.windows => e.windows[w] = d.windows[w]
  BY <1>6
<1>10. \A w \in Window : w \in Prepared \/ In(s, WindowLog(w)) => w \in DOMAIN d.windows
  BY DEF WindowsFollow
<1>11. WindowsTrue(e.windows, Append(s, b))
  BY <1>7, <1>8, <1>9, <1>10, TrueExtends
<1> QED
  BY <1>5, <1>6, <1>11

-----------------------------------------------------------------------------
(* The invariant, and what its steps have in common. *)

IInv ==
  /\ chain \in Seq(Block) /\ Len(chain) <= MaxBlocks /\ db \in Tables
  /\ head \in Nat /\ halted \in BOOLEAN /\ removals \in 0..MaxRemovals
  /\ History(chain) /\ Follows(db, chain)
  /\ "time" \notin unwound => WindowsTrue(db.windows, chain)

\* The block that Extend adds.
Added(t, log) == LET found == AdvanceTime(db, t)
                 IN  [time |-> t, log |-> log, moved |-> found # db, before |-> found]

LEMMA AddedBlock ==
  ASSUME RunAssumption, IInv, NEW t \in Times, NEW log \in Logs
  PROVE  LET b == Added(t, log)
         IN  /\ b \in Block /\ b.time = t /\ b.log = log /\ t \in Nat
             /\ AdvanceTime(db, t) \in Tables /\ Follows(AdvanceTime(db, t), chain)
             /\ AdvanceTime(db, t).windows = NewWindows(db, t)
             /\ ~b.moved => AdvanceTime(db, t) = db
<1>1. /\ AdvanceTime(db, t) \in Tables /\ Follows(AdvanceTime(db, t), chain)
      /\ AdvanceTime(db, t).windows = NewWindows(db, t)
  BY TimeFollows DEF IInv
<1>2. t \in Nat
  BY DEF RunAssumption
<1>3. PICK found \in Tables : found = AdvanceTime(db, t)
  BY <1>1
<1>4. PICK v \in BOOLEAN : v = (found # db)
  OBVIOUS
<1>5. Added(t, log) = [time |-> t, log |-> log, moved |-> v, before |-> found]
  BY <1>3, <1>4 DEF Added
<1>6. Added(t, log) \in Block
  BY <1>2, <1>5 DEF Block
<1>7. /\ Added(t, log).time = t /\ Added(t, log).log = log
      /\ ~Added(t, log).moved => AdvanceTime(db, t) = db
  <2>1. /\ Added(t, log).time = t /\ Added(t, log).log = log
        /\ Added(t, log).moved = v
    BY <1>5
  <2>2. ~v => AdvanceTime(db, t) = db
    BY <1>3, <1>4
  <2> QED
    BY <2>1, <2>2
<1> QED
  BY <1>1, <1>2, <1>6, <1>7

LEMMA TimeOfHead == Now = TimeAt(chain, Len(chain)) \/ chain \notin Seq(Block)
<1>1. SUFFICES ASSUME chain \in Seq(Block) PROVE Now = TimeAt(chain, Len(chain))
  OBVIOUS
<1>2. Len(chain) = 0 <=> chain = <<>>
  BY <1>1
<1> QED
  BY <1>2 DEF Now, TimeAt, Final

LEMMA WholeChain ==
  ASSUME IInv
  PROVE  Sane(chain)
<1>1. chain \in Seq(Block) /\ Len(chain) \in Nat /\ Len(chain) \in 0..Len(chain)
  BY DEF IInv
<1>2. SubSeq(chain, 1, Len(chain)) = chain
  BY <1>1, WholePrefix
<1> QED
  BY <1>1, <1>2 DEF IInv, History

\* A log is added: the handler's tables e, of the tables that time left.
LEMMA Extended ==
  ASSUME MarketAssumption, RunAssumption, IInv, NEW t \in Times, NEW log \in Logs, Mining(t),
         LegalAfter(chain, log), NEW e, Extend(t, log, e),
         e \in Tables, Follows(e, Append(chain, Added(t, log))),
         "time" \notin unwound => \A w \in DOMAIN e.windows :
           IF w \in DOMAIN AdvanceTime(db, t).windows THEN e.windows[w] = AdvanceTime(db, t).windows[w]
           ELSE RightAt(e.windows[w], w, t)
  PROVE  IInv'
<1> DEFINE b == Added(t, log)
           found == AdvanceTime(db, t)
<1>1. /\ b \in Block /\ b.time = t /\ b.log = log /\ t \in Nat
      /\ found \in Tables /\ found.windows = NewWindows(db, t)
      /\ ~b.moved => found = db
  BY AddedBlock
<1>2. /\ chain' = Append(chain, b) /\ db' = e /\ head' = t
      /\ UNCHANGED <<halted, removals, unwound>>
  BY DEF Extend, Added
<1>3. /\ chain \in Seq(Block) /\ Len(chain) < MaxBlocks /\ db \in Tables /\ MaxBlocks \in Nat
      /\ History(chain) /\ Follows(db, chain) /\ t >= Now
  BY DEF IInv, Mining, RunAssumption
<1>4. "time" \notin unwound => \A w \in DOMAIN e.windows :
        IF w \in DOMAIN found.windows THEN e.windows[w] = found.windows[w]
        ELSE RightAt(e.windows[w], w, b.time)
  BY <1>1
<1> HIDE DEF b, found
<1>5. chain' \in Seq(Block) /\ Len(chain') = Len(chain) + 1
  BY <1>1, <1>2, <1>3, Appended
<1>6. Len(chain') <= MaxBlocks
  <2>1. Len(chain) \in Nat
    BY <1>3
  <2> QED
    BY <1>3, <1>5, <2>1
<1>7. History(chain')
  <2>1. Sane(chain) /\ LegalAfter(chain, b.log)
    BY <1>1, WholeChain
  <2>2. Sane(Append(chain, b))
    BY <1>1, <1>3, <2>1, SaneExtends
  <2> QED
    BY <1>1, <1>2, <1>3, <2>1, <2>2, HistoryExtends
<1>8. Follows(db', chain')
  BY <1>2 DEF b
<1>9. ASSUME "time" \notin unwound PROVE WindowsTrue(db'.windows, chain')
  <2>1. WindowsFollow(db, chain) /\ WindowsTrue(db.windows, chain)
    BY <1>3, <1>9 DEF IInv, Follows
  <2>2. TimeAt(chain, Len(chain)) <= b.time
    <3>1. Now = TimeAt(chain, Len(chain))
      BY <1>3, TimeOfHead
    <3>2. TimeAt(chain, Len(chain)) \in Nat
      <4>1. Len(chain) # 0 => chain[Len(chain)] \in Block
        BY <1>3
      <4> QED
        BY <4>1 DEF TimeAt, Block
    <3> QED
      BY <1>1, <1>3, <3>1, <3>2
  <2>3. /\ chain \in Seq(Block) /\ b \in Block /\ db \in Tables /\ found \in Tables
        /\ found.windows = NewWindows(db, b.time) /\ (~b.moved => found = db) /\ e \in Tables
    BY <1>1, <1>3
  <2>4. WindowsTrue(e.windows, Append(chain, b))
    BY <1>4, <1>9, <2>1, <2>2, <2>3, TrueAdvances
  <2> QED
    BY <1>2, <2>4
<1>10. db' \in Tables /\ head' \in Nat /\ halted' \in BOOLEAN /\ removals' \in 0..MaxRemovals
  BY <1>1, <1>2 DEF IInv
<1>11. unwound' = unwound
  BY <1>2
<1> QED
  BY <1>5, <1>6, <1>7, <1>8, <1>9, <1>10, <1>11 DEF IInv

LEMMA LastBlock ==
  ASSUME IInv, chain # <<>>
  PROVE  LET s == SubSeq(chain, 1, Len(chain) - 1)
         IN  /\ s \in Seq(Block) /\ Final(chain) \in Block /\ chain = Append(s, Final(chain))
             /\ Len(s) = Len(chain) - 1 /\ Len(chain) \in Nat \ {0}
             /\ History(s) /\ Sane(s) /\ LegalAfter(s, Final(chain).log)
<1>1. PICK n \in Nat : n = Len(chain)
  BY DEF IInv
<1>2. chain \in Seq(Block) /\ n # 0
  BY <1>1 DEF IInv
<1>3. PICK s \in Seq(Block) : s = SubSeq(chain, 1, n - 1)
  <2>1. n - 1 \in 0..n /\ \A i \in 1..n - 1 : chain[i] \in Block
    BY <1>1, <1>2
  <2>2. SubSeq(chain, 1, n - 1) \in Seq(Block)
    BY <1>1, <1>2, <2>1
  <2> QED
    BY <2>2
<1>4. Len(s) = n - 1 /\ \A i \in 1..n - 1 : s[i] = chain[i]
  BY <1>1, <1>2, <1>3
<1>5. Final(chain) = chain[n] /\ Final(chain) \in Block
  BY <1>1, <1>2 DEF Final
<1>6. chain = Append(s, chain[n])
  <2>1. /\ Append(s, chain[n]) \in Seq(Block) /\ Len(Append(s, chain[n])) = n
        /\ \A i \in 1..n - 1 : Append(s, chain[n])[i] = chain[i]
        /\ Append(s, chain[n])[n] = chain[n]
    BY <1>2, <1>4, <1>5, Appended
  <2>2. \A i \in 1..n : i = n \/ i \in 1..n - 1
    BY <1>2
  <2>3. \A i \in 1..n : Append(s, chain[n])[i] = chain[i]
    BY <2>1, <2>2
  <2> QED
    BY <1>1, <1>2, <2>1, <2>3, SeqEqual
<1>7. History(s) /\ Sane(s) /\ LegalAfter(s, Final(chain).log)
  <2>1. History(Append(s, Final(chain)))
    BY <1>5, <1>6 DEF IInv
  <2> QED
    BY <1>3, <1>5, <2>1, HistoryRetracts
<1> QED
  BY <1>1, <1>2, <1>3, <1>4, <1>5, <1>6, <1>7

\* The last log is taken back, which leaves the tables e.
LEMMA Retracted ==
  ASSUME RunAssumption, IInv, chain # <<>>, removals < MaxRemovals, NEW e, Retract(e),
         e \in Tables, Follows(e, SubSeq(chain, 1, Len(chain) - 1)),
         \A w \in DOMAIN e.windows : w \in DOMAIN db.windows /\ e.windows[w] = db.windows[w]
  PROVE  IInv'
<1> DEFINE s == SubSeq(chain, 1, Len(chain) - 1)
<1>1. /\ s \in Seq(Block) /\ Final(chain) \in Block /\ chain = Append(s, Final(chain))
      /\ Len(s) = Len(chain) - 1 /\ Len(chain) \in Nat \ {0}
      /\ History(s) /\ Sane(s) /\ LegalAfter(s, Final(chain).log)
  BY LastBlock
<1>2. /\ chain' = s /\ db' = e /\ removals' = removals + 1 /\ UNCHANGED <<head, halted>>
      /\ unwound' = unwound \cup {Final(chain).log.kind}
                            \cup (IF Final(chain).moved THEN {"time"} ELSE {})
                            \cup (IF head # Final(chain).time THEN {"head"} ELSE {})
  BY DEF Retract
<1>3. Follows(e, s)
  OBVIOUS
<1> HIDE DEF s
<1>4. Len(chain') <= MaxBlocks
  BY <1>1, <1>2 DEF IInv, RunAssumption
<1>5. ASSUME "time" \notin unwound' PROVE WindowsTrue(e.windows, s)
  <2>1. ~Final(chain).moved /\ "time" \notin unwound
    BY <1>2, <1>5
  <2>2. WindowsTrue(db.windows, Append(s, Final(chain)))
    BY <1>1, <2>1 DEF IInv
  <2> QED
    BY <1>1, <2>1, <2>2, TrueRetracts
<1>6. removals' \in 0..MaxRemovals
  BY <1>2 DEF IInv, RunAssumption
<1>7. head' \in Nat /\ halted' \in BOOLEAN
  BY <1>2 DEF IInv
<1> QED
  BY <1>1, <1>2, <1>3, <1>4, <1>5, <1>6, <1>7 DEF IInv

LEMMA Tracked ==
  ASSUME MarketAssumption, RunAssumption, IInv, NEW t \in Times, NEW log \in Logs, Mining(t),
         LegalAfter(chain, log), NEW e, Extend(t, log, e),
         Tracks(AdvanceTime(db, t), e, Append(chain, Added(t, log)))
  PROVE  IInv'
BY Extended DEF Tracks, KeepsWindows

LEMMA Untracked ==
  ASSUME RunAssumption, IInv, chain # <<>>, removals < MaxRemovals, NEW e, Retract(e),
         Tracks(db, e, SubSeq(chain, 1, Len(chain) - 1))
  PROVE  IInv'
BY Retracted DEF Tracks, KeepsWindows

LEMMA Seen ==
  /\ \A m : /\ Created(m) <=> Was(chain, "MarketCreated", m)
            /\ Reported(m) <=> ReportedIn(chain, m)
            /\ Finalized(m) <=> Was(chain, "MarketFinalized", m)
            /\ Migrated(m) <=> Was(chain, "MarketMigrated", m)
            /\ m \in Forking <=> m \in Market /\ Was(chain, "UniverseForked", m)
  /\ Forking # {} <=> ForkedIn(chain)
  /\ \A log : Has(log) <=> In(chain, log)
  /\ \A c : Completed(c) <=> Did(chain, "DisputeCrowdsourcerCompleted", c)
BY DEF Created, Reported, Finalized, Migrated, Forking, Completed, Has, In, Was, Did, ReportedIn,
       ForkedIn

LEMMA RoundStarted ==
  ASSUME IInv, NEW m \in Market, Reported(m)
  PROVE  /\ RoundStart(m) \in 1..Len(chain) /\ StartsRound(chain[RoundStart(m)].log, m)
         /\ \A j \in 1..Len(chain) : StartsRound(chain[j].log, m) => j <= RoundStart(m)
<1> DEFINE starts == {i \in 1..Len(chain) : StartsRound(chain[i].log, m)}
<1>1. LastStart(chain, m) /\ ReportedIn(chain, m)
  BY WholeChain, Seen DEF Sane
<1>2. \E i \in starts : \A j \in starts : j <= i
  BY <1>1 DEF LastStart
<1>3. RoundStart(m) = CHOOSE i \in starts : \A j \in starts : j <= i
  BY DEF RoundStart
<1>4. RoundStart(m) \in starts /\ \A j \in starts : j <= RoundStart(m)
  BY <1>2, <1>3
<1> QED
  BY <1>4

\* No log comes twice, and what a log builds on comes before it.
LEMMA LegalAt ==
  ASSUME IInv, NEW i \in 1..Len(chain)
  PROVE  LegalAfter(SubSeq(chain, 1, i - 1), chain[i].log)
<1>1. PICK n \in Nat : n = Len(chain)
  BY DEF IInv
<1>2. i - 1 \in 0..n /\ i - 1 < n /\ (i - 1) + 1 = i
  BY <1>1
<1> QED
  BY <1>1, <1>2 DEF IInv, History

LEMMA InPrefix ==
  ASSUME IInv, NEW i \in 1..Len(chain), NEW log
  PROVE  In(SubSeq(chain, 1, i - 1), log) <=> \E j \in 1..i - 1 : chain[j].log = log
<1>1. PICK n \in Nat : n = Len(chain)
  BY DEF IInv
<1>2. chain \in Seq(Block) /\ i - 1 \in 0..n
  BY <1>1 DEF IInv
<1>3. Len(SubSeq(chain, 1, i - 1)) = i - 1 /\ \A j \in 1..i - 1 : SubSeq(chain, 1, i - 1)[j] = chain[j]
  BY <1>1, <1>2
<1> QED
  BY <1>3 DEF In

LEMMA OnlyOnce ==
  ASSUME IInv, NEW i \in 1..Len(chain), NEW j \in 1..Len(chain), chain[i].log = chain[j].log,
         chain[i].log # NoLog
  PROVE  i = j
<1>1. PICK n \in Nat : n = Len(chain)
  BY DEF IInv
<1>2. ASSUME NEW k \in 1..n, NEW l \in 1..n, chain[k].log = chain[l].log, chain[k].log # NoLog, k < l
      PROVE  FALSE
  <2>1. ~In(SubSeq(chain, 1, l - 1), chain[l].log)
    BY <1>1, <1>2, LegalAt DEF LegalAfter
  <2>2. k \in 1..l - 1
    BY <1>2
  <2> QED
    BY <1>1, <1>2, <2>1, <2>2, InPrefix
<1>3. i < j \/ j < i \/ i = j
  BY <1>1
<1> QED
  BY <1>1, <1>2, <1>3

LEMMA RoundIsOnChain ==
  ASSUME IInv, NEW c \in Crowdsourcer, MarketOf[c] \in Market, Reported(MarketOf[c]), NEW kind
  PROVE  ThisRound(kind, c) => Did(chain, kind, c)
<1>1. RoundStart(MarketOf[c]) \in 1..Len(chain)
  BY RoundStarted
<1>2. \A i \in RoundStart(MarketOf[c])..Len(chain) : i \in 1..Len(chain)
  BY <1>1
<1> QED
  BY <1>2 DEF ThisRound, Did, In

\* A crowdsourcer of this round has no contribution of an earlier one.
LEMMA FreshContribution ==
  ASSUME IInv, NEW c \in Crowdsourcer, MarketOf[c] \in Market, Reported(MarketOf[c]),
         ThisRound("DisputeCrowdsourcerCreated", c), ~ThisRound("DisputeCrowdsourcerContribution", c)
  PROVE  ~Did(chain, "DisputeCrowdsourcerContribution", c)
<1>1. PICK n \in Nat : n = Len(chain)
  BY DEF IInv
<1>2. PICK r \in 1..n : r = RoundStart(MarketOf[c])
  BY <1>1, RoundStarted
<1>3. SUFFICES ASSUME NEW j \in 1..n, chain[j].log = CrowdLog("DisputeCrowdsourcerContribution", c)
               PROVE  FALSE
  BY <1>1 DEF Did, In
<1>4. PICK i \in r..n : chain[i].log = CrowdLog("DisputeCrowdsourcerCreated", c)
  BY <1>1, <1>2 DEF ThisRound
<1>5. j < r
  <2>1. j \notin r..n
    BY <1>1, <1>2, <1>3 DEF ThisRound
  <2> QED
    BY <2>1
<1>6. Did(SubSeq(chain, 1, j - 1), "DisputeCrowdsourcerCreated", c)
  BY <1>1, <1>3, LegalAt DEF LegalAfter
<1>7. PICK k \in 1..j - 1 : chain[k].log = CrowdLog("DisputeCrowdsourcerCreated", c)
  BY <1>1, <1>6, InPrefix DEF Did
<1>8. k \in 1..n /\ i \in 1..n /\ k < i
  BY <1>5
<1>9. CrowdLog("DisputeCrowdsourcerCreated", c) # NoLog
  BY DEF CrowdLog, NoLog
<1>10. k = i
  BY <1>1, <1>4, <1>7, <1>8, <1>9, OnlyOnce
<1> QED
  BY <1>8, <1>10

-----------------------------------------------------------------------------
(* The logs that may be added. *)

LEMMA LogsAreLogs ==
  /\ NoLog \in Logs
  /\ \A k \in Kinds, m \in Market : MarketLog(k, m) \in Logs
  /\ \A m \in Market, p \in Payout : ReportLog(m, p) \in Logs
  /\ \A k \in CrowdKinds, c \in Crowdsourcer : CrowdLog(k, c) \in Logs
  /\ \A w \in Window : WindowLog(w) \in Logs
  /\ \A x \in Market \cup Crowdsourcer : ParticipantLog(x) \in Logs
BY DEF Logs

LEMMA NoLogAdds ==
  ASSUME MarketAssumption, RunAssumption, IInv, NEW t \in Times, AddBlock(t)
  PROVE  IInv'
<1> DEFINE found == AdvanceTime(db, t)
           b == Added(t, NoLog)
<1>1. NoLog \in Logs
  BY LogsAreLogs
<1>2. Mining(t) /\ Extend(t, NoLog, found)
  BY DEF AddBlock
<1>3. LegalAfter(chain, NoLog)
  BY DEF LegalAfter, NoLog, MarketLog, ReportLog, CrowdLog, WindowLog, ParticipantLog
<1>4. b \in Block /\ b.log = NoLog /\ found \in Tables /\ Follows(found, chain)
  BY <1>1, AddedBlock
<1>5. chain \in Seq(Block)
  BY DEF IInv
<1> HIDE DEF found, b
<1>6. Follows(found, Append(chain, b))
  BY <1>4, <1>5, NoLogFollows
<1>7. Tracks(found, found, Append(chain, b))
  BY <1>4, <1>6 DEF Tracks, KeepsWindows
<1> QED
  BY <1>1, <1>2, <1>3, <1>7, Tracked DEF found, b

LEMMA MarketCreatedAdds ==
  ASSUME MarketAssumption, RunAssumption, IInv, NEW t \in Times, NEW m \in Market, AddMarketCreated(t, m)
  PROVE  IInv'
<1> DEFINE found == AdvanceTime(db, t)
           log == MarketLog("MarketCreated", m)
           b == Added(t, log)
<1>1. log \in Logs
  BY LogsAreLogs DEF Kinds
<1>2. Mining(t) /\ Extend(t, log, MarketCreated(found, m)) /\ ~Created(m) /\ Forking = {}
  BY DEF AddMarketCreated
<1>3. LegalAfter(chain, log)
  <2>1. ~In(chain, log) /\ ~ForkedIn(chain)
    BY <1>2, Seen DEF Was
  <2> QED
    BY <2>1 DEF LegalAfter, NoLog, MarketLog, ReportLog, CrowdLog, WindowLog, ParticipantLog
<1>4. b \in Block /\ b.log = log /\ found \in Tables /\ Follows(found, chain)
  BY <1>1, AddedBlock
<1>5. chain \in Seq(Block) /\ Sane(chain)
  BY WholeChain DEF IInv
<1> HIDE DEF found, b
<1>6. LegalAfter(chain, b.log)
  BY <1>3, <1>4
<1>7. Tracks(found, MarketCreated(found, m), Append(chain, b))
  BY <1>4, <1>5, <1>6, CreationFollows
<1> QED
  BY <1>1, <1>2, <1>3, <1>7, Tracked DEF found, b

\* The fee windows that a log finds are as the time of its block has them.
LEMMA FoundRight ==
  ASSUME MarketAssumption, RunAssumption, IInv, NEW t \in Times, Mining(t), "time" \notin unwound,
         NEW w \in DOMAIN AdvanceTime(db, t).windows
  PROVE  RightAt(AdvanceTime(db, t).windows[w], w, t)
<1> DEFINE b == Added(t, NoLog)
           found == AdvanceTime(db, t)
<1>1. NoLog \in Logs
  BY LogsAreLogs
<1>2. /\ b \in Block /\ b.time = t /\ t \in Nat
      /\ found \in Tables /\ found.windows = NewWindows(db, t)
      /\ ~b.moved => found = db
  BY <1>1, AddedBlock
<1>3. /\ chain \in Seq(Block) /\ db \in Tables /\ t >= Now /\ WindowsFollow(db, chain)
      /\ WindowsTrue(db.windows, chain)
  BY DEF IInv, Mining, Follows
<1> HIDE DEF b, found
<1>4. TimeAt(chain, Len(chain)) <= b.time
  <2>1. Now = TimeAt(chain, Len(chain))
    BY <1>3, TimeOfHead
  <2>2. TimeAt(chain, Len(chain)) \in Nat
    <3>1. Len(chain) # 0 => chain[Len(chain)] \in Block
      BY <1>3
    <3> QED
      BY <3>1 DEF TimeAt, Block
  <2> QED
    BY <1>2, <1>3, <2>1, <2>2
<1>5. \A x \in DOMAIN found.windows :
        IF x \in DOMAIN found.windows THEN found.windows[x] = found.windows[x]
        ELSE RightAt(found.windows[x], x, b.time)
  OBVIOUS
<1>6. \A x \in DOMAIN found.windows : RightAt(found.windows[x], x, b.time)
  BY <1>2, <1>3, <1>4, <1>5, TrueAdvances
<1> QED
  BY <1>2, <1>6 DEF found

LEMMA FeeWindowCreatedAdds ==
  ASSUME MarketAssumption, RunAssumption, IInv, NEW t \in Times, NEW w \in Windows,
         AddFeeWindowCreated(t, w)
  PROVE  IInv'
<1> DEFINE found == AdvanceTime(db, t)
           log == WindowLog(w)
           b == Added(t, log)
           e == FeeWindowCreated(found, w, t)
           opened == [found EXCEPT !.windows = With(@, w, "FUTURE")]
<1>1. w \in Window /\ log \in Logs
  BY LogsAreLogs DEF RunAssumption, Window
<1>2. Mining(t) /\ Extend(t, log, e) /\ ~Exists(w)
  BY DEF AddFeeWindowCreated
<1>3. w \notin Prepared /\ ~In(chain, log)
  BY <1>2, Seen DEF Exists
<1>4. LegalAfter(chain, log)
  <2>1. \A x : log = WindowLog(x) => x = w
    BY DEF WindowLog
  <2> QED
    BY <1>3, <2>1 DEF LegalAfter, NoLog, MarketLog, ReportLog, CrowdLog, WindowLog, ParticipantLog
<1>5. b \in Block /\ b.log = log /\ found \in Tables /\ Follows(found, chain) /\ t \in Nat
  BY <1>1, AddedBlock
<1>6. chain \in Seq(Block)
  BY DEF IInv
<1>7. IsFiniteSet(DOMAIN found.windows) /\ w \notin DOMAIN found.windows
  BY <1>1, <1>3, <1>5 DEF Follows, WindowsFollow
<1> HIDE DEF found, b
<1>8. e \in Tables /\ Follows(e, Append(chain, b))
  <2>1. LegalAfter(chain, b.log)
    BY <1>4, <1>5
  <2> QED
    BY <1>1, <1>5, <1>6, <2>1, OpeningFollows
<1>9. opened.windows = With(found.windows, w, "FUTURE") /\ e.windows = NewWindows(opened, t)
  BY <1>1, <1>5, <1>7, WindowCreates
<1>10. opened \in Tables
  <2>1. found.windows \in Rows(Window, {"FUTURE", "CURRENT", "PAST"})
    BY <1>5 DEF Tables
  <2>2. "FUTURE" \in {"FUTURE", "CURRENT", "PAST"}
    OBVIOUS
  <2>3. With(found.windows, w, "FUTURE") \in Rows(Window, {"FUTURE", "CURRENT", "PAST"})
    BY <1>1, <2>1, <2>2, RowAdded
  <2> QED
    BY <1>5, <2>3, SetWindows
<1> HIDE DEF e, opened
<1>11. /\ DOMAIN opened.windows = DOMAIN found.windows \cup {w} /\ opened.windows[w] = "FUTURE"
       /\ \A x \in DOMAIN found.windows : opened.windows[x] = found.windows[x]
  BY <1>7, <1>9 DEF With
<1>12. DOMAIN e.windows = DOMAIN opened.windows
  BY <1>9 DEF NewWindows
<1>13. ASSUME "time" \notin unwound, NEW x \in DOMAIN e.windows
       PROVE  IF x \in DOMAIN found.windows THEN e.windows[x] = found.windows[x]
              ELSE RightAt(e.windows[x], x, t)
  <2>1. CASE x \in DOMAIN found.windows
    <3>1. RightAt(found.windows[x], x, t)
      BY <1>2, <1>13, <2>1, FoundRight DEF found
    <3>2. RightAt(opened.windows[x], x, t) /\ x \in DOMAIN opened.windows
      BY <1>11, <2>1, <3>1
    <3>3. e.windows[x] = opened.windows[x]
      BY <1>5, <1>9, <1>10, <3>2, RightStays
    <3> QED
      BY <1>11, <2>1, <3>3
  <2>2. CASE x \notin DOMAIN found.windows
    <3>1. x = w /\ x \in DOMAIN opened.windows /\ opened.windows[x] = "FUTURE"
      BY <1>11, <1>12, <1>13, <2>2
    <3>2. RightAt(e.windows[x], x, t)
      BY <1>5, <1>9, <1>10, <3>1, OpenedRight
    <3> QED
      BY <2>2, <3>2
  <2> QED
    BY <2>1, <2>2
<1> QED
  BY <1>1, <1>2, <1>4, <1>8, <1>13, Extended DEF found, b

LEMMA ReportSubmittedAdds ==
  ASSUME MarketAssumption, RunAssumption, IInv, NEW t \in Times, NEW m \in Market, NEW p \in Payout,
         AddInitialReportSubmitted(t, m, p)
  PROVE  IInv'
<1> DEFINE found == AdvanceTime(db, t)
           log == ReportLog(m, p)
           b == Added(t, log)
           e == InitialReportSubmitted(found, m, p, t)
<1>1. log \in Logs
  BY LogsAreLogs
<1>2. Mining(t) /\ Extend(t, log, e) /\ Created(m) /\ ~Reported(m)
  BY DEF AddInitialReportSubmitted
<1>3. LegalAfter(chain, log)
  <2>1. Was(chain, "MarketCreated", m) /\ ~ReportedIn(chain, m)
    BY <1>2, Seen
  <2>2. log.kind = "InitialReportSubmitted" /\ log.market = m
    BY DEF ReportLog
  <2>3. ~In(chain, log)
    BY <2>1, <2>2 DEF In, ReportedIn
  <2> QED
    BY <2>1, <2>3 DEF LegalAfter, NoLog, MarketLog, ReportLog, CrowdLog, WindowLog, ParticipantLog
<1>4. b \in Block /\ b.log = log /\ found \in Tables /\ Follows(found, chain) /\ t \in Nat
  BY <1>1, AddedBlock
<1>5. chain \in Seq(Block)
  BY DEF IInv
<1> HIDE DEF found, b
<1>6. LegalAfter(chain, b.log)
  BY <1>3, <1>4
<1>7. Tracks(found, e, Append(chain, b))
  BY <1>4, <1>5, <1>6, ReportFollows
<1> QED
  BY <1>1, <1>2, <1>3, <1>7, Tracked DEF found, b

\* What an open dispute tells of the chain.
LEMMA Disputed ==
  ASSUME MarketAssumption, IInv, NEW t, NEW c \in Crowdsourcer, Disputable(t, c)
  PROVE  /\ Mining(t) /\ MarketOf[c] \in Market /\ Reported(MarketOf[c])
         /\ ReportedIn(chain, MarketOf[c]) /\ ~Was(chain, "MarketFinalized", MarketOf[c])
BY Seen DEF MarketAssumption, Disputable

LEMMA CrowdsourcerCreatedAdds ==
  ASSUME MarketAssumption, RunAssumption, IInv, NEW t \in Times, NEW c \in Crowdsourcer,
         AddDisputeCrowdsourcerCreated(t, c)
  PROVE  IInv'
<1> DEFINE found == AdvanceTime(db, t)
           log == CrowdLog("DisputeCrowdsourcerCreated", c)
           b == Added(t, log)
           e(w) == DisputeCrowdsourcerCreated(found, c, w)
<1>1. log \in Logs
  BY LogsAreLogs DEF CrowdKinds
<1>2. /\ Disputable(t, c) /\ ~Has(log)
      /\ \/ Throw
         \/ \E w \in Current(found, HomeOf(MarketOf[c])) : Extend(t, log, e(w))
  BY DEF AddDisputeCrowdsourcerCreated
<1>3. CASE Throw
  BY <1>3 DEF Throw, IInv
<1>4. CASE \E w \in Current(found, HomeOf(MarketOf[c])) : Extend(t, log, e(w))
  <2>1. PICK w \in Current(found, HomeOf(MarketOf[c])) : Extend(t, log, e(w))
    BY <1>4
  <2>2. LegalAfter(chain, log)
    <3>1. ~In(chain, log) /\ ReportedIn(chain, MarketOf[c])
      BY <1>2, Seen, Disputed
    <3>2. \A x : log = CrowdLog("DisputeCrowdsourcerCreated", x) => x = c
      BY DEF CrowdLog
    <3> QED
      BY <3>1, <3>2
      DEF LegalAfter, NoLog, MarketLog, ReportLog, CrowdLog, WindowLog, ParticipantLog
  <2>3. b \in Block /\ b.log = log /\ found \in Tables /\ Follows(found, chain)
    BY <1>1, AddedBlock
  <2>4. chain \in Seq(Block) /\ Sane(chain)
    BY WholeChain DEF IInv
  <2>5. w \in Window
    BY <2>1, <2>3, WindowRows DEF Current
  <2>6. Mining(t)
    BY <1>2, Disputed
  <2> HIDE DEF found, b
  <2>7. LegalAfter(chain, b.log)
    BY <2>2, <2>3
  <2>8. Tracks(found, e(w), Append(chain, b))
    BY <2>3, <2>4, <2>5, <2>7, CrowdsourcerFollows
  <2> QED
    BY <1>1, <2>1, <2>2, <2>6, <2>8, Tracked DEF found, b
<1> QED
  BY <1>2, <1>3, <1>4

LEMMA ContributionAdds ==
  ASSUME MarketAssumption, RunAssumption, IInv, NEW t \in Times, NEW c \in Crowdsourcer,
         AddDisputeCrowdsourcerContribution(t, c)
  PROVE  IInv'
<1> DEFINE found == AdvanceTime(db, t)
           log == CrowdLog("DisputeCrowdsourcerContribution", c)
           b == Added(t, log)
           e == DisputeCrowdsourcerContribution(found, c, Size[c])
<1>1. log \in Logs
  BY LogsAreLogs DEF CrowdKinds
<1>2. /\ Disputable(t, c) /\ ThisRound("DisputeCrowdsourcerCreated", c)
      /\ ~ThisRound("DisputeCrowdsourcerContribution", c) /\ Extend(t, log, e)
  BY DEF AddDisputeCrowdsourcerContribution
<1>3. MarketOf[c] \in Market /\ Reported(MarketOf[c]) /\ Mining(t)
  BY <1>2, Disputed
<1>4. LegalAfter(chain, log)
  <2>1. Did(chain, "DisputeCrowdsourcerCreated", c)
    BY <1>2, <1>3, RoundIsOnChain
  <2>2. ~In(chain, log)
    BY <1>2, <1>3, FreshContribution DEF Did
  <2>3. \A x : log = CrowdLog("DisputeCrowdsourcerContribution", x) => x = c
    BY DEF CrowdLog
  <2> QED
    BY <2>1, <2>2, <2>3
    DEF LegalAfter, NoLog, MarketLog, ReportLog, CrowdLog, WindowLog, ParticipantLog
<1>5. b \in Block /\ b.log = log /\ found \in Tables /\ Follows(found, chain)
  BY <1>1, AddedBlock
<1>6. chain \in Seq(Block)
  BY DEF IInv
<1> HIDE DEF found, b
<1>7. LegalAfter(chain, b.log)
  BY <1>4, <1>5
<1>8. Tracks(found, e, Append(chain, b))
  BY <1>5, <1>6, <1>7, ContributionFollows
<1> QED
  BY <1>1, <1>2, <1>3, <1>4, <1>8, Tracked DEF found, b

LEMMA CompletedAdds ==
  ASSUME MarketAssumption, RunAssumption, IInv, NEW t \in Times, NEW c \in Crowdsourcer,
         AddDisputeCrowdsourcerCompleted(t, c)
  PROVE  IInv'
<1> DEFINE found == AdvanceTime(db, t)
           log == CrowdLog("DisputeCrowdsourcerCompleted", c)
           b == Added(t, log)
           e == DisputeCrowdsourcerCompleted(found, c, t)
<1>1. log \in Logs
  BY LogsAreLogs DEF CrowdKinds
<1>2. /\ Disputable(t, c) /\ ThisRound("DisputeCrowdsourcerContribution", c)
      /\ ~Completed(c) /\ Extend(t, log, e)
  BY DEF AddDisputeCrowdsourcerCompleted
<1>3. /\ MarketOf[c] \in Market /\ Reported(MarketOf[c]) /\ Mining(t)
      /\ ReportedIn(chain, MarketOf[c]) /\ ~Was(chain, "MarketFinalized", MarketOf[c])
  BY <1>2, Disputed
<1>4. Did(chain, "DisputeCrowdsourcerContribution", c)
  BY <1>2, <1>3, RoundIsOnChain
<1>5. LegalAfter(chain, log)
  <2>1. ~In(chain, log)
    BY <1>2, Seen DEF Did
  <2>2. \A x : log = CrowdLog("DisputeCrowdsourcerCompleted", x) => x = c
    BY DEF CrowdLog
  <2> QED
    BY <1>3, <1>4, <2>1, <2>2
    DEF LegalAfter, NoLog, MarketLog, ReportLog, CrowdLog, WindowLog, ParticipantLog
<1>6. b \in Block /\ b.log = log /\ found \in Tables /\ Follows(found, chain) /\ t \in Nat
  BY <1>1, AddedBlock
<1>7. chain \in Seq(Block) /\ Sane(chain)
  BY WholeChain DEF IInv
<1> HIDE DEF found, b
<1>8. /\ c \in DOMAIN found.crowdsourcers /\ IsFiniteSet(DOMAIN found.crowdsourcers)
      /\ MarketOf[c] \in DOMAIN found.markets
  <2>1. Did(chain, "DisputeCrowdsourcerCreated", c) /\ Was(chain, "MarketCreated", MarketOf[c])
    BY <1>3, <1>4, <1>7 DEF Sane, SaneMarket, SaneCrowdsourcer
  <2> QED
    BY <1>3, <1>6, <2>1 DEF Follows, StakesFollow, MarketsFollow
<1>9. e \in Tables /\ KeepsAll(found, e)
  BY <1>6, <1>8, CrowdsourcerCompletes
<1> HIDE DEF e
<1>10. Follows(e, Append(chain, b))
  BY <1>6, <1>7, <1>9, CompletionFollows
<1>11. Tracks(found, e, Append(chain, b))
  BY <1>9, <1>10 DEF Tracks, KeepsAll
<1> QED
  BY <1>1, <1>2, <1>3, <1>5, <1>11, Tracked DEF found, b

LEMMA MarketFinalizedAdds ==
  ASSUME MarketAssumption, RunAssumption, IInv, NEW t \in Times, NEW m \in Market,
         AddMarketFinalized(t, m)
  PROVE  IInv'
<1> DEFINE found == AdvanceTime(db, t)
           log == MarketLog("MarketFinalized", m)
           b == Added(t, log)
           e == MarketFinalized(found, m)
<1>1. log \in Logs
  BY LogsAreLogs DEF Kinds
<1>2. /\ Mining(t) /\ Extend(t, log, e) /\ ~Finalized(m)
      /\ m \in Forking \/ (Reported(m) /\ ~InForked(m))
  BY DEF AddMarketFinalized
<1>3. LegalAfter(chain, log)
  <2>1. ~In(chain, log)
    BY <1>2, Seen DEF Was
  <2>2. Was(chain, "UniverseForked", m) \/ ReportedIn(chain, m)
    BY <1>2, Seen
  <2>3. Was(chain, "MarketCreated", m)
    BY <2>2, WholeChain DEF Sane, SaneMarket
  <2>4. Was(chain, "UniverseForked", m) \/ ~ForkedIn(chain) \/ Was(chain, "MarketMigrated", m)
    BY <1>2, Seen DEF InForked
  <2> QED
    BY <2>1, <2>3, <2>4
    DEF LegalAfter, NoLog, MarketLog, ReportLog, CrowdLog, WindowLog, ParticipantLog
<1>4. b \in Block /\ b.log = log /\ found \in Tables /\ Follows(found, chain)
  BY <1>1, AddedBlock
<1>5. chain \in Seq(Block) /\ Sane(chain)
  BY WholeChain DEF IInv
<1> HIDE DEF found, b
<1>6. LegalAfter(chain, b.log)
  BY <1>3, <1>4
<1>7. Tracks(found, e, Append(chain, b))
  BY <1>4, <1>5, <1>6, FinalizationFollows
<1> QED
  BY <1>1, <1>2, <1>3, <1>7, Tracked DEF found, b

LEMMA UniverseForkedAdds ==
  ASSUME MarketAssumption, RunAssumption, IInv, NEW t \in Times, NEW m \in Market,
         AddUniverseForked(t, m)
  PROVE  IInv'
<1> DEFINE found == AdvanceTime(db, t)
           log == MarketLog("UniverseForked", m)
           b == Added(t, log)
           e == UniverseForked(found, Genesis, m)
<1>1. log \in Logs
  BY LogsAreLogs DEF Kinds
<1>2. /\ Mining(t) /\ Extend(t, log, e) /\ ForkDue
      /\ m = MarketOf[Final(chain).log.crowdsourcer]
  BY DEF AddUniverseForked
<1>3. chain \in Seq(Block) /\ Sane(chain) /\ chain # <<>>
  BY <1>2, WholeChain DEF IInv, ForkDue
<1>4. LegalAfter(chain, log)
  <2>1. PICK c \in Crowdsourcer : Final(chain).log = CrowdLog("DisputeCrowdsourcerCompleted", c)
    BY <1>2 DEF ForkDue, RunAssumption
  <2>2. m = MarketOf[c]
    BY <1>2, <2>1 DEF CrowdLog
  <2>3. PICK s \in Seq(Block) : /\ chain = Append(s, Final(chain)) /\ Final(chain) \in Block
                                /\ LegalAfter(s, Final(chain).log)
    BY <1>3, LastBlock
  <2>4. Did(chain, "DisputeCrowdsourcerCompleted", c)
    BY <2>1, <2>3, InAppended DEF Did
  <2>5. ReportedIn(chain, m)
    BY <1>3, <2>2, <2>4 DEF Sane, SaneCrowdsourcer
  <2>6. ~Was(s, "MarketFinalized", m)
    BY <2>1, <2>2, <2>3 DEF LegalAfter
  <2>7. Final(chain).log # MarketLog("MarketFinalized", m)
    BY <2>1 DEF CrowdLog, MarketLog
  <2>8. ~Was(chain, "MarketFinalized", m)
    <3>1. PICK other : other = MarketLog("MarketFinalized", m)
      OBVIOUS
    <3>2. In(Append(s, Final(chain)), other) <=> In(s, other) \/ Final(chain).log = other
      BY <2>3, InAppended
    <3> QED
      BY <2>3, <2>6, <2>7, <3>1, <3>2 DEF Was
  <2>9. ~ForkedIn(chain) /\ ~In(chain, log)
    BY <1>2, Seen DEF ForkDue, Was
  <2> QED
    BY <2>5, <2>8, <2>9
    DEF LegalAfter, NoLog, MarketLog, ReportLog, CrowdLog, WindowLog, ParticipantLog
<1>5. b \in Block /\ b.log = log /\ found \in Tables /\ Follows(found, chain)
  BY <1>1, AddedBlock
<1> HIDE DEF found, b
<1>6. LegalAfter(chain, b.log)
  BY <1>4, <1>5
<1>7. Tracks(found, e, Append(chain, b))
  BY <1>3, <1>5, <1>6, ForkFollows
<1> QED
  BY <1>1, <1>2, <1>4, <1>7, Tracked DEF found, b

LEMMA MarketMigratedAdds ==
  ASSUME MarketAssumption, RunAssumption, IInv, NEW t \in Times, NEW m \in Market,
         AddMarketMigrated(t, m)
  PROVE  IInv'
<1> DEFINE found == AdvanceTime(db, t)
           log == MarketLog("MarketMigrated", m)
           b == Added(t, log)
           e == MarketMigrated(found, m, t)
<1>1. log \in Logs
  BY LogsAreLogs DEF Kinds
<1>2. /\ Mining(t) /\ Extend(t, log, e) /\ Created(m) /\ m \notin Forking /\ ~Migrated(m)
      /\ \E f \in Forking : Finalized(f)
  BY DEF AddMarketMigrated
<1>3. LegalAfter(chain, log)
  <2>1. ~In(chain, log) /\ Was(chain, "MarketCreated", m) /\ ~Was(chain, "UniverseForked", m)
    BY <1>2, Seen DEF Was
  <2>2. DecidedIn(chain)
    BY <1>2, Seen DEF DecidedIn
  <2> QED
    BY <2>1, <2>2
    DEF LegalAfter, NoLog, MarketLog, ReportLog, CrowdLog, WindowLog, ParticipantLog
<1>4. b \in Block /\ b.log = log /\ found \in Tables /\ Follows(found, chain) /\ t \in Nat
  BY <1>1, AddedBlock
<1>5. chain \in Seq(Block)
  BY DEF IInv
<1> HIDE DEF found, b
<1>6. LegalAfter(chain, b.log)
  BY <1>3, <1>4
<1>7. Tracks(found, e, Append(chain, b))
  BY <1>4, <1>5, <1>6, MigrationFollows
<1> QED
  BY <1>1, <1>2, <1>3, <1>7, Tracked DEF found, b

LEMMA MarketDisavowedAdds ==
  ASSUME MarketAssumption, RunAssumption, IInv, NEW t \in Times, NEW m \in Market,
         AddMarketParticipantsDisavowed(t, m)
  PROVE  IInv'
<1> DEFINE found == AdvanceTime(db, t)
           log == MarketLog("MarketParticipantsDisavowed", m)
           b == Added(t, log)
           e == MarketParticipantsDisavowed(found, m)
<1>1. log \in Logs
  BY LogsAreLogs DEF Kinds
<1>2. /\ Mining(t) /\ Extend(t, log, e) /\ Created(m) /\ m \notin Forking /\ Forking # {} /\ ~Has(log)
  BY DEF AddMarketParticipantsDisavowed, InForked
<1>3. LegalAfter(chain, log)
  <2>1. /\ ~In(chain, log) /\ Was(chain, "MarketCreated", m) /\ ~Was(chain, "UniverseForked", m)
        /\ ForkedIn(chain)
    BY <1>2, Seen
  <2> QED
    BY <2>1 DEF LegalAfter, NoLog, MarketLog, ReportLog, CrowdLog, WindowLog, ParticipantLog
<1>4. b \in Block /\ b.log = log /\ found \in Tables /\ Follows(found, chain)
  BY <1>1, AddedBlock
<1>5. chain \in Seq(Block)
  BY DEF IInv
<1> HIDE DEF found, b
<1>6. LegalAfter(chain, b.log)
  BY <1>3, <1>4
<1>7. Tracks(found, e, Append(chain, b))
  BY <1>4, <1>5, <1>6, DisavowalFollows
<1> QED
  BY <1>1, <1>2, <1>3, <1>7, Tracked DEF found, b

\* A participant that is disavowed has a row among the reports or crowdsourcers.
LEMMA ParticipantHasRow ==
  ASSUME NEW s \in Seq(Block), Sane(s), NEW d, Follows(d, s), NEW x \in Market \cup Crowdsourcer,
         \/ x \in Market /\ Was(s, "UniverseForked", x)
         \/ x \in Crowdsourcer /\ Did(s, "DisputeCrowdsourcerCompleted", x)
  PROVE  x \in DOMAIN d.reports \cup DOMAIN d.crowdsourcers
<1>1. CASE x \in Market /\ Was(s, "UniverseForked", x)
  <2>1. ReportedIn(s, x)
    BY <1>1 DEF Sane, SaneMarket
  <2> QED
    BY <1>1, <2>1 DEF Follows, ReportsFollow
<1>2. CASE x \in Crowdsourcer /\ Did(s, "DisputeCrowdsourcerCompleted", x)
  <2>1. Did(s, "DisputeCrowdsourcerCreated", x)
    BY <1>2 DEF Sane, SaneCrowdsourcer
  <2> QED
    BY <1>2, <2>1 DEF Follows, StakesFollow
<1> QED
  BY <1>1, <1>2

LEMMA ParticipantDisavowedAdds ==
  ASSUME MarketAssumption, RunAssumption, IInv, NEW t \in Times, NEW x \in Market \cup Crowdsourcer,
         AddReportingParticipantDisavowed(t, x)
  PROVE  IInv'
<1> DEFINE found == AdvanceTime(db, t)
           log == ParticipantLog(x)
           b == Added(t, log)
           e == ReportingParticipantDisavowed(found, x, 1)
<1>1. log \in Logs
  BY LogsAreLogs
<1>2. /\ Mining(t) /\ Extend(t, log, e) /\ ~Has(log)
      /\ x \in Forking \/ (x \in Crowdsourcer /\ Completed(x))
  BY DEF AddReportingParticipantDisavowed
<1>3. \/ x \in Market /\ Was(chain, "UniverseForked", x)
      \/ x \in Crowdsourcer /\ Did(chain, "DisputeCrowdsourcerCompleted", x)
  BY <1>2, Seen
<1>4. LegalAfter(chain, log)
  <2>1. ~In(chain, log)
    BY <1>2, Seen
  <2>2. \A y : log = ParticipantLog(y) => y = x
    BY DEF ParticipantLog
  <2> QED
    BY <1>3, <2>1, <2>2
    DEF LegalAfter, NoLog, MarketLog, ReportLog, CrowdLog, WindowLog, ParticipantLog
<1>5. b \in Block /\ b.log = log /\ found \in Tables /\ Follows(found, chain)
  BY <1>1, AddedBlock
<1>6. chain \in Seq(Block) /\ Sane(chain)
  BY WholeChain DEF IInv
<1> HIDE DEF found, b
<1>7. x \in DOMAIN found.reports \cup DOMAIN found.crowdsourcers
  BY <1>3, <1>5, <1>6, ParticipantHasRow
<1>8. 1 \in {0, 1}
  OBVIOUS
<1>9. e \in Tables /\ KeepsAll(found, e)
  BY <1>5, <1>7, <1>8, ParticipantDisavows
<1> HIDE DEF e
<1>10. Follows(e, Append(chain, b))
  BY <1>5, <1>6, <1>9, ParticipantFollows
<1>11. Tracks(found, e, Append(chain, b))
  BY <1>9, <1>10 DEF Tracks, KeepsAll
<1> QED
  BY <1>1, <1>2, <1>4, <1>11, Tracked DEF found, b, e

-----------------------------------------------------------------------------
(* The last log is taken back. *)

LEMMA ThrowHalts ==
  ASSUME IInv, Throw
  PROVE  IInv'
BY DEF Throw, IInv

LEMMA Removed ==
  ASSUME IInv, NEW log, Removing(log)
  PROVE  LET s == SubSeq(chain, 1, Len(chain) - 1)
             b == Final(chain)
         IN  /\ s \in Seq(Block) /\ b \in Block /\ chain = Append(s, b) /\ b.log = log
             /\ Sane(s) /\ LegalAfter(s, log) /\ db \in Tables /\ Follows(db, Append(s, b))
             /\ chain # <<>> /\ removals < MaxRemovals /\ head \in Nat
<1>1. chain # <<>> /\ Final(chain).log = log /\ removals < MaxRemovals
  BY DEF Removing
<1> QED
  BY <1>1, LastBlock DEF IInv

LEMMA NoLogRemoves ==
  ASSUME MarketAssumption, RunAssumption, IInv, RemoveBlock
  PROVE  IInv'
<1> DEFINE s == SubSeq(chain, 1, Len(chain) - 1)
           b == Final(chain)
<1>1. Removing(NoLog) /\ Retract(db)
  BY DEF RemoveBlock
<1>2. /\ s \in Seq(Block) /\ b \in Block /\ b.log = NoLog /\ db \in Tables
      /\ Follows(db, Append(s, b)) /\ chain # <<>> /\ removals < MaxRemovals
  BY <1>1, Removed
<1> HIDE DEF s, b
<1>3. Follows(db, s)
  BY <1>2, NoLogFollows
<1>4. Tracks(db, db, s)
  BY <1>2, <1>3 DEF Tracks, KeepsWindows
<1> QED
  BY <1>1, <1>2, <1>4, Untracked DEF s

LEMMA MarketCreatedRemoves ==
  ASSUME MarketAssumption, RunAssumption, IInv, NEW m \in Market, RemoveMarketCreated(m)
  PROVE  IInv'
<1> DEFINE s == SubSeq(chain, 1, Len(chain) - 1)
           b == Final(chain)
           log == MarketLog("MarketCreated", m)
           e == MarketCreatedRemoval(db, m)
<1>1. Removing(log) /\ Retract(e)
  BY DEF RemoveMarketCreated
<1>2. /\ s \in Seq(Block) /\ b \in Block /\ b.log = log /\ Sane(s) /\ LegalAfter(s, log)
      /\ db \in Tables /\ Follows(db, Append(s, b)) /\ chain # <<>> /\ removals < MaxRemovals
      /\ head \in Nat
  BY <1>1, Removed
<1> HIDE DEF s, b
<1>3. LegalAfter(s, b.log)
  BY <1>2
<1>4. Tracks(db, e, s)
  BY <1>2, <1>3, CreationFollows
<1> HIDE DEF e
<1>5. Retract(e) => IInv'
  BY <1>2, <1>4, Untracked DEF s
<1> QED
  BY <1>1, <1>5

LEMMA ReportRemoves ==
  ASSUME MarketAssumption, RunAssumption, IInv, NEW m \in Market, NEW p \in Payout, RemoveInitialReportSubmitted(m, p)
  PROVE  IInv'
<1> DEFINE s == SubSeq(chain, 1, Len(chain) - 1)
           b == Final(chain)
           log == ReportLog(m, p)
           e == InitialReportSubmittedRemoval(db, m, head)
<1>1. Removing(log) /\ (Throw \/ Retract(e))
  BY DEF RemoveInitialReportSubmitted
<1>2. /\ s \in Seq(Block) /\ b \in Block /\ b.log = log /\ Sane(s) /\ LegalAfter(s, log)
      /\ db \in Tables /\ Follows(db, Append(s, b)) /\ chain # <<>> /\ removals < MaxRemovals
      /\ head \in Nat
  BY <1>1, Removed
<1> HIDE DEF s, b
<1>3. LegalAfter(s, b.log)
  BY <1>2
<1>4. Tracks(db, e, s)
  BY <1>2, <1>3, ReportFollows
<1> HIDE DEF e
<1>5. Retract(e) => IInv'
  BY <1>2, <1>4, Untracked DEF s
<1> QED
  BY <1>1, <1>5, ThrowHalts

LEMMA CrowdsourcerCreatedRemoves ==
  ASSUME MarketAssumption, RunAssumption, IInv, NEW c \in Crowdsourcer, RemoveDisputeCrowdsourcerCreated(c)
  PROVE  IInv'
<1> DEFINE s == SubSeq(chain, 1, Len(chain) - 1)
           b == Final(chain)
           log == CrowdLog("DisputeCrowdsourcerCreated", c)
           e == DisputeCrowdsourcerCreatedRemoval(db, c)
<1>1. Removing(log) /\ Retract(e)
  BY DEF RemoveDisputeCrowdsourcerCreated
<1>2. /\ s \in Seq(Block) /\ b \in Block /\ b.log = log /\ Sane(s) /\ LegalAfter(s, log)
      /\ db \in Tables /\ Follows(db, Append(s, b)) /\ chain # <<>> /\ removals < MaxRemovals
      /\ head \in Nat
  BY <1>1, Removed
<1> HIDE DEF s, b
<1>3. LegalAfter(s, b.log)
  BY <1>2
<1>4. Tracks(db, e, s)
  BY <1>2, <1>3, CrowdsourcerFollows
<1> HIDE DEF e
<1>5. Retract(e) => IInv'
  BY <1>2, <1>4, Untracked DEF s
<1> QED
  BY <1>1, <1>5

LEMMA ContributionRemoves ==
  ASSUME MarketAssumption, RunAssumption, IInv, NEW c \in Crowdsourcer, RemoveDisputeCrowdsourcerContribution(c)
  PROVE  IInv'
<1> DEFINE s == SubSeq(chain, 1, Len(chain) - 1)
           b == Final(chain)
           log == CrowdLog("DisputeCrowdsourcerContribution", c)
           e == DisputeCrowdsourcerContributionRemoval(db, c, Size[c])
<1>1. Removing(log) /\ Retract(e)
  BY DEF RemoveDisputeCrowdsourcerContribution
<1>2. /\ s \in Seq(Block) /\ b \in Block /\ b.log = log /\ Sane(s) /\ LegalAfter(s, log)
      /\ db \in Tables /\ Follows(db, Append(s, b)) /\ chain # <<>> /\ removals < MaxRemovals
      /\ head \in Nat
  BY <1>1, Removed
<1> HIDE DEF s, b
<1>3. LegalAfter(s, b.log)
  BY <1>2
<1>4. Tracks(db, e, s)
  BY <1>2, <1>3, ContributionFollows
<1> HIDE DEF e
<1>5. Retract(e) => IInv'
  BY <1>2, <1>4, Untracked DEF s
<1> QED
  BY <1>1, <1>5

LEMMA MarketFinalizedRemoves ==
  ASSUME MarketAssumption, RunAssumption, IInv, NEW m \in Market, RemoveMarketFinalized(m)
  PROVE  IInv'
<1> DEFINE s == SubSeq(chain, 1, Len(chain) - 1)
           b == Final(chain)
           log == MarketLog("MarketFinalized", m)
           e == MarketFinalizedRemoval(db, m)
<1>1. Removing(log) /\ (Throw \/ Retract(e))
  BY DEF RemoveMarketFinalized
<1>2. /\ s \in Seq(Block) /\ b \in Block /\ b.log = log /\ Sane(s) /\ LegalAfter(s, log)
      /\ db \in Tables /\ Follows(db, Append(s, b)) /\ chain # <<>> /\ removals < MaxRemovals
      /\ head \in Nat
  BY <1>1, Removed
<1> HIDE DEF s, b
<1>3. LegalAfter(s, b.log)
  BY <1>2
<1>4. Tracks(db, e, s)
  BY <1>2, <1>3, FinalizationFollows
<1> HIDE DEF e
<1>5. Retract(e) => IInv'
  BY <1>2, <1>4, Untracked DEF s
<1> QED
  BY <1>1, <1>5, ThrowHalts

LEMMA MarketMigratedRemoves ==
  ASSUME MarketAssumption, RunAssumption, IInv, NEW m \in Market, RemoveMarketMigrated(m)
  PROVE  IInv'
<1> DEFINE s == SubSeq(chain, 1, Len(chain) - 1)
           b == Final(chain)
           log == MarketLog("MarketMigrated", m)
           e == MarketMigratedRemoval(db, m)
<1>1. Removing(log) /\ (Throw \/ Retract(e))
  BY DEF RemoveMarketMigrated
<1>2. /\ s \in Seq(Block) /\ b \in Block /\ b.log = log /\ Sane(s) /\ LegalAfter(s, log)
      /\ db \in Tables /\ Follows(db, Append(s, b)) /\ chain # <<>> /\ removals < MaxRemovals
      /\ head \in Nat
  BY <1>1, Removed
<1> HIDE DEF s, b
<1>3. LegalAfter(s, b.log)
  BY <1>2
<1>4. Tracks(db, e, s)
  BY <1>2, <1>3, MigrationFollows
<1> HIDE DEF e
<1>5. Retract(e) => IInv'
  BY <1>2, <1>4, Untracked DEF s
<1> QED
  BY <1>1, <1>5, ThrowHalts

LEMMA MarketDisavowedRemoves ==
  ASSUME MarketAssumption, RunAssumption, IInv, NEW m \in Market, RemoveMarketParticipantsDisavowed(m)
  PROVE  IInv'
<1> DEFINE s == SubSeq(chain, 1, Len(chain) - 1)
           b == Final(chain)
           log == MarketLog("MarketParticipantsDisavowed", m)
           e == MarketParticipantsDisavowedRemoval(db, m)
<1>1. Removing(log) /\ Retract(e)
  BY DEF RemoveMarketParticipantsDisavowed
<1>2. /\ s \in Seq(Block) /\ b \in Block /\ b.log = log /\ Sane(s) /\ LegalAfter(s, log)
      /\ db \in Tables /\ Follows(db, Append(s, b)) /\ chain # <<>> /\ removals < MaxRemovals
      /\ head \in Nat
  BY <1>1, Removed
<1> HIDE DEF s, b
<1>3. LegalAfter(s, b.log)
  BY <1>2
<1>4. Tracks(db, e, s)
  BY <1>2, <1>3, DisavowalFollows
<1> HIDE DEF e
<1>5. Retract(e) => IInv'
  BY <1>2, <1>4, Untracked DEF s
<1> QED
  BY <1>1, <1>5

LEMMA UniverseForkedRemoves ==
  ASSUME MarketAssumption, RunAssumption, IInv, NEW m \in Market, RemoveUniverseForked(m)
  PROVE  IInv'
<1> DEFINE s == SubSeq(chain, 1, Len(chain) - 1)
           b == Final(chain)
           log == MarketLog("UniverseForked", m)
           e(f) == UniverseForkedRemoval(db, Genesis, f)
<1>1. /\ Removing(log)
      /\ Throw \/ \E f \in ForkingMarkets(db, Genesis) : Retract(e(f))
  BY DEF RemoveUniverseForked
<1>2. /\ s \in Seq(Block) /\ b \in Block /\ b.log = log /\ Sane(s) /\ LegalAfter(s, log)
      /\ db \in Tables /\ Follows(db, Append(s, b)) /\ chain # <<>> /\ removals < MaxRemovals
  BY <1>1, Removed
<1> HIDE DEF s, b
<1>3. LegalAfter(s, b.log)
  BY <1>2
<1>4. ForkingMarkets(db, Genesis) = {m} /\ Tracks(db, e(m), s)
  BY <1>2, <1>3, ForkFollows
<1>5. Retract(e(m)) => IInv'
  BY <1>2, <1>4, Untracked DEF s
<1> QED
  BY <1>1, <1>4, <1>5, ThrowHalts

LEMMA FeeWindowCreatedRemoves ==
  ASSUME MarketAssumption, RunAssumption, IInv, NEW w \in Windows, RemoveFeeWindowCreated(w)
  PROVE  IInv'
<1> DEFINE s == SubSeq(chain, 1, Len(chain) - 1)
           b == Final(chain)
           log == WindowLog(w)
           e == FeeWindowCreatedRemoval(db, w)
<1>1. w \in Window /\ Removing(log) /\ Retract(e)
  BY DEF RemoveFeeWindowCreated, RunAssumption, Window
<1>2. /\ s \in Seq(Block) /\ b \in Block /\ b.log = log /\ LegalAfter(s, log)
      /\ db \in Tables /\ Follows(db, Append(s, b)) /\ chain # <<>> /\ removals < MaxRemovals
  BY <1>1, Removed
<1> HIDE DEF s, b
<1>3. LegalAfter(s, b.log)
  BY <1>2
<1>4. e \in Tables /\ Follows(e, s)
  BY <1>1, <1>2, <1>3, OpeningFollows
<1>5. \A x \in DOMAIN e.windows : x \in DOMAIN db.windows /\ e.windows[x] = db.windows[x]
  BY <1>2, WindowUncreates
<1> HIDE DEF e
<1> QED
  BY <1>1, <1>2, <1>4, <1>5, Retracted DEF s

LEMMA CompletedRemoves ==
  ASSUME MarketAssumption, RunAssumption, IInv, NEW c \in Crowdsourcer,
         RemoveDisputeCrowdsourcerCompleted(c)
  PROVE  IInv'
<1> DEFINE s == SubSeq(chain, 1, Len(chain) - 1)
           b == Final(chain)
           log == CrowdLog("DisputeCrowdsourcerCompleted", c)
           e == DisputeCrowdsourcerCompletedRemoval(db, c, head)
<1>1. Removing(log) /\ (Throw \/ Retract(e))
  BY DEF RemoveDisputeCrowdsourcerCompleted
<1>2. /\ s \in Seq(Block) /\ b \in Block /\ b.log = log /\ db \in Tables
      /\ Follows(db, Append(s, b)) /\ chain # <<>> /\ removals < MaxRemovals /\ head \in Nat
      /\ chain = Append(s, b)
  BY <1>1, Removed
<1>3. Sane(chain) /\ MarketOf[c] \in Market
  BY WholeChain DEF MarketAssumption
<1> HIDE DEF s, b
<1>4. /\ c \in DOMAIN db.crowdsourcers /\ IsFiniteSet(DOMAIN db.crowdsourcers)
      /\ MarketOf[c] \in DOMAIN db.markets
  <2>1. Did(chain, "DisputeCrowdsourcerCompleted", c)
    BY <1>2, InAppended DEF Did
  <2>2. Did(chain, "DisputeCrowdsourcerCreated", c) /\ Was(chain, "MarketCreated", MarketOf[c])
    BY <1>3, <2>1 DEF Sane, SaneMarket, SaneCrowdsourcer
  <2> QED
    BY <1>2, <1>3, <2>2 DEF Follows, StakesFollow, MarketsFollow
<1>5. e \in Tables /\ KeepsAll(db, e)
  BY <1>2, <1>4, CrowdsourcerUncompletes
<1> HIDE DEF e
<1>6. Follows(e, s)
  BY <1>2, <1>5, CompletionFollows
<1>7. Tracks(db, e, s)
  BY <1>5, <1>6 DEF Tracks, KeepsAll
<1>8. Retract(e) => IInv'
  BY <1>2, <1>7, Untracked DEF s
<1> QED
  BY <1>1, <1>8, ThrowHalts

LEMMA ParticipantDisavowedRemoves ==
  ASSUME MarketAssumption, RunAssumption, IInv, NEW x \in Market \cup Crowdsourcer,
         RemoveReportingParticipantDisavowed(x)
  PROVE  IInv'
<1> DEFINE s == SubSeq(chain, 1, Len(chain) - 1)
           b == Final(chain)
           log == ParticipantLog(x)
           e == ReportingParticipantDisavowed(db, x, 0)
<1>1. Removing(log) /\ Retract(e)
  BY DEF RemoveReportingParticipantDisavowed
<1>2. /\ s \in Seq(Block) /\ b \in Block /\ b.log = log /\ LegalAfter(s, log)
      /\ db \in Tables /\ Follows(db, Append(s, b)) /\ chain # <<>> /\ removals < MaxRemovals
      /\ chain = Append(s, b)
  BY <1>1, Removed
<1>3. chain \in Seq(Block) /\ Sane(chain)
  BY WholeChain DEF IInv
<1> HIDE DEF s, b
<1>4. \/ x \in Market /\ Was(s, "UniverseForked", x)
      \/ x \in Crowdsourcer /\ Did(s, "DisputeCrowdsourcerCompleted", x)
  BY <1>2 DEF LegalAfter
<1>5. \/ x \in Market /\ Was(chain, "UniverseForked", x)
      \/ x \in Crowdsourcer /\ Did(chain, "DisputeCrowdsourcerCompleted", x)
  BY <1>2, <1>4, InAppended DEF Was, Did
<1>6. x \in DOMAIN db.reports \cup DOMAIN db.crowdsourcers
  BY <1>2, <1>3, <1>5, ParticipantHasRow
<1>7. 0 \in {0, 1}
  OBVIOUS
<1>8. e \in Tables /\ KeepsAll(db, e)
  BY <1>2, <1>6, <1>7, ParticipantDisavows
<1> HIDE DEF e
<1>9. Follows(e, s)
  BY <1>2, <1>8, ParticipantFollows
<1>10. Tracks(db, e, s)
  BY <1>8, <1>9 DEF Tracks, KeepsAll
<1> QED
  BY <1>1, <1>2, <1>10, Untracked DEF s

-----------------------------------------------------------------------------
(* The invariant holds. *)

LEMMA EmptyTable ==
  ASSUME NEW K, NEW V
  PROVE  <<>> \in Rows(K, V) /\ DOMAIN <<>> = {}
<1>1. <<>> \in [{} -> V] /\ DOMAIN <<>> = {}
  OBVIOUS
<1> QED
  BY <1>1, RowsIntro

LEMMA InitTables ==
  ASSUME MarketAssumption, RunAssumption
  PROVE  LET d == [EmptyTables EXCEPT !.windows = [w \in Prepared |-> "FUTURE"]]
         IN  /\ d \in Tables /\ d.windows = [w \in Prepared |-> "FUTURE"]
             /\ DOMAIN d.markets = {} /\ DOMAIN d.reports = {} /\ DOMAIN d.crowdsourcers = {}
             /\ d.forked = {}
<1>1. EmptyTables \in Tables
  <2>1. [m \in Market |-> <<>>] \in [Market -> Seq(ReportingState)]
    OBVIOUS
  <2>2. PICK f \in [Market -> Seq(ReportingState)] : f = [m \in Market |-> <<>>]
    BY <2>1
  <2> QED
    BY <2>2, EmptyTable DEF EmptyTables, Tables
<1>2. [w \in Prepared |-> "FUTURE"] \in Rows(Window, {"FUTURE", "CURRENT", "PAST"})
  <2>1. Prepared \in SUBSET Window
    BY DEF RunAssumption, Window
  <2>2. [w \in Prepared |-> "FUTURE"] \in [Prepared -> {"FUTURE", "CURRENT", "PAST"}]
    OBVIOUS
  <2> QED
    BY <2>1, <2>2, RowsIntro
<1>3. /\ DOMAIN EmptyTables.markets = {} /\ DOMAIN EmptyTables.reports = {}
      /\ DOMAIN EmptyTables.crowdsourcers = {} /\ EmptyTables.forked = {}
  BY EmptyTable DEF EmptyTables
<1> QED
  BY <1>1, <1>2, <1>3, SetWindows

LEMMA NothingIn ==
  /\ \A log : ~In(<<>>, log)
  /\ \A m : ~ReportedIn(<<>>, m)
BY DEF In, ReportedIn

LEMMA InitInvariant ==
  ASSUME MarketAssumption, RunAssumption, Init
  PROVE  IInv
<1>1. /\ db \in Tables /\ db.windows = [w \in Prepared |-> "FUTURE"]
      /\ DOMAIN db.markets = {} /\ DOMAIN db.reports = {} /\ DOMAIN db.crowdsourcers = {}
      /\ db.forked = {}
  BY InitTables DEF Init
<1>2. /\ chain = <<>> /\ chain \in Seq(Block) /\ Len(chain) = 0 /\ Len(chain) <= MaxBlocks
      /\ head \in Nat /\ halted \in BOOLEAN /\ removals \in 0..MaxRemovals
  <2>1. chain = <<>> /\ head \in Nat /\ halted \in BOOLEAN
    BY DEF Init
  <2>2. removals = 0 /\ MaxRemovals \in Nat /\ MaxBlocks \in Nat
    BY DEF Init, RunAssumption
  <2>3. removals \in 0..MaxRemovals
    BY <2>2
  <2>4. <<>> \in Seq(Block) /\ Len(<<>>) = 0
    OBVIOUS
  <2> QED
    BY <2>1, <2>2, <2>3, <2>4
<1>3. History(<<>>)
  <2>1. Sane(<<>>)
    BY NothingIn DEF Sane, SaneMarket, SaneCrowdsourcer, LastStart, Was, Did
  <2>6. <<>> \in Seq(Block)
    OBVIOUS
  <2>2. PICK s \in Seq(Block) : s = <<>>
    BY <2>6
  <2>3. Len(s) = 0 /\ SubSeq(s, 1, 0) = s /\ \A n \in 0..0 : n = 0
    BY <2>2
  <2>4. SubSeq(s, 1, 0) = s /\ ~(0 < 0)
    BY <2>3
  <2>5. \A n \in 0..Len(s) : Sane(SubSeq(s, 1, n)) /\ ~(n < Len(s))
    BY <2>1, <2>2, <2>3, <2>4
  <2> QED
    BY <2>2, <2>5 DEF History
<1>4. Follows(db, <<>>)
  <2>1. MarketsFollow(db, <<>>) /\ ReportsFollow(db, <<>>)
    BY <1>1, NothingIn DEF MarketsFollow, ReportsFollow, Was
  <2>2. StakesFollow(db, <<>>)
    BY <1>1, NothingIn, FS_EmptySet DEF StakesFollow, Did
  <2>3. WindowsFollow(db, <<>>)
    BY <1>1, NothingIn DEF WindowsFollow, RunAssumption
  <2>4. FlagsFollow(db, <<>>)
    BY <1>1, NothingIn DEF FlagsFollow, ForkedIn, Was
  <2> QED
    BY <2>1, <2>2, <2>3, <2>4 DEF Follows
<1>5. WindowsTrue(db.windows, <<>>)
  <2>1. \A w \in Prepared : RightAt("FUTURE", w, 0)
    <3> SUFFICES ASSUME NEW w \in Prepared PROVE RightAt("FUTURE", w, 0)
      OBVIOUS
    <3>1. w \in Window
      BY DEF RunAssumption, Window
    <3>2. PICK a \in Nat, z \in Nat : a = StartOf(w) /\ z = EndOf(w)
      BY <3>1, BoundsOfWindow
    <3>3. ~(z < 0) /\ ~(a < 0)
      OBVIOUS
    <3> QED
      BY <3>2, <3>3 DEF RightAt
  <2>2. Len(<<>>) = 0 /\ \A k \in 0..0 : k = 0
    OBVIOUS
  <2>3. TimeAt(<<>>, 0) = 0
    BY DEF TimeAt
  <2> QED
    BY <1>1, <2>1, <2>2, <2>3 DEF WindowsTrue
<1> QED
  BY <1>1, <1>2, <1>3, <1>4, <1>5 DEF IInv

LEMMA StepInvariant ==
  ASSUME MarketAssumption, RunAssumption, IInv, [Next]_vars
  PROVE  IInv'
<1>1. ASSUME NEW t \in Times, AddLog(t) PROVE IInv'
  <2>1. CASE AddBlock(t)
    BY <2>1, NoLogAdds
  <2>2. CASE \E m \in Market : \/ AddMarketCreated(t, m) \/ AddMarketFinalized(t, m)
                               \/ AddUniverseForked(t, m) \/ AddMarketMigrated(t, m)
                               \/ AddMarketParticipantsDisavowed(t, m)
                               \/ \E p \in Payout : AddInitialReportSubmitted(t, m, p)
    BY <2>2, MarketCreatedAdds, MarketFinalizedAdds, UniverseForkedAdds, MarketMigratedAdds,
       MarketDisavowedAdds, ReportSubmittedAdds
  <2>3. CASE \E w \in Windows : AddFeeWindowCreated(t, w)
    BY <2>3, FeeWindowCreatedAdds
  <2>4. CASE \E c \in Crowdsourcer : \/ AddDisputeCrowdsourcerCreated(t, c)
                                     \/ AddDisputeCrowdsourcerContribution(t, c)
                                     \/ AddDisputeCrowdsourcerCompleted(t, c)
    BY <2>4, CrowdsourcerCreatedAdds, ContributionAdds, CompletedAdds
  <2>5. CASE \E x \in Market \cup Crowdsourcer : AddReportingParticipantDisavowed(t, x)
    BY <2>5, ParticipantDisavowedAdds
  <2> QED
    BY <1>1, <2>1, <2>2, <2>3, <2>4, <2>5 DEF AddLog
<1>2. ASSUME RemoveLog PROVE IInv'
  <2>1. CASE RemoveBlock
    BY <2>1, NoLogRemoves
  <2>2. CASE \E m \in Market : \/ RemoveMarketCreated(m) \/ RemoveMarketFinalized(m)
                               \/ RemoveUniverseForked(m) \/ RemoveMarketMigrated(m)
                               \/ RemoveMarketParticipantsDisavowed(m)
                               \/ \E p \in Payout : RemoveInitialReportSubmitted(m, p)
    BY <2>2, MarketCreatedRemoves, MarketFinalizedRemoves, UniverseForkedRemoves,
       MarketMigratedRemoves, MarketDisavowedRemoves, ReportRemoves
  <2>3. CASE \E w \in Windows : RemoveFeeWindowCreated(w)
    BY <2>3, FeeWindowCreatedRemoves
  <2>4. CASE \E c \in Crowdsourcer : \/ RemoveDisputeCrowdsourcerCreated(c)
                                     \/ RemoveDisputeCrowdsourcerContribution(c)
                                     \/ RemoveDisputeCrowdsourcerCompleted(c)
    BY <2>4, CrowdsourcerCreatedRemoves, ContributionRemoves, CompletedRemoves
  <2>5. CASE \E x \in Market \cup Crowdsourcer : RemoveReportingParticipantDisavowed(x)
    BY <2>5, ParticipantDisavowedRemoves
  <2> QED
    BY <1>2, <2>1, <2>2, <2>3, <2>4, <2>5 DEF RemoveLog
<1>3. ASSUME UNCHANGED vars PROVE IInv'
  <2>1. UNCHANGED chain /\ UNCHANGED db /\ UNCHANGED head /\ UNCHANGED halted
        /\ UNCHANGED removals /\ UNCHANGED unwound
    BY <1>3 DEF vars
  <2> QED
    BY <2>1 DEF IInv
<1> QED
  BY <1>1, <1>2, <1>3 DEF Next

\* Through every mixture of added and removed blocks the tables have a row for
\* each market, report, crowdsourcer and fee window on the chain and no other,
\* the stakes and the marks of a fork are the chain's, and, as long as no block
\* was taken back whose time had moved the tables, every fee window stands as
\* the time of the last block has it.
THEOREM TablesFollowTheChain == Spec => []IInv
<1>1. Init => IInv
  BY InitInvariant, MarketAssumption, RunAssumption
<1>2. IInv /\ [Next]_vars => IInv'
  BY StepInvariant, MarketAssumption, RunAssumption
<1> QED
  BY <1>1, <1>2, PTL DEF Spec

-----------------------------------------------------------------------------
(* What the runs check of fee windows and of the fork. *)

LEMMA TablesAreTyped ==
  ASSUME NEW d \in Tables
  PROVE  TablesOK(d)
<1>1. /\ d.markets \in Rows(Market, MarketRow) /\ d.states \in [Market -> Seq(ReportingState)]
      /\ d.windows \in Rows(Window, {"FUTURE", "CURRENT", "PAST"}) /\ d.reports \in Rows(Market, ReportRow)
      /\ d.crowdsourcers \in Rows(Crowdsourcer, CrowdsourcerRow)
      /\ d.payouts \in Rows(Market \X Payout, PayoutRow) /\ d.forked \in SUBSET Universe
  BY DEF Tables
<1>2. DOMAIN d.markets \subseteq Market /\ \A m \in DOMAIN d.markets : d.markets[m] \in MarketRow
  BY <1>1, RowsElim
<1>3. /\ DOMAIN d.windows \subseteq Universe \X Nat
      /\ \A w \in DOMAIN d.windows : d.windows[w] \in {"FUTURE", "CURRENT", "PAST"}
  BY <1>1, RowsElim DEF Window
<1>4. /\ DOMAIN d.reports \subseteq Market
      /\ \A m \in DOMAIN d.reports : d.reports[m] \in [payout : Payout, disavowed : {0, 1}]
  <2>1. DOMAIN d.reports \subseteq Market /\ \A m \in DOMAIN d.reports : d.reports[m] \in ReportRow
    BY <1>1, RowsElim
  <2> QED
    BY <2>1 DEF ReportRow
<1>5. /\ DOMAIN d.crowdsourcers \subseteq Crowdsourcer
      /\ \A c \in DOMAIN d.crowdsourcers : d.crowdsourcers[c] \in CrowdsourcerRow
  BY <1>1, RowsElim
<1>6. /\ DOMAIN d.payouts \subseteq Market \X Payout
      /\ \A k \in DOMAIN d.payouts : d.payouts[k] \in [tentative : BOOLEAN, winning : BOOLEAN]
  <2>1. /\ DOMAIN d.payouts \subseteq Market \X Payout
        /\ \A k \in DOMAIN d.payouts : d.payouts[k] \in PayoutRow
    BY <1>1, RowsElim
  <2> QED
    BY <2>1 DEF PayoutRow
<1> QED
  BY <1>1, <1>2, <1>3, <1>4, <1>5, <1>6 DEF TablesOK

\* The windows of a universe do not overlap.
LEMMA WindowsApart ==
  ASSUME MarketAssumption, NEW v \in Window, NEW w \in Window, v[1] = w[1], NEW now \in Nat,
         StartOf(v) < now, now <= EndOf(v), StartOf(w) < now, now <= EndOf(w)
  PROVE  v = w
<1>1. PICK i \in Nat, j \in Nat : i = v[2] /\ j = w[2]
  BY DEF Window
<1>2. PICK k \in Nat \ {0} : k = Duration
  BY DEF MarketAssumption
<1>3. /\ i * k < now /\ now <= (i + 1) * k
      /\ j * k < now /\ now <= (j + 1) * k
  BY <1>1, <1>2 DEF StartOf, EndOf
<1>4. ASSUME NEW a \in Nat, NEW b \in Nat, a < b, b * k < now, now <= (a + 1) * k
      PROVE  FALSE
  <2>1. PICK n \in Nat : b = a + 1 + n
    <3>1. b - (a + 1) \in Nat /\ b = a + 1 + (b - (a + 1))
      BY <1>4
    <3> QED
      BY <3>1
  <2>2. b * k = (a + 1) * k + n * k
    BY <2>1
  <2>3. n * k \in Nat /\ (a + 1) * k \in Nat /\ b * k \in Nat
    BY <1>2
  <2> QED
    BY <1>4, <2>2, <2>3
<1>5. i = j
  BY <1>3, <1>4
<1>6. v = <<v[1], v[2]>> /\ w = <<w[1], w[2]>>
  BY DEF Window
<1> QED
  BY <1>1, <1>5, <1>6

\* For every number of markets, windows and block times: the tables keep their
\* types, and updateActiveFeeWindows, seeing only the windows whose bounds were
\* passed, leaves each of them in its state and at most one CURRENT in a universe,
\* as long as no block was taken back whose time had moved the tables.
THEOREM WindowsFollowTimeHolds == Spec => []WindowsFollowTime
<1>1. ASSUME IInv PROVE WindowsFollowTime
  <2>1. TypeOK
    BY <1>1, TablesAreTyped DEF IInv, TypeOK
  <2>2. ASSUME ~Undone({"time"})
        PROVE  \A w \in DOMAIN db.windows : w \in Window /\ RightAt(db.windows[w], w, Now)
    <3>1. "time" \notin unwound /\ chain \in Seq(Block) /\ db \in Tables
      BY <1>1, <2>2 DEF IInv, Undone
    <3>2. /\ WindowsTrue(db.windows, chain) /\ WindowsFollow(db, chain)
          /\ Now = TimeAt(chain, Len(chain))
      BY <1>1, <3>1, TimeOfHead DEF IInv, Follows
    <3>3. PICK n \in Nat : n = Len(chain)
      BY <3>1
    <3>4. n \in 0..n /\ SubSeq(chain, 1, n) = chain /\ ~(\E j \in n + 1..n : TRUE)
      BY <3>1, <3>3, WholePrefix
    <3>5. \A w \in DOMAIN db.windows : w \in Window
      BY <3>1, WindowRows
    <3>6. \A w \in DOMAIN db.windows : ExistsAt(chain, n, w)
      BY <3>2, <3>4, <3>5 DEF ExistsAt, WindowsFollow
    <3> QED
      BY <3>2, <3>3, <3>4, <3>5, <3>6 DEF WindowsTrue
  <2>3. Now \in Nat
    <3>1. chain \in Seq(Block)
      BY <1>1 DEF IInv
    <3>2. Len(chain) # 0 => chain[Len(chain)] \in Block
      BY <3>1
    <3>3. Now = TimeAt(chain, Len(chain))
      BY <3>1, TimeOfHead
    <3> QED
      BY <3>2, <3>3 DEF TimeAt, Block
  <2>4. ASSUME ~Undone({"time"}), NEW u \in Universe
        PROVE  Cardinality(Current(db, u)) <= 1
    <3>1. \A v \in Current(db, u), w \in Current(db, u) : v = w
      <4> SUFFICES ASSUME NEW v \in Current(db, u), NEW w \in Current(db, u) PROVE v = w
        OBVIOUS
      <4>1. /\ v \in DOMAIN db.windows /\ w \in DOMAIN db.windows /\ v[1] = w[1]
            /\ db.windows[v] = "CURRENT" /\ db.windows[w] = "CURRENT"
        BY DEF Current
      <4>2. v \in Window /\ w \in Window /\ RightAt("CURRENT", v, Now) /\ RightAt("CURRENT", w, Now)
        BY <2>2, <2>4, <4>1
      <4>3. StartOf(v) < Now /\ ~(EndOf(v) < Now) /\ StartOf(w) < Now /\ ~(EndOf(w) < Now)
        BY <4>2 DEF RightAt
      <4>4. EndOf(v) \in Nat /\ EndOf(w) \in Nat
        BY <4>2, MarketAssumption, BoundsOfWindow
      <4>5. Now <= EndOf(v) /\ Now <= EndOf(w)
        BY <2>3, <4>3, <4>4
      <4> QED
        BY <2>3, <4>1, <4>2, <4>3, <4>5, MarketAssumption, WindowsApart
    <3>2. CASE Current(db, u) = {}
      <4>1. 0 <= 1
        OBVIOUS
      <4> QED
        BY <3>2, <4>1, FS_EmptySet
    <3>3. CASE Current(db, u) # {}
      <4>1. PICK w : Current(db, u) = {w}
        BY <3>1, <3>3
      <4>2. Cardinality(Current(db, u)) = 1
        BY <4>1, FS_Singleton
      <4>3. 1 <= 1
        OBVIOUS
      <4> QED
        BY <4>2, <4>3
    <3> QED
      BY <3>2, <3>3
  <2> QED
    BY <2>1, <2>2, <2>4 DEF WindowsFollowTime, RightAt
<1> QED
  BY <1>1, TablesFollowTheChain, PTL

\* The flags that UniverseForked sets, and the debts of the fork, counted up by it
\* and by the forking market's finalization and down by each migration and
\* disavowal, are those of the chain's logs, though the logs and their removals
\* interleave: also the -1 of a market that was disavowed and migrated.
THEOREM DebtsOfTheForkHolds == Spec => []DebtsOfTheFork
<1>1. ASSUME IInv PROVE DebtsOfTheFork
  <2>1. FlagsFollow(db, chain) /\ \A m \in DOMAIN db.markets : m \in Market
    BY <1>1, MarketRows DEF IInv, Follows
  <2>2. Genesis \in db.forked <=> Forking # {}
    BY <2>1, Seen DEF FlagsFollow
  <2> DEFINE count(truth) == IF truth THEN 1 ELSE 0
  <2>3. ASSUME NEW m \in DOMAIN db.markets
        PROVE  /\ db.markets[m].forking = count(m \in Forking)
               /\ db.markets[m].needsMigration =
                    count((\E f \in Forking : Finalized(f)) /\ m \notin Forking /\ ~Migrated(m))
               /\ db.markets[m].needsDisavowal =
                    count(Forking # {} /\ m \notin Forking) - count(Migrated(m))
                      - count(Has(MarketLog("MarketParticipantsDisavowed", m)))
    <3>1. /\ (\E f \in Forking : Finalized(f)) <=> DecidedIn(chain)
          /\ Forking # {} <=> ForkedIn(chain)
          /\ m \in Forking <=> Was(chain, "UniverseForked", m)
          /\ Migrated(m) <=> Was(chain, "MarketMigrated", m)
          /\ Has(MarketLog("MarketParticipantsDisavowed", m))
               <=> Was(chain, "MarketParticipantsDisavowed", m)
      BY <2>1, Seen DEF DecidedIn, Was
    <3>2. /\ db.markets[m].forking = ForkerIn(chain, m)
          /\ db.markets[m].needsMigration = MigrationIn(chain, m)
          /\ db.markets[m].needsDisavowal = DisavowalIn(chain, m)
      BY <2>1 DEF FlagsFollow, Owes
    <3> QED
      BY <3>1, <3>2 DEF ForkerIn, MigrationIn, DisavowalIn
  <2> QED
    BY <2>2, <2>3 DEF DebtsOfTheFork
<1> QED
  BY <1>1, TablesFollowTheChain, PTL
=============================================================================
