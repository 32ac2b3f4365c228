------------------------ MODULE SummarizationProofs ------------------------
(***************************************************************************)
(* Proofs about Summarization: what the pass over the recent messages      *)
(* keeps, and what the background jobs therefore never lose, for every     *)
(* number of requests, every threshold and every length of conversation.   *)
(***************************************************************************)
EXTENDS Summarization, LockedTurnsProofs

(***************************************************************************)
(* The pass of get_recent_messages.                                        *)
(***************************************************************************)

\* One row of the pass.
ReadRow(kept, n, from) ==
  IF n <= from \/ rows[n] \in NonPromptSenders THEN kept ELSE DropWithheld(kept, n)

\* The messages kept after each row of a pass.
IsPass(f, m, from) ==
  f = [n \in 0..m |-> IF n = 0 THEN <<>> ELSE ReadRow(f[n - 1], n, from)]

\* A pass can be made over any number of rows.
LEMMA PassExists ==
  ASSUME NEW from, NEW N \in Nat
  PROVE  \E f : IsPass(f, N, from)
<1>. DEFINE Bad == {m \in Nat : ~\E f : IsPass(f, m, from)}
<1>1. CASE N \notin Bad
  BY <1>1
<1>2. CASE N \in Bad
  <2>1. PICK m \in Bad : \A k \in Bad : m <= k
    BY <1>2, MinOfNaturals
  <2>2. CASE m = 0
    <3>. DEFINE g == [n \in 0..0 |-> <<>>]
    <3>1. IsPass(g, 0, from)
      BY DEF IsPass
    <3>. QED
      BY <2>2, <3>1
  <2>3. CASE m # 0
    <3>1. m \in Nat /\ m - 1 \in Nat /\ m - 1 \notin Bad
      BY <2>1, <2>3
    <3>2. PICK f : IsPass(f, m - 1, from)
      BY <3>1
    <3>. DEFINE g == [n \in 0..m |-> IF n = m THEN ReadRow(f[m - 1], m, from) ELSE f[n]]
    <3>3. \A n \in 0..(m - 1) : f[n] = IF n = 0 THEN <<>> ELSE ReadRow(f[n - 1], n, from)
      BY <3>2 DEF IsPass
    <3>4. ASSUME NEW n \in 0..m
          PROVE  g[n] = IF n = 0 THEN <<>> ELSE ReadRow(g[n - 1], n, from)
      <4>1. CASE n = m
        <5>1. g[n - 1] = f[m - 1] /\ g[n] = ReadRow(f[m - 1], m, from)
          BY <3>1, <4>1
        <5>. QED
          BY <2>3, <4>1, <5>1
      <4>2. CASE n # m
        <5>1. n \in 0..(m - 1) /\ g[n] = f[n] /\ (n # 0 => g[n - 1] = f[n - 1])
          BY <3>1, <4>2
        <5>. QED
          BY <3>3, <5>1
      <4>. QED
        BY <4>1, <4>2
    <3>5. g = [n \in 0..m |-> IF n = 0 THEN <<>> ELSE ReadRow(g[n - 1], n, from)]
      BY <3>4
    <3>6. IsPass(g, m, from)
      BY <3>5 DEF IsPass
    <3>. QED
      BY <2>1, <3>6
  <2>. QED
    BY <2>2, <2>3
<1>. QED
  BY <1>1, <1>2

\* The recent messages are what the pass has kept after the last row.
LEMMA RecentIsPass ==
  ASSUME rows \in Seq(Sender), NEW from
  PROVE  \E f : IsPass(f, Len(rows), from) /\ RecentMessages(from) = f[Len(rows)]
<1>. Len(rows) \in Nat
  OBVIOUS
<1>. DEFINE kept[n \in 0..Len(rows)] ==
        IF n = 0 THEN <<>>
        ELSE IF n <= from \/ rows[n] \in NonPromptSenders THEN kept[n - 1]
        ELSE DropWithheld(kept[n - 1], n)
<1>1. PICK f : IsPass(f, Len(rows), from)
  BY PassExists
<1>2. f = [n \in 0..Len(rows) |->
             IF n = 0 THEN <<>>
             ELSE IF n <= from \/ rows[n] \in NonPromptSenders THEN f[n - 1]
             ELSE DropWithheld(f[n - 1], n)]
  BY <1>1 DEF IsPass, ReadRow
<1>3. kept = [n \in 0..Len(rows) |->
             IF n = 0 THEN <<>>
             ELSE IF n <= from \/ rows[n] \in NonPromptSenders THEN kept[n - 1]
             ELSE DropWithheld(kept[n - 1], n)]
  BY <1>2
<1>4. IsPass(kept, Len(rows), from)
  BY <1>3 DEF IsPass, ReadRow
<1>5. RecentMessages(from) = kept[Len(rows)]
  BY DEF RecentMessages
<1>. QED
  BY <1>4, <1>5

\* A message that no system notice after it reaches: a persona reply stands in
\* between.
Shielded(i) ==
  \A j \in DOMAIN rows : j > i /\ rows[j] = "system" =>
    \E b \in DOMAIN rows : i < b /\ b < j /\ rows[b] = "backend"

\* The rows no pass drops.
Lasting(i) == rows[i] = "backend" \/ (rows[i] = "user" /\ Shielded(i))

\* What has been kept up to row n, in the order of the rows.
Good(kept, n, from) ==
  /\ kept \in Seq(Nat)
  /\ \A j \in 1..Len(kept) : kept[j] > from /\ kept[j] <= n /\ kept[j] \in DOMAIN rows
  /\ \A j, l \in 1..Len(kept) : j < l => kept[j] < kept[l]
  /\ \A i \in 1..n : i > from /\ Lasting(i) => \E j \in 1..Len(kept) : kept[j] = i

LEMMA GoodStep ==
  ASSUME rows \in Seq(Sender), NEW from \in Nat, NEW n \in 1..Len(rows), NEW k,
         Good(k, n - 1, from)
  PROVE  Good(ReadRow(k, n, from), n, from)
<1>. Len(rows) \in Nat /\ n \in Nat /\ n - 1 \in Nat /\ DOMAIN rows = 1..Len(rows)
  OBVIOUS
<1>0. /\ k \in Seq(Nat) /\ Len(k) \in Nat
      /\ \A j \in 1..Len(k) : k[j] \in Nat /\ k[j] > from /\ k[j] <= n - 1 /\ k[j] \in 1..Len(rows)
      /\ \A j, l \in 1..Len(k) : j < l => k[j] < k[l]
  BY DEF Good
<1>1. \A i \in 1..(n - 1) : i > from /\ Lasting(i) => \E j \in 1..Len(k) : k[j] = i
  BY DEF Good
<1>2. ASSUME ~Lasting(n) \/ n <= from PROVE Good(k, n, from)
  <2>1. \A i \in 1..n : i > from /\ Lasting(i) => i \in 1..(n - 1)
    BY <1>2
  <2>. QED
    BY <1>0, <1>1, <2>1 DEF Good
<1>3. CASE n <= from \/ rows[n] \in NonPromptSenders
  <2>1. ~Lasting(n) \/ n <= from
    BY <1>3 DEF Lasting, NonPromptSenders
  <2>. QED
    BY <1>2, <1>3, <2>1 DEF ReadRow
<1>4. CASE n > from /\ rows[n] \notin NonPromptSenders /\ rows[n] # "system"
  <2>1. ReadRow(k, n, from) = Append(k, n)
    BY <1>4 DEF ReadRow, DropWithheld
  <2>. DEFINE w == Append(k, n)
  <2>2. /\ w \in Seq(Nat) /\ Len(w) = Len(k) + 1 /\ w[Len(k) + 1] = n
        /\ \A j \in 1..Len(k) : w[j] = k[j]
    BY <1>0
  <2>. HIDE DEF w
  <2>3. ASSUME NEW j \in 1..Len(w)
        PROVE  /\ w[j] > from /\ w[j] <= n /\ w[j] \in 1..Len(rows)
               /\ \A l \in 1..Len(w) : l < j => w[l] < w[j]
    <3>1. j \in 1..Len(k) \/ j = Len(k) + 1
      BY <1>0, <2>2
    <3>2. CASE j \in 1..Len(k)
      <4>1. w[j] = k[j] /\ k[j] \in Nat /\ k[j] > from /\ k[j] <= n - 1 /\ k[j] \in 1..Len(rows)
        BY <1>0, <2>2, <3>2
      <4>2. ASSUME NEW l \in 1..Len(w), l < j PROVE l \in 1..Len(k) /\ w[l] = k[l]
        <5>1. l \in 1..Len(k)
          BY <1>0, <2>2, <3>2, <4>2
        <5>. QED
          BY <2>2, <5>1
      <4>3. ASSUME NEW l \in 1..Len(w), l < j PROVE w[l] < w[j]
        <5>1. l \in 1..Len(k) /\ w[l] = k[l]
          BY <4>2, <4>3
        <5>2. k[l] < k[j]
          BY <1>0, <3>2, <4>3, <5>1
        <5>. QED
          BY <4>1, <5>1, <5>2
      <4>. QED
        BY <4>1, <4>3
    <3>3. CASE j = Len(k) + 1
      <4>1. w[j] = n
        BY <2>2, <3>3
      <4>2. \A l \in 1..Len(w) : l < j => l \in 1..Len(k) /\ w[l] = k[l]
        BY <1>0, <2>2, <3>3
      <4>3. \A l \in 1..Len(w) : l < j => w[l] < w[j]
        BY <1>0, <4>1, <4>2
      <4>. QED
        BY <1>4, <4>1, <4>3
    <3>. QED
      BY <3>1, <3>2, <3>3
  <2>4. \A j, l \in 1..Len(w) : j < l => w[j] < w[l]
    BY <2>3
  <2>5. ASSUME NEW i \in 1..n, i > from, Lasting(i) PROVE \E j \in 1..Len(w) : w[j] = i
    <3>1. CASE i = n
      BY <1>0, <2>2, <3>1
    <3>2. CASE i # n
      <4>1. PICK j \in 1..Len(k) : k[j] = i
        BY <1>1, <2>5, <3>2
      <4>. QED
        BY <1>0, <2>2, <4>1
    <3>. QED
      BY <3>1, <3>2
  <2>6. Good(w, n, from)
    BY <2>2, <2>3, <2>4, <2>5 DEF Good
  <2>. QED
    BY <2>1, <2>6 DEF w
<1>5. CASE n > from /\ rows[n] = "system" /\ k # <<>> /\ rows[Last(k)] = "user"
  <2>. DEFINE w == Front(k)
  <2>1. ReadRow(k, n, from) = w
    BY <1>5 DEF ReadRow, DropWithheld, NonPromptSenders
  <2>2. Len(k) >= 1
    BY <1>0, <1>5
  <2>3. /\ w \in Seq(Nat) /\ Len(w) = Len(k) - 1
        /\ \A j \in 1..Len(w) : w[j] = k[j]
    <3>1. w = SubSeq(k, 1, Len(k) - 1)
      BY DEF Front
    <3>2. \A j \in 1..(Len(k) - 1) : k[j] \in Nat
      BY <1>0
    <3>3. /\ w = [j \in 1..(Len(k) - 1) |-> k[j]] /\ Len(k) - 1 \in Nat
      BY <1>0, <2>2, <3>1
    <3>. QED
      BY <3>2, <3>3
  <2>. HIDE DEF w
  <2>0. \A j \in 1..Len(w) : j \in 1..Len(k) /\ w[j] = k[j]
    BY <1>0, <2>3
  <2>4. ASSUME NEW j \in 1..Len(w) PROVE w[j] > from /\ w[j] <= n /\ w[j] \in 1..Len(rows)
    <3>1. /\ w[j] = k[j] /\ k[j] \in Nat /\ k[j] > from /\ k[j] <= n - 1
          /\ k[j] \in 1..Len(rows)
      BY <1>0, <2>0
    <3>. QED
      BY <3>1
  <2>5. ASSUME NEW j \in 1..Len(w), NEW l \in 1..Len(w), j < l PROVE w[j] < w[l]
    <3>1. j \in 1..Len(k) /\ l \in 1..Len(k) /\ w[j] = k[j] /\ w[l] = k[l]
      BY <2>0
    <3>2. k[j] < k[l]
      BY <1>0, <2>5, <3>1
    <3>. QED
      BY <3>1, <3>2
  <2>6. ASSUME NEW i \in 1..n, i > from, Lasting(i) PROVE \E j \in 1..Len(w) : w[j] = i
    <3>1. i \in 1..(n - 1)
      BY <1>5, <2>6 DEF Lasting
    <3>2. PICK j \in 1..Len(k) : k[j] = i
      BY <1>1, <2>6, <3>1
    <3>3. j # Len(k)
      <4>. SUFFICES ASSUME j = Len(k) PROVE FALSE
        OBVIOUS
      <4>1. rows[i] = "user"
        BY <1>5, <3>2 DEF Last
      <4>2. Shielded(i)
        BY <2>6, <4>1 DEF Lasting
      <4>3. PICK b \in 1..Len(rows) : i < b /\ b < n /\ rows[b] = "backend"
        BY <1>5, <3>1, <4>2 DEF Shielded
      <4>4. b \in 1..(n - 1) /\ b > from /\ Lasting(b)
        BY <2>6, <3>1, <4>3 DEF Lasting
      <4>5. PICK l \in 1..Len(k) : k[l] = b
        BY <1>1, <4>4
      <4>6. k[l] <= k[Len(k)]
        BY <1>0, <2>2
      <4>. QED
        BY <3>2, <4>3, <4>5, <4>6
    <3>. QED
      BY <2>3, <3>2, <3>3
  <2>7. Good(w, n, from)
    BY <2>3, <2>4, <2>5, <2>6 DEF Good
  <2>. QED
    BY <2>1, <2>7
<1>6. CASE n > from /\ rows[n] = "system" /\ ~(k # <<>> /\ rows[Last(k)] = "user")
  <2>1. ReadRow(k, n, from) = k
    BY <1>6 DEF ReadRow, DropWithheld, NonPromptSenders
  <2>2. ~Lasting(n)
    BY <1>6 DEF Lasting
  <2>. QED
    BY <1>2, <2>1, <2>2
<1>. QED
  BY <1>3, <1>4, <1>5, <1>6

\* get_recent_messages returns rows after the checkpoint, in their order, and
\* leaves out no persona reply and no message a reply shields.
LEMMA RecentKeeps ==
  ASSUME rows \in Seq(Sender), NEW from \in Nat
  PROVE  Good(RecentMessages(from), Len(rows), from)
<1>. DEFINE N == Len(rows)
<1>. N \in Nat
  OBVIOUS
<1>1. PICK f : IsPass(f, N, from) /\ RecentMessages(from) = f[N]
  BY RecentIsPass
<1>2. \A n \in 0..N : f[n] = IF n = 0 THEN <<>> ELSE ReadRow(f[n - 1], n, from)
  BY <1>1 DEF IsPass
<1>. DEFINE Bad == {n \in 0..N : ~Good(f[n], n, from)}
<1>3. CASE Bad = {}
  BY <1>1, <1>3
<1>4. CASE Bad # {}
  <2>. Bad \in SUBSET Nat
    OBVIOUS
  <2>. HIDE DEF Bad
  <2>1. PICK n \in Bad : \A m \in Bad : n <= m
    BY <1>4, MinOfNaturals
  <2>. USE DEF Bad
  <2>2. CASE n = 0
    <3>1. f[0] = <<>>
      BY <1>2
    <3>2. Good(<<>>, 0, from)
      BY DEF Good
    <3>. QED
      BY <2>1, <2>2, <3>1, <3>2
  <2>3. CASE n # 0
    <3>1. n \in 1..N /\ n - 1 \in 0..N /\ n - 1 \notin Bad
      BY <2>1, <2>3
    <3>2. Good(f[n - 1], n - 1, from) /\ f[n] = ReadRow(f[n - 1], n, from)
      BY <1>2, <3>1
    <3>3. Good(f[n], n, from)
      BY <3>1, <3>2, GoodStep
    <3>. QED
      BY <2>1, <3>3
  <2>. QED
    BY <2>2, <2>3
<1>. QED
  BY <1>3, <1>4

(***************************************************************************)
(* The jobs run beside the turns.                                          *)
(***************************************************************************)

LEMMA SummaryStepIsTurnStep == [SummaryNext]_summaryVars => [Next]_vars
BY DEF SummaryNext, TurnStep, ReadForSummary, SummaryFails, StoreSummary, summaryVars

\* The background jobs take nothing from the turns: whatever is proved of the
\* turns holds of the conversation with its summaries.
THEOREM JobsLeaveTurnsAlone == SummarySpec => Spec
<1>1. SummaryInit => Init
  BY DEF SummaryInit
<1>. QED
  BY <1>1, SummaryStepIsTurnStep, PTL DEF SummarySpec, Spec

(***************************************************************************)
(* What is stored and read stays within the rows.                          *)
(***************************************************************************)

JobPlaces == {"none", "scheduled", "model", "over"}

\* A row number a job has read, and the last of them.
ReadFits(r) ==
  /\ \A i \in prior[r] : i \in 1..Len(rows)
  /\ \A j \in 1..Len(seen[r]) : seen[r][j] \in 1..Len(rows)
  /\ job[r] = "model" =>
       /\ seen[r] # <<>>
       /\ \A j \in 1..Len(seen[r]) : seen[r][j] <= Last(seen[r])
       /\ \A i \in prior[r] : i <= Last(seen[r])

SummaryInv ==
  /\ summarized \in 0..Len(rows)
  /\ summary \in SUBSET (1..summarized)
  /\ job \in [Request -> JobPlaces]
  /\ prior \in [Request -> SUBSET Nat]
  /\ seen \in [Request -> Seq(Nat)]
  /\ \A r \in Request : ReadFits(r)

\* What a job that is in the model holds.
LEMMA JobHolds ==
  ASSUME TypeOK, SummaryInv, NEW r \in Request, job[r] = "model"
  PROVE  /\ Last(seen[r]) \in 1..Len(rows)
         /\ prior[r] \cup ToSet(seen[r]) \subseteq 1..Last(seen[r])
<1>. seen[r] \in Seq(Nat) /\ Len(seen[r]) \in Nat /\ ReadFits(r) /\ Len(rows) \in Nat
  BY DEF SummaryInv, TypeOK
<1>1. Len(seen[r]) \in 1..Len(seen[r])
  BY DEF ReadFits
<1>2. Last(seen[r]) \in 1..Len(rows)
  BY <1>1 DEF ReadFits, Last
<1>3. \A i \in ToSet(seen[r]) : i \in 1..Last(seen[r])
  BY <1>2 DEF ReadFits, ToSet
<1>4. \A i \in prior[r] : i \in 1..Last(seen[r])
  BY <1>2 DEF ReadFits
<1>. QED
  BY <1>2, <1>3, <1>4

\* What a job reads when it goes on to the model.
LEMMA ReadHolds ==
  ASSUME TypeOK, SummaryInv, NEW r \in Request, ReadForSummary(r), job'[r] = "model"
  PROVE  /\ UNCHANGED <<vars, checkpoint>>
         /\ job' = [job EXCEPT ![r] = "model"]
         /\ prior' = [prior EXCEPT ![r] = summary]
         /\ seen' = [seen EXCEPT ![r] = RecentMessages(summarized)]
         /\ RecentMessages(summarized) # <<>>
         /\ Good(RecentMessages(summarized), Len(rows), summarized)
<1>. /\ rows \in Seq(Sender) /\ Len(rows) \in Nat /\ summarized \in Nat
     /\ job \in [Request -> JobPlaces]
  BY DEF SummaryInv, TypeOK
<1>. DEFINE recent == RecentMessages(summarized)
<1>1. Good(recent, Len(rows), summarized)
  BY RecentKeeps
<1>. HIDE DEF recent
<1>2. ~(Len(recent) < Threshold)
  <2>. SUFFICES ASSUME Len(recent) < Threshold PROVE FALSE
    OBVIOUS
  <2>1. job' = [job EXCEPT ![r] = "over"]
    BY DEF ReadForSummary, recent
  <2>. QED
    BY <2>1
<1>3. recent # <<>>
  <2>. SUFFICES ASSUME recent = <<>> PROVE FALSE
    OBVIOUS
  <2>1. Len(recent) = 0
    OBVIOUS
  <2>. QED
    BY <1>2, <2>1, ThresholdIsNat
<1>. QED
  BY <1>1, <1>2, <1>3 DEF ReadForSummary, recent

LEMMA SummaryInvStep ==
  ASSUME TypeOK, SummaryInv, [SummaryNext]_summaryVars
  PROVE  SummaryInv'
<1>. /\ rows \in Seq(Sender) /\ Len(rows) \in Nat /\ summarized \in 0..Len(rows)
     /\ summary \in SUBSET (1..summarized)
     /\ job \in [Request -> JobPlaces] /\ prior \in [Request -> SUBSET Nat]
     /\ seen \in [Request -> Seq(Nat)]
  BY DEF TypeOK, SummaryInv
<1>0. \A r \in Request : ReadFits(r)
  BY DEF SummaryInv
<1>1. CASE TurnStep
  <2>1. Len(rows') \in Nat /\ Len(rows') >= Len(rows)
    <3>1. CASE \E r \in Request : Advance(r) \/ Environment(r)
      BY <3>1, StepEffects, DbType
    <3>2. CASE rows' = rows
      BY <3>2
    <3>. QED
      BY <1>1, <3>1, <3>2 DEF TurnStep, Next, LoseLock, AllDone, vars, db
  <2>2. UNCHANGED <<summarized, summary, prior, seen>>
    BY <1>1 DEF TurnStep, checkpoint, work
  <2>3. /\ job' \in [Request -> JobPlaces]
        /\ \A r \in Request : job'[r] = "model" => job[r] = "model"
    BY <1>1 DEF TurnStep, JobPlaces
  <2>4. ASSUME NEW r \in Request PROVE ReadFits(r)'
    <3>1. \A i \in 1..Len(rows) : i \in 1..Len(rows')
      BY <2>1
    <3>. QED
      BY <1>0, <2>2, <2>3, <3>1 DEF ReadFits
  <2>5. summarized' \in 0..Len(rows')
    BY <2>1, <2>2
  <2>. QED
    BY <2>2, <2>3, <2>4, <2>5 DEF SummaryInv
<1>2. ASSUME NEW r \in Request, ReadForSummary(r) PROVE SummaryInv'
  <2>1. UNCHANGED <<rows, summarized, summary>>
    BY <1>2 DEF ReadForSummary, vars, db, checkpoint
  <2>2. CASE job'[r] = "model"
    <3>. DEFINE recent == RecentMessages(summarized)
    <3>1. /\ job' = [job EXCEPT ![r] = "model"] /\ prior' = [prior EXCEPT ![r] = summary]
          /\ seen' = [seen EXCEPT ![r] = recent]
          /\ recent # <<>> /\ Good(recent, Len(rows), summarized)
      BY <1>2, <2>2, ReadHolds
    <3>. HIDE DEF recent
    <3>2. /\ recent \in Seq(Nat) /\ Len(recent) \in Nat /\ Len(recent) \in 1..Len(recent)
          /\ \A j \in 1..Len(recent) : recent[j] > summarized /\ recent[j] \in 1..Len(rows)
          /\ \A j, l \in 1..Len(recent) : j < l => recent[j] < recent[l]
      BY <3>1 DEF Good
    <3>3. ASSUME NEW j \in 1..Len(recent) PROVE recent[j] <= Last(recent)
      <4>1. recent[j] \in Int /\ (j = Len(recent) \/ j < Len(recent))
        BY <3>2
      <4>2. j < Len(recent) => recent[j] < recent[Len(recent)] /\ recent[Len(recent)] \in Int
        BY <3>2
      <4>. QED
        BY <4>1, <4>2 DEF Last
    <3>4. \A i \in summary : i \in 1..Len(rows) /\ i <= Last(recent)
      BY <3>2 DEF Last
    <3>5. ReadFits(r)'
      BY <2>1, <3>1, <3>2, <3>3, <3>4 DEF ReadFits
    <3>6. ASSUME NEW q \in Request, q # r PROVE ReadFits(q)'
      BY <1>0, <2>1, <3>1, <3>6 DEF ReadFits
    <3>7. /\ job' \in [Request -> JobPlaces] /\ prior' \in [Request -> SUBSET Nat]
          /\ seen' \in [Request -> Seq(Nat)]
      BY <3>1, <3>2 DEF JobPlaces
    <3>. QED
      BY <2>1, <3>5, <3>6, <3>7 DEF SummaryInv
  <2>3. CASE job'[r] # "model"
    <3>1. job' = [job EXCEPT ![r] = "over"] /\ UNCHANGED <<prior, seen>>
      BY <1>2, <2>3 DEF ReadForSummary, work
    <3>2. /\ job' \in [Request -> JobPlaces]
          /\ \A q \in Request : job'[q] = "model" => job[q] = "model"
      BY <3>1 DEF JobPlaces
    <3>3. \A q \in Request : ReadFits(q)'
      BY <1>0, <2>1, <3>1, <3>2 DEF ReadFits
    <3>. QED
      BY <2>1, <3>1, <3>2, <3>3 DEF SummaryInv
  <2>. QED
    BY <2>2, <2>3
<1>3. ASSUME NEW r \in Request, SummaryFails(r) \/ StoreSummary(r) PROVE SummaryInv'
  <2>1. rows' = rows /\ UNCHANGED <<prior, seen>> /\ job' = [job EXCEPT ![r] = "over"]
    BY <1>3 DEF SummaryFails, StoreSummary, vars, db, work
  <2>2. /\ job' \in [Request -> JobPlaces]
        /\ \A q \in Request : job'[q] = "model" => job[q] = "model"
    BY <2>1 DEF JobPlaces
  <2>3. \A q \in Request : ReadFits(q)'
    BY <1>0, <2>1, <2>2 DEF ReadFits
  <2>4. summarized' \in 0..Len(rows) /\ summary' \in SUBSET (1..summarized')
    <3>1. CASE UNCHANGED checkpoint
      BY <3>1 DEF checkpoint
    <3>2. CASE /\ job[r] = "model" /\ summarized' = Last(seen[r])
               /\ summary' = prior[r] \cup ToSet(seen[r])
      BY <3>2, JobHolds
    <3>. QED
      BY <1>3, <3>1, <3>2 DEF SummaryFails, StoreSummary
  <2>. QED
    BY <2>1, <2>2, <2>3, <2>4 DEF SummaryInv
<1>4. CASE UNCHANGED summaryVars
  BY <1>0, <1>4 DEF SummaryInv, ReadFits, summaryVars, vars, db, checkpoint, work
<1>. QED
  BY <1>1, <1>2, <1>3, <1>4 DEF SummaryNext

LEMMA SummaryInvariant == SummarySpec => []SummaryInv
<1>1. SummaryInit => SummaryInv
  <2>. SUFFICES ASSUME SummaryInit PROVE SummaryInv
    OBVIOUS
  <2>1. rows = <<>> /\ Len(rows) = 0 /\ <<>> \in Seq(Nat) /\ Len(<<>>) = 0
    BY DEF SummaryInit, Init
  <2>2. \A r \in Request : ReadFits(r)
    BY <2>1 DEF SummaryInit, ReadFits
  <2>. QED
    BY <2>1, <2>2 DEF SummaryInit, SummaryInv, JobPlaces
<1>. QED
  BY <1>1, SummaryInvStep, JobsLeaveTurnsAlone, TypeCorrect, PTL DEF SummarySpec

\* The checkpoint is a row of the conversation, the summary is made of rows up
\* to it, and a job holds only rows that exist, however late it stores them.
THEOREM SummaryTypeCorrect == SummarySpec => []SummaryTypeOK
<1>1. TypeOK /\ SummaryInv => SummaryTypeOK
  <2>. SUFFICES ASSUME TypeOK, SummaryInv PROVE SummaryTypeOK
    OBVIOUS
  <2>1. ASSUME NEW r \in Request
        PROVE  prior[r] \subseteq DOMAIN rows /\ ToSet(seen[r]) \subseteq DOMAIN rows
    <3>1. ReadFits(r) /\ seen[r] \in Seq(Nat) /\ rows \in Seq(Sender)
      BY DEF SummaryInv, TypeOK
    <3>. QED
      BY <3>1 DEF ReadFits, ToSet
  <2>. QED
    BY <2>1 DEF SummaryInv, SummaryTypeOK, JobPlaces
<1>. QED
  BY <1>1, SummaryInvariant, JobsLeaveTurnsAlone, TypeCorrect, PTL

(***************************************************************************)
(* Nothing that took part in an exchange is forgotten, while the advisory  *)
(* lock is not lost.                                                       *)
(***************************************************************************)

\* A persona reply follows the message, before any system notice does.
Replied(i) ==
  \E b \in DOMAIN rows :
    /\ i < b /\ rows[b] = "backend"
    /\ \A j \in DOMAIN rows : j > i /\ rows[j] = "system" => b < j

\* So it is for every message a reply answered.
RepliesFollow == \A i \in DOMAIN rows : rows[i] = "user" /\ i \in Answered => Replied(i)

\* The rows that are part of an exchange, or may still become part of one.
Kept(i) == InExchange(i) \/ (rows[i] = "user" /\ i > handled)

\* No turn brings a row back that was not kept, and reply and notice rows stay.
LEMMA RowClasses ==
  ASSUME TypeOK, LockedInv, NEW r \in Request, Advance(r) \/ Environment(r),
         NEW i \in 1..Len(rows)
  PROVE  /\ i \in 1..Len(rows')
         /\ rows'[i] \in {rows[i], "unanswered"}
         /\ rows[i] = "backend" => rows'[i] = "backend"
         /\ rows'[i] = "user" /\ i \in Answered' => i \in Answered \/ i > handled
<1>. rows \in Seq(Sender) /\ Len(rows) \in Nat
  BY DEF TypeOK
<1>0. WorkFits /\ Ownership
  BY DEF LockedInv
<1>1. i \in 1..Len(rows')
  <2>1. Len(rows') \in Nat /\ Len(rows') >= Len(rows)
    BY StepEffects, DbType
  <2>. QED
    BY <2>1
<1>2. rows'[i] \in {rows[i], "unanswered"}
  BY <1>0, RowsLast
<1>3. rows[i] = "backend" => rows'[i] = "backend"
  <2>1. \A k \in PendingAfter(handled) : rows[k] = "user"
    BY DEF PendingAfter
  <2>2. CASE Keeps \/ AppendUser(r)
    BY <2>2, AppendEffect DEF Keeps
  <2>3. CASE Retag(r)
    <3>1. own[r] # 0
      BY <1>0, <2>3 DEF WorkFits, Fits, Retag
    <3>2. rows[own[r]] # "backend"
      BY <1>0, <3>1 DEF Ownership
    <3>. QED
      BY <2>3, <3>2, RetagEffect
  <2>4. CASE \E f \in {"answered", "ignored", "dropped"} : SettlesAs(f)
    BY <2>1, <2>4 DEF SettlesAs
  <2>. QED
    BY <1>0, <2>2, <2>3, <2>4, LockedEffects DEF WorkFits
<1>4. i \in Answered' => i \in Answered \/ i > handled
  <2>1. \A k \in PendingAfter(handled) : k > handled
    BY DEF PendingAfter
  <2>2. CASE UNCHANGED delivered
    BY <2>2 DEF Answered
  <2>3. CASE PublishReply(r)
    BY <1>0, <2>1, <2>3, SettlingSteps DEF SettlesAs, WorkFits
  <2>. QED
    BY <2>2, <2>3, StepReferences
<1>. QED
  BY <1>1, <1>2, <1>3, <1>4

\* What a later state keeps, this one kept.
LEMMA KeptBefore ==
  ASSUME TypeOK, LockedInv, NEW r \in Request, Advance(r) \/ Environment(r),
         NEW i \in 1..Len(rows), Kept(i)'
  PROVE  Kept(i)
<1>1. handled \in Int /\ handled' \in Int /\ handled' >= handled
  BY StepEffects, DbType DEF TypeOK
<1>2. \/ rows'[i] = "backend"
      \/ rows'[i] = "user" /\ (i \in Answered' \/ i > handled')
  BY DEF Kept, InExchange
<1>3. rows[i] = rows'[i]
  BY <1>2, RowClasses
<1>4. rows[i] = "user" => i \in Answered \/ i > handled
  <2>. SUFFICES ASSUME rows[i] = "user" PROVE i \in Answered \/ i > handled
    OBVIOUS
  <2>1. rows'[i] = "user" /\ (i \in Answered' \/ i > handled')
    BY <1>2, <1>3
  <2>2. i > handled' => i > handled
    BY <1>1
  <2>. QED
    BY <2>1, <2>2, RowClasses
<1>. QED
  BY <1>2, <1>3, <1>4 DEF Kept, InExchange

\* A pending message stands after every reply and notice, so the reply that
\* answers it comes first.
LEMMA RepliesFollowStep ==
  ASSUME TypeOK, LockedInv, NoReplyOverPending, RepliesFollow,
         NEW r \in Request, Advance(r) \/ Environment(r)
  PROVE  RepliesFollow'
<1>. rows \in Seq(Sender) /\ Len(rows) \in Nat /\ DOMAIN rows = 1..Len(rows)
  BY DEF TypeOK
<1>0. /\ rows' \in Seq(Sender) /\ Len(rows') \in Nat /\ Len(rows') >= Len(rows)
      /\ DOMAIN rows' = 1..Len(rows')
  BY StepEffects, DbType
<1>. SUFFICES ASSUME NEW i \in 1..Len(rows'), rows'[i] = "user", i \in Answered'
              PROVE  Replied(i)'
  BY <1>0 DEF RepliesFollow
<1>1. ASSUME i \in Answered PROVE Replied(i)'
  <2>1. i \in 1..Len(rows)
    BY <1>1 DEF TypeOK, Answered
  <2>2. rows[i] = "user"
    BY <2>1, RowClasses
  <2>3. PICK b \in 1..Len(rows) : /\ i < b /\ rows[b] = "backend"
                                  /\ \A j \in 1..Len(rows) : j > i /\ rows[j] = "system" => b < j
    BY <1>1, <2>1, <2>2 DEF RepliesFollow, Replied
  <2>4. b \in 1..Len(rows') /\ rows'[b] = "backend"
    BY <2>3, RowClasses
  <2>5. ASSUME NEW j \in 1..Len(rows'), j > i, rows'[j] = "system" PROVE b < j
    <3>1. CASE j \in 1..Len(rows)
      <4>1. rows[j] = "system"
        BY <2>5, <3>1, RowClasses
      <4>. QED
        BY <2>3, <2>5, <3>1, <4>1
    <3>2. CASE j \notin 1..Len(rows)
      BY <2>3, <3>2
    <3>. QED
      BY <3>1, <3>2
  <2>. QED
    BY <1>0, <2>3, <2>4, <2>5 DEF Replied
<1>2. ASSUME i \notin Answered PROVE Replied(i)'
  <2>1. PublishReply(r)
    BY <1>2, StepReferences DEF Answered
  <2>2. i \in PendingAfter(handled)
    BY <1>2, <2>1, SettlingSteps DEF SettlesAs, LockedInv, WorkFits
  <2>3. i \in 1..Len(rows) /\ \A j \in 1..Len(rows) : rows[j] = "system" => j < i
    BY <2>2 DEF NoReplyOverPending, PendingAfter
  <2>4. /\ Len(rows) + 1 \in 1..Len(rows') /\ rows'[Len(rows) + 1] = "backend"
        /\ \A j \in 1..Len(rows) : rows'[j] = rows[j]
    BY <2>1 DEF PublishReply, Sender
  <2>5. ASSUME NEW j \in 1..Len(rows'), j > i, rows'[j] = "system" PROVE Len(rows) + 1 < j
    <3>1. j \notin 1..Len(rows) /\ j # Len(rows) + 1
      BY <2>3, <2>4, <2>5
    <3>. QED
      BY <3>1
  <2>. QED
    BY <1>0, <2>3, <2>4, <2>5 DEF Replied
<1>. QED
  BY <1>1, <1>2

\* The pass leaves out no row that is kept.
LEMMA RecentHasKept ==
  ASSUME TypeOK, NoReplyOverPending, RepliesFollow, NEW from \in Nat,
         NEW i \in 1..Len(rows), i > from, Kept(i)
  PROVE  i \in ToSet(RecentMessages(from))
<1>. rows \in Seq(Sender) /\ Len(rows) \in Nat /\ DOMAIN rows = 1..Len(rows)
  BY DEF TypeOK
<1>1. ASSUME rows[i] = "backend" PROVE Lasting(i)
  BY <1>1 DEF Lasting
<1>2. ASSUME rows[i] = "user", i \in Answered PROVE Lasting(i)
  <2>1. PICK b \in 1..Len(rows) : /\ i < b /\ rows[b] = "backend"
                                  /\ \A j \in 1..Len(rows) : j > i /\ rows[j] = "system" => b < j
    BY <1>2 DEF RepliesFollow, Replied
  <2>2. Shielded(i)
    BY <2>1 DEF Shielded
  <2>. QED
    BY <1>2, <2>2 DEF Lasting
<1>3. ASSUME rows[i] = "user", i > handled PROVE Lasting(i)
  <2>1. i \in PendingAfter(handled)
    BY <1>3 DEF PendingAfter
  <2>2. Shielded(i)
    BY <2>1 DEF NoReplyOverPending, Shielded
  <2>. QED
    BY <1>3, <2>2 DEF Lasting
<1>4. Lasting(i)
  BY <1>1, <1>2, <1>3 DEF Kept, InExchange
<1>. DEFINE recent == RecentMessages(from)
<1>5. Good(recent, Len(rows), from)
  BY RecentKeeps
<1>. HIDE DEF recent
<1>6. PICK j \in 1..Len(recent) : recent[j] = i
  BY <1>4, <1>5 DEF Good
<1>7. recent \in Seq(Nat)
  BY <1>5 DEF Good
<1>8. i \in ToSet(recent)
  BY <1>6, <1>7 DEF ToSet
<1>. QED
  BY <1>8 DEF recent

\* Up to the checkpoint, what is kept is in the summary.
Remembered == \A i \in 1..summarized : Kept(i) => i \in summary

\* A job in the model holds what is kept up to the last row it has read,
\* whatever was answered, released or summarized since.
Carried ==
  \A r \in Request : job[r] = "model" =>
    \A i \in 1..Last(seen[r]) : Kept(i) => i \in prior[r] \cup ToSet(seen[r])

ExchangeInv == RepliesFollow /\ Remembered /\ Carried

\* A step that leaves the messages alone leaves what is kept.
LEMMA KeptStands ==
  ASSUME UNCHANGED <<rows, handled, delivered>>
  PROVE  RepliesFollow' = RepliesFollow /\ \A i : Kept(i)' = Kept(i)
BY DEF RepliesFollow, Replied, Kept, InExchange, Answered

LEMMA ExchangeStep ==
  ASSUME TypeOK, LockedInv, NoReplyOverPending, SummaryInv, ExchangeInv,
         [SummaryNext]_summaryVars, losses' = 0
  PROVE  ExchangeInv'
<1>. /\ rows \in Seq(Sender) /\ Len(rows) \in Nat /\ summarized \in 0..Len(rows)
     /\ summarized \in Nat /\ job \in [Request -> JobPlaces]
     /\ prior \in [Request -> SUBSET Nat] /\ seen \in [Request -> Seq(Nat)]
  BY DEF TypeOK, SummaryInv
<1>0. RepliesFollow /\ Remembered /\ Carried
  BY DEF ExchangeInv
<1>1. CASE TurnStep \/ UNCHANGED summaryVars
  <2>1. UNCHANGED <<summarized, summary, prior, seen>>
    BY <1>1 DEF TurnStep, checkpoint, work, summaryVars
  <2>2. \A r \in Request : job'[r] = "model" => job[r] = "model"
    BY <1>1 DEF TurnStep, summaryVars
  <2>3. RepliesFollow' /\ \A i \in 1..Len(rows) : Kept(i)' => Kept(i)
    <3>1. [Next]_vars
      BY SummaryStepIsTurnStep
    <3>2. CASE \E r \in Request : Advance(r) \/ Environment(r)
      BY <1>0, <3>2, KeptBefore, RepliesFollowStep
    <3>3. CASE UNCHANGED vars
      <4>1. UNCHANGED <<rows, handled, delivered>>
        BY <3>3 DEF vars, db, history
      <4>. QED
        BY <1>0, <4>1, KeptStands
    <3>. QED
      BY <3>1, <3>2, <3>3, LossyStep
  <2>4. Remembered'
    <3>1. \A i \in 1..summarized : i \in 1..Len(rows)
      OBVIOUS
    <3>. QED
      BY <1>0, <2>1, <2>3, <3>1 DEF Remembered
  <2>5. Carried'
    <3>. SUFFICES ASSUME NEW r \in Request, job[r] = "model",
                         NEW i \in 1..Last(seen[r]), Kept(i)'
                  PROVE  i \in prior[r] \cup ToSet(seen[r])
      BY <2>1, <2>2 DEF Carried
    <3>1. i \in 1..Len(rows)
      BY JobHolds
    <3>. QED
      BY <1>0, <2>3, <3>1 DEF Carried
  <2>. QED
    BY <2>3, <2>4, <2>5 DEF ExchangeInv
<1>2. ASSUME NEW r \in Request, ReadForSummary(r) \/ SummaryFails(r) \/ StoreSummary(r)
      PROVE  ExchangeInv'
  <2>1. UNCHANGED <<rows, handled, delivered>>
    BY <1>2 DEF ReadForSummary, SummaryFails, StoreSummary, vars, db, history
  <2>2. RepliesFollow' /\ \A i : Kept(i)' = Kept(i)
    BY <1>0, <2>1, KeptStands
  <2>3. ASSUME ReadForSummary(r), job'[r] = "model" PROVE Remembered' /\ Carried'
    <3>. DEFINE recent == RecentMessages(summarized)
    <3>1. /\ UNCHANGED <<summarized, summary>>
          /\ job' = [job EXCEPT ![r] = "model"] /\ prior' = [prior EXCEPT ![r] = summary]
          /\ seen' = [seen EXCEPT ![r] = recent]
      BY <2>3, ReadHolds DEF checkpoint
    <3>2. recent # <<>> /\ Good(recent, Len(rows), summarized)
      BY <2>3, ReadHolds
    <3>3. \A i \in 1..Len(rows) : i > summarized /\ Kept(i) => i \in ToSet(recent)
      BY <1>0, RecentHasKept
    <3>. HIDE DEF recent
    <3>4. recent \in Seq(Nat) /\ Last(recent) \in 1..Len(rows)
      BY <3>2 DEF Good, Last
    <3>5. ASSUME NEW i \in 1..Last(recent), Kept(i) PROVE i \in summary \cup ToSet(recent)
      <4>1. CASE i <= summarized
        BY <1>0, <3>4, <3>5, <4>1 DEF Remembered
      <4>2. CASE i > summarized
        BY <3>3, <3>4, <3>5, <4>2
      <4>. QED
        BY <3>4, <4>1, <4>2
    <3>6. Carried'
      BY <1>0, <2>2, <3>1, <3>5 DEF Carried
    <3>7. Remembered'
      BY <1>0, <2>2, <3>1 DEF Remembered
    <3>. QED
      BY <3>6, <3>7
  <2>4. ASSUME UNCHANGED checkpoint, UNCHANGED work, job' = [job EXCEPT ![r] = "over"]
        PROVE  Remembered' /\ Carried'
    <3>1. /\ UNCHANGED <<summarized, summary, prior, seen>>
          /\ \A q \in Request : job'[q] = "model" => job[q] = "model"
      BY <2>4 DEF checkpoint, work
    <3>2. Remembered'
      BY <1>0, <2>2, <3>1 DEF Remembered
    <3>3. Carried'
      BY <1>0, <2>2, <3>1 DEF Carried
    <3>. QED
      BY <3>2, <3>3
  <2>5. ASSUME job[r] = "model", summarized' = Last(seen[r]),
               summary' = prior[r] \cup ToSet(seen[r]),
               UNCHANGED work, job' = [job EXCEPT ![r] = "over"]
        PROVE  Remembered' /\ Carried'
    <3>1. /\ UNCHANGED <<prior, seen>>
          /\ \A q \in Request : job'[q] = "model" => job[q] = "model"
      BY <2>5 DEF work
    <3>2. Remembered'
      BY <1>0, <2>2, <2>5 DEF Remembered, Carried
    <3>3. Carried'
      BY <1>0, <2>2, <3>1 DEF Carried
    <3>. QED
      BY <3>2, <3>3
  <2>6. Remembered' /\ Carried'
    <3>1. \/ ReadForSummary(r) /\ job'[r] = "model"
          \/ UNCHANGED checkpoint /\ UNCHANGED work /\ job' = [job EXCEPT ![r] = "over"]
          \/ /\ job[r] = "model" /\ summarized' = Last(seen[r])
             /\ summary' = prior[r] \cup ToSet(seen[r])
             /\ UNCHANGED work /\ job' = [job EXCEPT ![r] = "over"]
      BY <1>2 DEF ReadForSummary, SummaryFails, StoreSummary
    <3>. QED
      BY <2>3, <2>4, <2>5, <3>1
  <2>. QED
    BY <2>2, <2>6 DEF ExchangeInv
<1>. QED
  BY <1>1, <1>2 DEF SummaryNext

LEMMA ExchangeInvariant == SummarySpec => [](losses = 0 => ExchangeInv)
<1>1. SummaryInit => ExchangeInv
  <2>. SUFFICES ASSUME SummaryInit PROVE ExchangeInv
    OBVIOUS
  <2>1. DOMAIN rows = {} /\ 1..summarized = {}
    BY DEF SummaryInit, Init
  <2>2. Carried
    BY DEF SummaryInit, Carried
  <2>. QED
    BY <2>1, <2>2 DEF ExchangeInv, RepliesFollow, Remembered
<1>2. /\ TypeOK /\ (losses = 0 => LockedInv) /\ NoReplyOverPending /\ SummaryInv
      /\ (losses = 0 => ExchangeInv) /\ [SummaryNext]_summaryVars
      => (losses = 0 => ExchangeInv)'
  <2>. SUFFICES ASSUME TypeOK, losses = 0 => LockedInv, NoReplyOverPending, SummaryInv,
                       losses = 0 => ExchangeInv, [SummaryNext]_summaryVars, losses' = 0
                PROVE  ExchangeInv'
    OBVIOUS
  <2>1. losses = 0
    BY SummaryStepIsTurnStep, LossyStep
  <2>. QED
    BY <2>1, ExchangeStep
<1>. QED
  BY <1>1, <1>2, TypeCorrect, LockedInvariant, RepliesKeepOrder, SummaryInvariant,
     JobsLeaveTurnsAlone, PTL DEF SummarySpec

\* Nothing that took part in an exchange is forgotten: every persona reply and
\* every message it answered is among the recent messages or in the summary,
\* however many jobs overlap and in whatever order they store their results.
THEOREM ExchangesAreRemembered == SummarySpec => [](losses = 0 => ExchangesRemembered)
<1>1. /\ TypeOK /\ NoReplyOverPending /\ SummaryInv /\ (losses = 0 => ExchangeInv)
      => (losses = 0 => ExchangesRemembered)
  <2>. SUFFICES ASSUME TypeOK, NoReplyOverPending, SummaryInv, ExchangeInv,
                       NEW i \in DOMAIN rows, InExchange(i)
                PROVE  i \in summary \cup ToSet(RecentMessages(summarized))
    BY DEF ExchangesRemembered
  <2>1. Kept(i) /\ i \in 1..Len(rows) /\ summarized \in Nat
    BY DEF Kept, TypeOK, SummaryInv
  <2>2. CASE i <= summarized
    BY <2>1, <2>2 DEF ExchangeInv, Remembered
  <2>3. CASE i > summarized
    BY <2>1, <2>3, RecentHasKept DEF ExchangeInv
  <2>. QED
    BY <2>1, <2>2, <2>3
<1>. QED
  BY <1>1, TypeCorrect, RepliesKeepOrder, SummaryInvariant, ExchangeInvariant,
     JobsLeaveTurnsAlone, PTL

\* The summary changes only when the checkpoint moves forward, and a job that
\* stores late never takes a message of an exchange out of it: what was added
\* since is at or below the newer checkpoint, which drops the job, or among the
\* messages the job has read itself.
THEOREM SummariesMoveForward == SummarySpec /\ [](losses = 0) => SummaryMovesForward
<1>. DEFINE Step == checkpoint' # checkpoint =>
                      /\ summarized' > summarized
                      /\ \A i \in summary : InExchange(i) => i \in summary'
<1>1. TypeOK /\ SummaryInv /\ (losses = 0 => ExchangeInv) /\ losses = 0
      /\ [SummaryNext]_summaryVars => [Step]_summaryVars
  <2>. SUFFICES ASSUME TypeOK, SummaryInv, ExchangeInv, SummaryNext, checkpoint' # checkpoint
                PROVE  /\ summarized' > summarized
                       /\ \A i \in summary : InExchange(i) => i \in summary'
    OBVIOUS
  <2>1. PICK r \in Request : StoreSummary(r)
    BY DEF SummaryNext, TurnStep, ReadForSummary, SummaryFails
  <2>2. /\ job[r] = "model" /\ ~(Last(seen[r]) <= summarized)
        /\ summarized' = Last(seen[r]) /\ summary' = prior[r] \cup ToSet(seen[r])
    BY <2>1 DEF StoreSummary
  <2>3. /\ Last(seen[r]) \in Nat /\ summarized \in Nat
        /\ \A i \in summary : i \in 1..summarized
    BY <2>2, JobHolds DEF SummaryInv
  <2>4. ASSUME NEW i \in summary, InExchange(i) PROVE i \in summary'
    <3>1. i \in 1..Last(seen[r]) /\ Kept(i)
      BY <2>2, <2>3, <2>4 DEF Kept
    <3>. QED
      BY <2>2, <3>1 DEF ExchangeInv, Carried
  <2>. QED
    BY <2>2, <2>3, <2>4
<1>. QED
  BY <1>1, TypeCorrect, SummaryInvariant, ExchangeInvariant, JobsLeaveTurnsAlone,
     PTL DEF SummarySpec, SummaryMovesForward
=============================================================================
