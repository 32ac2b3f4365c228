-------------------------- MODULE ChatTurnsProofs --------------------------
(***************************************************************************)
(* Proofs about ChatTurns, for every number of requests and workers, every *)
(* bound and every RegenCounter.                                           *)
(***************************************************************************)
EXTENDS ChatTurns, BasicLemmas

(***************************************************************************)
(* What the helpers return.                                                *)
(***************************************************************************)

\* Retagging keeps every row and changes only the chosen ones.
LEMMA ReleasedType ==
  ASSUME rows \in Seq(Sender), NEW S
  PROVE  /\ Released(S) \in Seq(Sender)
         /\ Len(Released(S)) = Len(rows)
         /\ \A i \in 1..Len(rows) :
              Released(S)[i] = IF i \in S THEN "unanswered" ELSE rows[i]
  BY DEF Released, Sender

\* Newest is the largest row number of a group, 0 for the empty group.
LEMMA NewestType ==
  ASSUME NEW n \in Nat, NEW S \in SUBSET (1..n)
  PROVE  /\ Newest(S) \in 0..n
         /\ \A i \in S : i <= Newest(S)
         /\ S # {} => Newest(S) \in S
<1>1. CASE S = {}
  BY <1>1 DEF Newest
<1>2. CASE S # {}
  <2>1. Max(S) \in S /\ \A i \in S : i <= Max(S)
    BY <1>2, MaxOfBounded
  <2>2. Max(S) \in 1..n
    BY <2>1
  <2>3. Newest(S) = Max(S)
    BY <1>2 DEF Newest
  <2>4. Max(S) \in 0..n
    BY <2>2
  <2>. QED
    BY <2>1, <2>3, <2>4
<1>. QED
  BY <1>1, <1>2

\* Pending rows are USER rows of the conversation.
LEMMA PendingType ==
  ASSUME rows \in Seq(Sender), NEW c \in Int
  PROVE  /\ PendingAfter(c) \in SUBSET (1..Len(rows))
         /\ \A i : i \in PendingAfter(c) <=> i \in 1..Len(rows) /\ i > c /\ rows[i] = "user"
  BY DEF PendingAfter

(***************************************************************************)
(* What a step of a request can change.                                    *)
(***************************************************************************)

\* The steps that touch the message rows, the cursor or the history.
Effects(r) ==
  \/ UNCHANGED <<rows, handled, delivered, ignored>>
  \/ /\ \E s \in {"user", "regen", "error"} : rows' = Append(rows, s)
     /\ UNCHANGED <<handled, delivered, ignored>>
  \/ PublishNoReply(r) \/ PublishReply(r) \/ PublishFallback(r)
  \/ ReleaseGroup(r) \/ Retag(r)

LEMMA StepEffects ==
  ASSUME NEW r \in Request, Advance(r) \/ Environment(r)
  PROVE  Effects(r)
  BY DEF Effects, Advance, Environment, Arrive, Refuse, Acquire, TurnAway, AppendUser,
         ReadCursor, NothingHeld, ReadPending, Judge, RejectAttempt, Compose, GiveUp,
         RunFails, PublishSuperseded, PublishWait, PublishFails, RecordError,
         MissRelease, MissRetag, Cut, Mishap, db, history

\* Which step assigns each reference a request keeps.
LEMMA StepReferences ==
  ASSUME NEW r \in Request, Advance(r) \/ Environment(r)
  PROVE  /\ own' = own \/ AppendUser(r)
         /\ base' = base \/ ReadCursor(r)
         /\ group' = group \/ ReadPending(r)
         /\ delivered' = delivered \/ PublishReply(r)
         /\ ignored' = ignored \/ PublishNoReply(r)
  BY DEF Advance, Environment, Arrive, Refuse, Acquire, TurnAway, AppendUser,
         ReadCursor, NothingHeld, ReadPending, Judge, RejectAttempt, Compose, GiveUp,
         RunFails, PublishSuperseded, PublishWait, PublishNoReply, PublishReply,
         PublishFallback, PublishFails, RecordError, ReleaseGroup, MissRelease, Retag,
         MissRetag, Cut, Mishap, context, history

\* Control moves: a request ends, or goes on to another place.
Moves(r) ==
  \/ UNCHANGED <<pc, told, locks>>
  \/ \E a \in Answers : Finish(r, a)
  \/ /\ \E p \in Places : Goto(r, p)
     /\ told' = told
     /\ \/ UNCHANGED locks
        \/ holder' = r /\ queue' = queue
        \/ holder' = holder /\ \E w \in Worker : queue' = [queue EXCEPT ![w] = Append(@, r)]

LEMMA StepMoves ==
  ASSUME NEW r \in Request, Advance(r) \/ Environment(r)
  PROVE  Moves(r)
  BY DEF Moves, Answers, Places, Working, Waiting, Running, Recovering,
         Advance, Environment, Arrive, Refuse, Acquire, TurnAway, AppendUser,
         ReadCursor, NothingHeld, ReadPending, Judge, RejectAttempt, Compose, GiveUp,
         RunFails, PublishSuperseded, PublishWait, PublishNoReply, PublishReply,
         PublishFallback, PublishFails, RecordError, ReleaseGroup, MissRelease, Retag,
         MissRetag, Cut, Mishap, AfterRelease, locks

(***************************************************************************)
(* Type correctness, one group of variables at a time.                     *)
(***************************************************************************)

\* The rows only grow, and the cursor stays within them.
LEMMA DbType ==
  ASSUME TypeOK, NEW r \in Request, Effects(r)
  PROVE  /\ rows' \in Seq(Sender)
         /\ Len(rows') >= Len(rows)
         /\ handled' \in 0..Len(rows')
         /\ handled' >= handled
<1>. /\ rows \in Seq(Sender) /\ Len(rows) \in Nat /\ handled \in 0..Len(rows)
     /\ group[r] \in SUBSET (1..Len(rows))
  BY DEF TypeOK
<1>1. Newest(group[r]) \in 0..Len(rows)
  BY NewestType
<1>2. /\ PendingAfter(handled) \in SUBSET (1..Len(rows))
      /\ Newest(PendingAfter(handled)) \in 0..Len(rows)
  BY PendingType, NewestType
<1>3. \A s \in Sender : /\ Append(rows, s) \in Seq(Sender)
                        /\ Len(Append(rows, s)) = Len(rows) + 1
  OBVIOUS
<1>4. \A S : Released(S) \in Seq(Sender) /\ Len(Released(S)) = Len(rows)
  BY ReleasedType
<1>5. CASE UNCHANGED <<rows, handled, delivered, ignored>>
  BY <1>5
<1>6. CASE /\ \E s \in {"user", "regen", "error"} : rows' = Append(rows, s)
           /\ UNCHANGED <<handled, delivered, ignored>>
  BY <1>6, <1>3 DEF Sender
<1>7. CASE PublishNoReply(r)
  BY <1>7, <1>1 DEF PublishNoReply, MarkHandled
<1>8. CASE PublishReply(r)
  <2>1. /\ rows' \in Seq(Sender)
        /\ Len(rows') = Len(rows) + 1 \/ Len(rows') = Len(rows) + 2
    BY <1>8, <1>3 DEF PublishReply, Sender
  <2>. QED
    BY <1>8, <1>1, <2>1 DEF PublishReply, MarkHandled
<1>9. CASE PublishFallback(r)
  <2>1. PICK S : rows' = Append(Released(S), "system")
    BY <1>9 DEF PublishFallback
  <2>2. rows' \in Seq(Sender) /\ Len(rows') = Len(rows) + 1
    BY <2>1, <1>4 DEF Sender
  <2>. QED
    BY <1>9, <1>1, <2>2 DEF PublishFallback, MarkHandled
<1>10. CASE ReleaseGroup(r)
  BY <1>10, <1>2, <1>4 DEF ReleaseGroup, MarkHandled
<1>11. CASE Retag(r)
  BY <1>11, <1>4 DEF Retag
<1>. QED
  BY <1>5, <1>6, <1>7, <1>8, <1>9, <1>10, <1>11 DEF Effects

\* References point at rows of the conversation.
LEMMA RefsType ==
  ASSUME TypeOK, NEW r \in Request, Advance(r) \/ Environment(r)
  PROVE  /\ own' \in [Request -> 0..Len(rows')]
         /\ base' \in [Request -> 0..Len(rows')]
         /\ group' \in [Request -> SUBSET (1..Len(rows'))]
         /\ delivered' \subseteq [at : 1..Len(rows'), to : SUBSET (1..Len(rows'))]
         /\ ignored' \subseteq 1..Len(rows')
<1>. /\ rows \in Seq(Sender) /\ Len(rows) \in Nat /\ handled \in 0..Len(rows)
     /\ own \in [Request -> 0..Len(rows)] /\ base \in [Request -> 0..Len(rows)]
     /\ group \in [Request -> SUBSET (1..Len(rows))]
     /\ delivered \subseteq [at : 1..Len(rows), to : SUBSET (1..Len(rows))]
     /\ ignored \subseteq 1..Len(rows)
  BY DEF TypeOK
<1>1. Len(rows') \in Nat /\ Len(rows') >= Len(rows)
  BY StepEffects, DbType
<1>2. own' \in [Request -> 0..Len(rows')]
  <2>1. CASE own' = own
    BY <2>1, <1>1
  <2>2. CASE AppendUser(r)
    <3>1. Len(rows') = Len(rows) + 1
      BY <2>2 DEF AppendUser
    <3>. QED
      BY <2>2, <3>1 DEF AppendUser
  <2>. QED
    BY <2>1, <2>2, StepReferences
<1>3. base' \in [Request -> 0..Len(rows')]
  BY <1>1, StepReferences DEF ReadCursor
<1>4. group' \in [Request -> SUBSET (1..Len(rows'))]
  <2>1. base[r] \in Int
    OBVIOUS
  <2>2. PendingAfter(base[r]) \in SUBSET (1..Len(rows))
    BY <2>1, PendingType
  <2>3. SUBSET (1..Len(rows)) \subseteq SUBSET (1..Len(rows'))
    BY <1>1
  <2>4. CASE group' = group
    BY <2>3, <2>4
  <2>5. CASE ReadPending(r)
    BY <2>2, <2>3, <2>5 DEF ReadPending
  <2>. QED
    BY <2>4, <2>5, StepReferences
<1>5. delivered' \subseteq [at : 1..Len(rows'), to : SUBSET (1..Len(rows'))]
  <2>1. CASE delivered' = delivered
    BY <2>1, <1>1
  <2>2. CASE PublishReply(r)
    <3>1. Len(rows) + 1 \in 1..Len(rows')
      BY <2>2, <1>1 DEF PublishReply, Sender
    <3>2. group[r] \in SUBSET (1..Len(rows'))
      BY <1>1
    <3>. QED
      BY <2>2, <3>1, <3>2, <1>1 DEF PublishReply
  <2>. QED
    BY <2>1, <2>2, StepReferences
<1>6. ignored' \subseteq 1..Len(rows')
  BY <1>1, StepReferences DEF PublishNoReply
<1>. QED
  BY <1>2, <1>3, <1>4, <1>5, <1>6

\* The locks, the coroutines' places and the answers stay what they are.
LEMMA ControlType ==
  ASSUME TypeOK, NEW r \in Request, Moves(r)
  PROVE  /\ queue' \in [Worker -> Seq(Request)]
         /\ holder' \in Request \cup {None}
         /\ pc' \in [Request -> Places]
         /\ told' \in [Request -> Answers]
<1>. /\ queue \in [Worker -> Seq(Request)] /\ holder \in Request \cup {None}
     /\ pc \in [Request -> Places] /\ told \in [Request -> Answers]
  BY DEF TypeOK
<1>1. CASE UNCHANGED <<pc, told, locks>>
  BY <1>1 DEF locks
<1>2. CASE \E a \in Answers : Finish(r, a)
  <2>1. "done" \in Places /\ "error" \in Answers
    BY DEF Places, Answers
  <2>2. \A w \in Worker : RemoveFirst(queue[w], r) \in Seq(Request)
    BY RemoveFirstType
  <2>. QED
    BY <1>2, <2>1, <2>2 DEF Finish, Goto
<1>3. CASE /\ \E p \in Places : Goto(r, p)
           /\ told' = told
           /\ \/ UNCHANGED locks
              \/ holder' = r /\ queue' = queue
              \/ holder' = holder /\ \E w \in Worker : queue' = [queue EXCEPT ![w] = Append(@, r)]
  <2>1. \A w \in Worker : Append(queue[w], r) \in Seq(Request)
    OBVIOUS
  <2>2. queue' \in [Worker -> Seq(Request)] /\ holder' \in Request \cup {None}
    BY <1>3, <2>1 DEF locks
  <2>. QED
    BY <1>3, <2>2 DEF Goto
<1>. QED
  BY <1>1, <1>2, <1>3 DEF Moves

\* So do the verdicts, the attempts and the bounded counters.
LEMMA OutcomeType ==
  ASSUME TypeOK, NEW r \in Request, Advance(r) \/ Environment(r)
  PROVE  /\ kind' \in [Request -> Kinds]
         /\ regen' \in [Request -> 0..RegenCounter]
         /\ verdict' \in [Request -> Verdicts]
         /\ missed' \in [Request -> SUBSET {"release", "retag"}]
         /\ losses' \in 0..MaxLoss /\ mishaps' \in 0..MaxMishap
<1>. /\ kind \in [Request -> Kinds] /\ regen \in [Request -> 0..RegenCounter]
     /\ verdict \in [Request -> Verdicts]
     /\ missed \in [Request -> SUBSET {"release", "retag"}]
     /\ losses \in 0..MaxLoss /\ mishaps \in 0..MaxMishap
  BY DEF TypeOK
<1>1. /\ kind' = kind \/ Arrive(r) \/ Refuse(r)
      /\ regen' = regen \/ RejectAttempt(r)
      /\ verdict' = verdict \/ Judge(r) \/ Compose(r) \/ GiveUp(r)
      /\ missed' = missed \/ MissRelease(r) \/ MissRetag(r)
      /\ losses' = losses /\ (mishaps' = mishaps \/ Mishap)
  BY DEF Advance, Environment, Arrive, Refuse, Acquire, TurnAway, AppendUser,
         ReadCursor, NothingHeld, ReadPending, Judge, RejectAttempt, Compose, GiveUp,
         RunFails, PublishSuperseded, PublishWait, PublishNoReply, PublishReply,
         PublishFallback, PublishFails, RecordError, ReleaseGroup, MissRelease, Retag,
         MissRetag, Cut, Mishap, context, bounds
<1>2. kind' \in [Request -> Kinds]
  BY <1>1 DEF Arrive, Refuse, Kinds
<1>3. regen' \in [Request -> 0..RegenCounter]
  <2>1. CASE RejectAttempt(r)
    <3>1. regen[r] \in 0..RegenCounter /\ regen[r] < RegenCounter /\ RegenCounter \in Nat
      BY <2>1, BoundsAreNat DEF RejectAttempt
    <3>2. regen[r] + 1 \in 0..RegenCounter
      BY <3>1
    <3>3. regen' = [regen EXCEPT ![r] = @ + 1]
      BY <2>1 DEF RejectAttempt
    <3>. QED
      BY <3>2, <3>3
  <2>. QED
    BY <1>1, <2>1
<1>4. verdict' \in [Request -> Verdicts]
  BY <1>1 DEF Judge, Compose, GiveUp, Verdicts
<1>5. missed' \in [Request -> SUBSET {"release", "retag"}]
  BY <1>1 DEF MissRelease, MissRetag
<1>6. losses' \in 0..MaxLoss /\ mishaps' \in 0..MaxMishap
  BY <1>1, BoundsAreNat DEF Mishap
<1>. QED
  BY <1>2, <1>3, <1>4, <1>5, <1>6

\* Losing the lock touches the lock and its counter.
LEMMA LoseLockType ==
  ASSUME TypeOK, LoseLock
  PROVE  TypeOK'
<1>1. UNCHANGED <<rows, handled, queue, pc, kind, own, base, group, regen, verdict, told,
                  missed, delivered, ignored, mishaps>>
  BY DEF LoseLock, db, context, history
<1>2. holder' \in Request \cup {None} /\ losses' \in 0..MaxLoss
  BY BoundsAreNat DEF LoseLock, TypeOK
<1>. QED
  BY <1>1, <1>2 DEF TypeOK

LEMMA TypeStep == TypeOK /\ [Next]_vars => TypeOK'
<1>. SUFFICES ASSUME TypeOK, [Next]_vars PROVE TypeOK'
  OBVIOUS
<1>1. ASSUME NEW r \in Request, Advance(r) \/ Environment(r) PROVE TypeOK'
  BY <1>1, StepEffects, DbType, RefsType, StepMoves, ControlType, OutcomeType DEF TypeOK
<1>2. CASE LoseLock
  BY <1>2, LoseLockType
<1>3. CASE UNCHANGED vars
  BY <1>3 DEF TypeOK, vars, db, locks, context, history, bounds
<1>. QED
  BY <1>1, <1>2, <1>3 DEF Next, AllDone

\* Every variable keeps its type: rows only grow, the cursor never passes the
\* last row, and no reference a suspended request keeps dangles.
THEOREM TypeCorrect == Spec => []TypeOK
<1>1. Init => TypeOK
  <2>. SUFFICES ASSUME Init PROVE TypeOK
    OBVIOUS
  <2>1. <<>> \in Seq(Sender) /\ Len(<<>>) = 0 /\ <<>> \in Seq(Request)
    OBVIOUS
  <2>. QED
    BY <2>1, BoundsAreNat DEF Init, TypeOK, Places, Waiting, Working, Running, Recovering,
       Kinds, Verdicts, Answers
<1>. QED
  BY <1>1, TypeStep, PTL DEF Spec

(***************************************************************************)
(* The order of replies and messages. It holds however often the advisory  *)
(* lock is lost: it rests on what publish_turn re-reads, not on the lock.  *)
(***************************************************************************)

\* A run that is not superseded has seen every message there is.
LEMMA NothingNewer ==
  ASSUME TypeOK, NEW r \in Request, ~Superseded(r)
  PROVE  \A i \in 1..Len(rows) : rows[i] = "user" => i <= Newest(group[r])
<1>. /\ rows \in Seq(Sender) /\ Len(rows) \in Nat
     /\ group[r] \in SUBSET (1..Len(rows))
  BY DEF TypeOK
<1>. SUFFICES ASSUME NEW i \in 1..Len(rows), rows[i] = "user"
              PROVE  i <= Newest(group[r])
  OBVIOUS
<1>1. i \in PendingAfter(0) /\ PendingAfter(0) \in SUBSET (1..Len(rows))
  BY PendingType
<1>2. i <= Newest(PendingAfter(0)) /\ Newest(PendingAfter(0)) \in 0..Len(rows)
  BY <1>1, NewestType
<1>3. Newest(group[r]) \in 0..Len(rows)
  BY NewestType
<1>4. ~(Newest(PendingAfter(0)) > Newest(group[r]))
  BY <1>1 DEF Superseded
<1>. QED
  BY <1>2, <1>3, <1>4

\* Publishing a reply or a fallback leaves no message pending.
LEMMA PublishSettlesAll ==
  ASSUME TypeOK, NEW r \in Request, PublishReply(r) \/ PublishFallback(r)
  PROVE  PendingAfter(handled)' = {}
<1>. /\ rows \in Seq(Sender) /\ Len(rows) \in Nat /\ handled \in 0..Len(rows)
     /\ group[r] \in SUBSET (1..Len(rows))
  BY DEF TypeOK
<1>. DEFINE through == Newest(group[r])
<1>1. through \in 0..Len(rows)
  BY NewestType
<1>2. \A i \in 1..Len(rows) : rows[i] = "user" => i <= through
  BY NothingNewer DEF PublishReply, PublishFallback
<1>3. through <= handled' /\ handled' \in Int
  BY <1>1 DEF PublishReply, PublishFallback, MarkHandled
<1>4. \A i \in DOMAIN rows' : rows'[i] = "user" => i \in 1..Len(rows) /\ rows[i] = "user"
  <2>1. CASE PublishReply(r)
    BY <2>1 DEF PublishReply, Sender
  <2>2. CASE PublishFallback(r)
    <3>1. PICK S : rows' = Append(Released(S), "system")
      BY <2>2 DEF PublishFallback
    <3>2. /\ Released(S) \in Seq(Sender) /\ Len(Released(S)) = Len(rows)
          /\ \A i \in 1..Len(rows) :
               Released(S)[i] = IF i \in S THEN "unanswered" ELSE rows[i]
      BY ReleasedType
    <3>3. \A i \in DOMAIN rows' :
            \/ i = Len(rows) + 1 /\ rows'[i] = "system"
            \/ i \in 1..Len(rows) /\ rows'[i] = Released(S)[i]
      BY <3>1, <3>2 DEF Sender
    <3>. QED
      BY <3>2, <3>3
  <2>. QED
    BY <2>1, <2>2
<1>. QED
  BY <1>1, <1>2, <1>3, <1>4 DEF PendingAfter

\* What every step but a publication of a reply does to a row: nothing, or
\* UNANSWERED_USER in the place of USER; new rows stand at the end.
LEMMA RowsOtherwise ==
  ASSUME TypeOK, NEW r \in Request, Effects(r), ~PublishReply(r), ~PublishFallback(r)
  PROVE  /\ \A i \in DOMAIN rows' : i <= Len(rows) =>
               i \in DOMAIN rows /\ rows'[i] \in {rows[i], "unanswered"}
         /\ \A i \in DOMAIN rows' : i > Len(rows) =>
               rows'[i] \in {"user", "regen", "error"}
<1>. rows \in Seq(Sender) /\ Len(rows) \in Nat
  BY DEF TypeOK
<1>1. CASE rows' = rows
  BY <1>1
<1>2. CASE \E s \in {"user", "regen", "error"} : rows' = Append(rows, s)
  BY <1>2 DEF Sender
<1>3. CASE \E S : rows' = Released(S)
  BY <1>3, ReleasedType
<1>. QED
  BY <1>1, <1>2, <1>3 DEF Effects, PublishNoReply, ReleaseGroup, Retag

LEMMA OrderStep ==
  ASSUME TypeOK, NoReplyOverPending, NEW r \in Request, Effects(r)
  PROVE  NoReplyOverPending'
<1>. /\ rows \in Seq(Sender) /\ Len(rows) \in Nat /\ handled \in 0..Len(rows)
  BY DEF TypeOK
<1>1. CASE PublishReply(r) \/ PublishFallback(r)
  BY <1>1, PublishSettlesAll DEF NoReplyOverPending
<1>2. CASE ~PublishReply(r) /\ ~PublishFallback(r)
  <2>. SUFFICES ASSUME NEW i \in PendingAfter(handled)', NEW j \in DOMAIN rows',
                       rows'[j] \in {"backend", "system"}
                PROVE  j < i
    BY DEF NoReplyOverPending
  <2>1. /\ rows' \in Seq(Sender) /\ handled' \in Int /\ handled' >= handled
        /\ Len(rows') \in Nat
    BY DbType
  <2>2. i \in DOMAIN rows' /\ i > handled' /\ rows'[i] = "user"
    BY DEF PendingAfter
  <2>3. i \in Int /\ j \in Int
    BY <2>1, <2>2
  <2>4. j \in DOMAIN rows /\ rows[j] \in {"backend", "system"} /\ j <= Len(rows)
    BY <1>2, <2>3, RowsOtherwise
  <2>5. CASE i > Len(rows)
    BY <2>3, <2>4, <2>5
  <2>6. CASE i <= Len(rows)
    <3>1. i \in DOMAIN rows /\ rows[i] = "user"
      BY <1>2, <2>2, <2>6, RowsOtherwise
    <3>2. i \in PendingAfter(handled)
      BY <2>1, <2>2, <2>3, <3>1 DEF PendingAfter
    <3>. QED
      BY <2>4, <3>2 DEF NoReplyOverPending
  <2>. QED
    BY <2>3, <2>5, <2>6
<1>. QED
  BY <1>1, <1>2

\* No message that still waits for an answer stands before a persona reply or
\* notice, whatever the interleaving, the failures and the lost locks.
THEOREM RepliesKeepOrder == Spec => []NoReplyOverPending
<1>1. Init => NoReplyOverPending
  BY DEF Init, NoReplyOverPending, PendingAfter
<1>2. TypeOK /\ NoReplyOverPending /\ [Next]_vars => NoReplyOverPending'
  <2>. SUFFICES ASSUME TypeOK, NoReplyOverPending, [Next]_vars
                PROVE  NoReplyOverPending'
    OBVIOUS
  <2>1. ASSUME NEW r \in Request, Advance(r) \/ Environment(r) PROVE NoReplyOverPending'
    BY <2>1, StepEffects, OrderStep
  <2>2. CASE LoseLock \/ UNCHANGED vars
    BY <2>2 DEF NoReplyOverPending, PendingAfter, LoseLock, vars, db
  <2>. QED
    BY <2>1, <2>2 DEF Next, AllDone
<1>. QED
  BY <1>1, <1>2, TypeCorrect, PTL DEF Spec

(***************************************************************************)
(* Nothing is skipped. The cursor may only pass a message that was in the  *)
(* published group; this holds because the group was everything pending    *)
(* after a cursor read earlier, and the cursor never moves back.           *)
(***************************************************************************)

\* A cursor read earlier is not ahead of the one in the database.
BaseBehind == \A r \in Request : base[r] <= handled

\* A gathered group has every message between that cursor and its newest one.
GroupWhole ==
  \A r \in Request : pc[r] \in {"judge", "write", "publish"} =>
    \A i \in PendingAfter(base[r]) : i <= Newest(group[r]) => i \in group[r]

LEMMA BaseStep ==
  ASSUME TypeOK, BaseBehind, NEW r \in Request, Advance(r) \/ Environment(r)
  PROVE  BaseBehind'
<1>. handled \in Int /\ base \in [Request -> 0..Len(rows)]
  BY DEF TypeOK
<1>1. handled' \in Int /\ handled' >= handled
  BY StepEffects, DbType
<1>2. \A q \in Request : base'[q] = base[q] \/ base'[q] = handled
  BY StepReferences DEF ReadCursor
<1>. QED
  BY <1>1, <1>2 DEF BaseBehind

\* The steps between a gathered group and its publication.
LEMMA GroupFrame ==
  ASSUME TypeOK, NEW r \in Request, Advance(r) \/ Environment(r)
  PROVE  \A q \in Request : pc'[q] \in {"judge", "write", "publish"} =>
           /\ base'[q] = base[q]
           /\ \/ group'[q] = PendingAfter(base[q])
              \/ group'[q] = group[q] /\ pc[q] \in {"judge", "write", "publish"}
<1>. pc \in [Request -> Places] /\ base \in [Request -> 0..Len(rows)]
     /\ group \in [Request -> SUBSET (1..Len(rows))]
  BY DEF TypeOK
<1>1. CASE ReadCursor(r)
  BY <1>1 DEF ReadCursor, Goto
<1>2. CASE ReadPending(r)
  BY <1>2 DEF ReadPending, Goto
<1>3. CASE ~ReadCursor(r) /\ ~ReadPending(r)
  <2>1. base' = base /\ group' = group
    BY <1>3, StepReferences
  <2>2. \A q \in Request : pc'[q] \in {"judge", "write", "publish"} =>
                           pc[q] \in {"judge", "write", "publish"}
    BY <1>3 DEF Advance, Environment, Arrive, Refuse, Acquire, TurnAway, AppendUser,
         NothingHeld, Judge, RejectAttempt, Compose, GiveUp,
         RunFails, PublishSuperseded, PublishWait, PublishNoReply, PublishReply,
         PublishFallback, PublishFails, RecordError, ReleaseGroup, MissRelease, Retag,
         MissRetag, Cut, Mishap, AfterRelease, Finish, Goto
  <2>. QED
    BY <2>1, <2>2
<1>. QED
  BY <1>1, <1>2, <1>3

\* A USER row of the next state is one of this state, or new at the end.
LEMMA UserRows ==
  ASSUME TypeOK, NEW r \in Request, Effects(r)
  PROVE  \A i \in DOMAIN rows' : rows'[i] = "user" =>
           \/ i \in DOMAIN rows /\ rows[i] = "user"
           \/ i > Len(rows)
<1>. rows \in Seq(Sender) /\ Len(rows) \in Nat
  BY DEF TypeOK
<1>1. CASE PublishReply(r)
  BY <1>1 DEF PublishReply, Sender
<1>2. CASE PublishFallback(r)
  <2>1. PICK S : rows' = Append(Released(S), "system")
    BY <1>2 DEF PublishFallback
  <2>. QED
    BY <2>1, ReleasedType DEF Sender
<1>3. CASE ~PublishReply(r) /\ ~PublishFallback(r)
  <2>1. rows' \in Seq(Sender) /\ Len(rows') \in Nat
    BY DbType
  <2>. QED
    BY <1>3, <2>1, RowsOtherwise
<1>. QED
  BY <1>1, <1>2, <1>3

LEMMA GroupStep ==
  ASSUME TypeOK, GroupWhole, NEW r \in Request, Advance(r) \/ Environment(r)
  PROVE  GroupWhole'
<1>. /\ rows \in Seq(Sender) /\ Len(rows) \in Nat
     /\ group \in [Request -> SUBSET (1..Len(rows))] /\ base \in [Request -> 0..Len(rows)]
  BY DEF TypeOK
<1>. SUFFICES ASSUME NEW q \in Request, pc'[q] \in {"judge", "write", "publish"},
                     NEW i \in PendingAfter(base[q])', i <= Newest(group[q])'
              PROVE  i \in group'[q]
  BY DEF GroupWhole
<1>1. Effects(r)
  BY StepEffects
<1>2. /\ base'[q] = base[q] /\ base[q] \in Int
      /\ \/ group'[q] = PendingAfter(base[q])
         \/ group'[q] = group[q] /\ pc[q] \in {"judge", "write", "publish"}
  BY GroupFrame
<1>3. group'[q] \in SUBSET (1..Len(rows))
  BY <1>2, PendingType
<1>4. Newest(group'[q]) \in 0..Len(rows)
  BY <1>3, NewestType
<1>5. i \in DOMAIN rows' /\ i > base[q] /\ rows'[i] = "user" /\ i <= Newest(group'[q])
  BY <1>2 DEF PendingAfter, Newest
<1>6. i \in 1..Len(rows) /\ rows[i] = "user"
  <2>1. rows' \in Seq(Sender) /\ Len(rows') \in Nat /\ i \in Int
    BY <1>1, <1>5, DbType
  <2>. QED
    BY <1>1, <1>4, <1>5, <2>1, UserRows
<1>7. i \in PendingAfter(base[q])
  BY <1>2, <1>5, <1>6, PendingType
<1>. QED
  BY <1>2, <1>5, <1>7 DEF GroupWhole

\* What a run may publish covers every message it moves the cursor over.
LEMMA GroupCovers ==
  ASSUME TypeOK, BaseBehind, GroupWhole, NEW r \in Request, pc[r] = "publish"
  PROVE  \A i \in 1..Len(rows) :
           rows[i] = "user" /\ i > handled /\ i <= Newest(group[r]) => i \in group[r]
<1>. /\ rows \in Seq(Sender) /\ Len(rows) \in Nat /\ handled \in Int
     /\ base[r] \in 0..Len(rows) /\ base[r] \in Int
  BY DEF TypeOK
<1>. SUFFICES ASSUME NEW i \in 1..Len(rows), rows[i] = "user", i > handled,
                     i <= Newest(group[r])
              PROVE  i \in group[r]
  OBVIOUS
<1>1. i > base[r]
  BY DEF BaseBehind
<1>2. i \in PendingAfter(base[r])
  BY <1>1, PendingType
<1>. QED
  BY <1>2 DEF GroupWhole

LEMMA SkippedStep ==
  ASSUME TypeOK, BaseBehind, GroupWhole, NothingSkipped,
         NEW r \in Request, Advance(r) \/ Environment(r)
  PROVE  NothingSkipped'
<1>. /\ rows \in Seq(Sender) /\ Len(rows) \in Nat /\ handled \in 0..Len(rows)
     /\ group[r] \in SUBSET (1..Len(rows))
  BY DEF TypeOK
<1>1. Effects(r)
  BY StepEffects
<1>2. /\ rows' \in Seq(Sender) /\ Len(rows') \in Nat /\ Len(rows') >= Len(rows)
      /\ handled' \in 0..Len(rows') /\ handled' >= handled
  BY <1>1, DbType
<1>3. Answered \subseteq Answered' /\ ignored \subseteq ignored'
  BY StepReferences DEF PublishReply, PublishNoReply, Answered
<1>. SUFFICES ASSUME NEW i \in 1..handled', rows'[i] = "user"
              PROVE  i \in Answered' \cup ignored'
  BY DEF NothingSkipped
<1>4. i \in DOMAIN rows' /\ i \in Int
  BY <1>2
<1>5. CASE i \in 1..handled
  <2>1. i \in 1..Len(rows)
    BY <1>5
  <2>2. i \in DOMAIN rows /\ rows[i] = "user"
    BY <1>1, <1>4, <2>1, UserRows
  <2>. QED
    BY <1>3, <1>5, <2>2 DEF NothingSkipped
<1>6. CASE i > handled
  <2>1. Newest(group[r]) \in 0..Len(rows)
    BY NewestType
  <2>2. CASE PublishNoReply(r)
    <3>1. handled' = Newest(group[r]) /\ rows' = rows
      BY <1>6, <2>1, <2>2 DEF PublishNoReply, MarkHandled
    <3>2. i \in group[r]
      BY <1>6, <2>1, <2>2, <3>1, GroupCovers DEF PublishNoReply
    <3>. QED
      BY <2>2, <3>2 DEF PublishNoReply
  <2>3. CASE PublishReply(r)
    <3>1. handled' = Newest(group[r])
      BY <1>6, <2>1, <2>3 DEF PublishReply, MarkHandled
    <3>2. i \in 1..Len(rows) /\ rows[i] = "user"
      BY <1>1, <1>4, <2>1, <3>1, UserRows
    <3>3. i \in group[r]
      BY <1>6, <2>1, <2>3, <3>1, <3>2, GroupCovers DEF PublishReply
    <3>. DEFINE new == [at |-> Len(rows) + 1, to |-> group[r]]
    <3>4. new \in delivered' /\ i \in new.to
      BY <2>3, <3>3 DEF PublishReply
    <3>. HIDE DEF new
    <3>5. i \in UNION {d.to : d \in delivered'}
      BY <3>4
    <3>. QED
      BY <3>5 DEF Answered
  <2>4. CASE PublishFallback(r)
    <3>1. handled' = Newest(group[r])
      BY <1>6, <2>1, <2>4 DEF PublishFallback, MarkHandled
    <3>2. i \in 1..Len(rows) /\ rows[i] = "user"
      BY <1>1, <1>4, <2>1, <3>1, UserRows
    <3>. DEFINE failed == {k \in PendingAfter(handled) : k <= Newest(group[r])}
    <3>3. i \in failed
      BY <1>6, <3>1, <3>2, PendingType
    <3>4. rows' = Append(Released(failed), "system")
      BY <2>4 DEF PublishFallback
    <3>5. /\ Released(failed) \in Seq(Sender) /\ Len(Released(failed)) = Len(rows)
          /\ Released(failed)[i] = "unanswered"
      BY <3>2, <3>3, ReleasedType
    <3>6. rows'[i] = "unanswered"
      BY <3>2, <3>4, <3>5 DEF Sender
    <3>. QED
      BY <3>6
  <2>5. CASE ReleaseGroup(r)
    <3>. DEFINE pending == PendingAfter(handled)
    <3>1. /\ pending \in SUBSET (1..Len(rows)) /\ Newest(pending) \in 0..Len(rows)
          /\ \A k \in pending : k <= Newest(pending)
      BY PendingType, NewestType
    <3>2. handled' = Newest(pending) /\ rows' = Released(pending)
      BY <1>6, <2>5, <3>1 DEF ReleaseGroup, MarkHandled
    <3>3. i \in 1..Len(rows) /\ rows[i] = "user"
      BY <1>1, <1>4, <3>1, <3>2, UserRows
    <3>4. i \in pending
      BY <1>6, <3>3, PendingType
    <3>. QED
      BY <3>2, <3>3, <3>4, ReleasedType
  <2>6. CASE handled' = handled
    BY <1>6, <2>6
  <2>. QED
    BY <1>1, <2>2, <2>3, <2>4, <2>5, <2>6 DEF Effects, Retag
<1>. QED
  BY <1>4, <1>5, <1>6

\* The messages a suspended run has gathered, and the cursor it has read,
\* justify wherever its publication will move the cursor: every USER row at or
\* below last_handled_index was in the group of a published reply or no_reply.
THEOREM CursorSkipsNothing == Spec => []NothingSkipped
<1>. DEFINE Inv == BaseBehind /\ GroupWhole /\ NothingSkipped
<1>1. Init => Inv
  <2>. SUFFICES ASSUME Init PROVE Inv
    OBVIOUS
  <2>1. BaseBehind /\ GroupWhole
    BY DEF Init, BaseBehind, GroupWhole
  <2>2. 1..handled = {}
    BY DEF Init
  <2>. QED
    BY <2>1, <2>2 DEF NothingSkipped
<1>2. TypeOK /\ Inv /\ [Next]_vars => Inv'
  <2>. SUFFICES ASSUME TypeOK, Inv, [Next]_vars PROVE Inv'
    OBVIOUS
  <2>1. ASSUME NEW r \in Request, Advance(r) \/ Environment(r) PROVE Inv'
    BY <2>1, BaseStep, GroupStep, SkippedStep
  <2>2. CASE LoseLock \/ UNCHANGED vars
    <3>1. UNCHANGED <<rows, handled, pc, base, group, delivered, ignored>>
      BY <2>2 DEF LoseLock, vars, db, context, history
    <3>. QED
      BY <3>1 DEF BaseBehind, GroupWhole, NothingSkipped, PendingAfter, Newest, Answered
  <2>. QED
    BY <2>1, <2>2 DEF Next, AllDone
<1>3. Inv => NothingSkipped
  OBVIOUS
<1>. QED
  BY <1>1, <1>2, <1>3, TypeCorrect, PTL DEF Spec

(***************************************************************************)
(* The cursor makes publishing a group twice a no-op.                      *)
(***************************************************************************)

\* The cursor is at or past the newest message of everything replied to.
RepliesBehind == \A d \in delivered : Newest(d.to) <= handled

LEMMA SameGroupStep ==
  ASSUME TypeOK, RepliesBehind, SameGroupOnce,
         NEW r \in Request, Advance(r) \/ Environment(r)
  PROVE  RepliesBehind' /\ SameGroupOnce'
<1>. /\ Len(rows) \in Nat /\ handled \in 0..Len(rows)
     /\ group[r] \in SUBSET (1..Len(rows))
     /\ delivered \subseteq [at : 1..Len(rows), to : SUBSET (1..Len(rows))]
  BY DEF TypeOK
<1>1. handled' \in Int /\ handled' >= handled
  BY StepEffects, DbType
<1>2. \A d \in delivered : Newest(d.to) \in 0..Len(rows)
  BY NewestType
<1>3. CASE delivered' = delivered
  BY <1>1, <1>2, <1>3 DEF RepliesBehind, SameGroupOnce, Newest
<1>4. CASE PublishReply(r)
  <2>. DEFINE through == Newest(group[r])
              new == [at |-> Len(rows) + 1, to |-> group[r]]
  <2>1. through \in 0..Len(rows) /\ (group[r] # {} => through > 0)
    BY NewestType
  <2>2. delivered' = delivered \cup {new} /\ handled' >= through
    BY <1>4, <2>1 DEF PublishReply, MarkHandled
  <2>3. through > 0 => handled < through
    BY <1>4, <2>1 DEF PublishReply, Superseded
  <2>4. \A d \in delivered : Newest(d.to) <= handled
    BY DEF RepliesBehind
  <2>5. \A d \in delivered' : Newest(d.to) <= handled'
    BY <1>1, <1>2, <2>1, <2>2, <2>4
  <2>6. \A d \in delivered : group[r] # {} => Newest(d.to) # Newest(new.to)
    BY <1>2, <2>1, <2>3, <2>4
  <2>7. \A d \in delivered : d.to # {} => Newest(d.to) # Newest(new.to)
    <3>. SUFFICES ASSUME NEW d \in delivered, d.to # {}, group[r] = {}
                  PROVE  Newest(d.to) # 0
      BY <2>6 DEF Newest
    <3>1. Newest(d.to) \in d.to /\ d.to \in SUBSET (1..Len(rows))
      BY NewestType
    <3>. QED
      BY <3>1
  <2>8. \A d, e \in delivered' : d # e /\ d.to # {} => Newest(d.to) # Newest(e.to)
    BY <2>2, <2>6, <2>7 DEF SameGroupOnce
  <2>. QED
    BY <2>5, <2>8 DEF RepliesBehind, SameGroupOnce, Newest
<1>. QED
  BY <1>3, <1>4, StepReferences

\* Two replies never answer up to the same message, even when the run that
\* publishes second had lost its lock to the first.
THEOREM GroupsAnsweredOnce == Spec => []SameGroupOnce
<1>. DEFINE Inv == RepliesBehind /\ SameGroupOnce
<1>1. Init => Inv
  BY DEF Init, RepliesBehind, SameGroupOnce
<1>2. TypeOK /\ Inv /\ [Next]_vars => Inv'
  <2>. SUFFICES ASSUME TypeOK, Inv, [Next]_vars PROVE Inv'
    OBVIOUS
  <2>1. ASSUME NEW r \in Request, Advance(r) \/ Environment(r) PROVE Inv'
    BY <2>1, SameGroupStep
  <2>2. CASE LoseLock \/ UNCHANGED vars
    <3>1. UNCHANGED <<handled, delivered>>
      BY <2>2 DEF LoseLock, vars, db, history
    <3>. QED
      BY <3>1 DEF RepliesBehind, SameGroupOnce, Newest
  <2>. QED
    BY <2>1, <2>2 DEF Next, AllDone
<1>3. Inv => SameGroupOnce
  OBVIOUS
<1>. QED
  BY <1>1, <1>2, <1>3, TypeCorrect, PTL DEF Spec
=============================================================================
