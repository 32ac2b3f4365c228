------------------------- MODULE LockedTurnsProofs -------------------------
(***************************************************************************)
(* What the advisory lock of session_work.py buys: as long as no           *)
(* connection that holds it has been lost, the turns of a conversation     *)
(* work one after the other, and what a turn read before the models is     *)
(* still so when it publishes. Proved for every number of requests and     *)
(* workers, and every number of cancellations and failed writes.           *)
(***************************************************************************)
EXTENDS ChatTurnsProofs

(***************************************************************************)
(* The invariant.                                                          *)
(***************************************************************************)

\* Whoever works holds the advisory lock; so one request works at a time.
Serial == \A r \in Request : pc[r] \in Working => holder = r

\* A request that stored its message owns that row, and nobody else does.
Ownership ==
  /\ \A r \in Request : own[r] # 0 => rows[own[r]] \in {"user", "unanswered"}
  /\ \A r \in Request : pc[r] \in Waiting \cup {"idle", "locked", "release"} => own[r] = 0
  /\ \A r, q \in Request : own[r] = own[q] /\ own[r] # 0 => r = q

\* The places of a turn whose message waits for its fate.
Undecided == Running \cup {"publish", "record", "discard"}

\* What a working request has read is what the database says, and its own
\* message is pending until the turn settles it.
Fits(r) ==
  /\ pc[r] = "rows" => base[r] = handled
  /\ pc[r] \in {"judge", "write", "publish"} => group[r] = PendingAfter(handled)
  /\ kind[r] = "message" /\ pc[r] \in Undecided => own[r] \in PendingAfter(handled)
  /\ pc[r] = "retag" =>
       /\ kind[r] = "message" /\ own[r] # 0
       /\ \/ rows[own[r]] = "unanswered"
          \/ own[r] \in PendingAfter(handled) /\ "release" \in missed[r]

WorkFits == \A r \in Request : Fits(r)

\* What was answered or ignored stays below the cursor, in the conversation.
Settled == \A i \in Answered \cup ignored : i <= handled /\ rows[i] = "user"

\* The response is the last thing a request makes.
Untold == \A r \in Request : pc[r] # "done" => told[r] = "none"

LockedInv == Serial /\ Ownership /\ WorkFits /\ Settled /\ Untold

(***************************************************************************)
(* What a step does to the messages.                                       *)
(***************************************************************************)

\* The rows stay and no message is added, nor is the history.
Keeps ==
  /\ Len(rows') >= Len(rows)
  /\ \A i \in 1..Len(rows) : rows'[i] = rows[i]
  /\ \A i \in 1..Len(rows') : i > Len(rows) => rows'[i] # "user"
  /\ UNCHANGED <<handled, delivered, ignored>>

\* Everything that is pending gets the fate f, and nothing else changes its own.
SettlesAs(f) ==
  /\ Len(rows') >= Len(rows)
  /\ \A i \in 1..Len(rows) :
       rows'[i] = IF f = "dropped" /\ i \in PendingAfter(handled)
                  THEN "unanswered" ELSE rows[i]
  /\ \A i \in 1..Len(rows') : i > Len(rows) => rows'[i] # "user"
  /\ handled' >= handled /\ \A i \in PendingAfter(handled) : i <= handled'
  /\ Answered' = IF f = "answered" THEN Answered \cup PendingAfter(handled) ELSE Answered
  /\ ignored' = IF f = "ignored" THEN ignored \cup PendingAfter(handled) ELSE ignored

\* A turn that publishes, or releases the group, settles all that is pending.
LEMMA SettlingSteps ==
  ASSUME TypeOK, NEW r \in Request, Fits(r)
  PROVE  /\ PublishReply(r) => SettlesAs("answered")
         /\ PublishNoReply(r) => SettlesAs("ignored")
         /\ PublishFallback(r) \/ ReleaseGroup(r) => SettlesAs("dropped")
<1>. /\ rows \in Seq(Sender) /\ Len(rows) \in Nat /\ handled \in 0..Len(rows)
  BY DEF TypeOK
<1>. DEFINE P == PendingAfter(handled)
<1>1. P \in SUBSET (1..Len(rows)) /\ Newest(P) \in 0..Len(rows) /\ \A i \in P : i <= Newest(P)
  BY PendingType, NewestType
<1>2. ASSUME PublishReply(r) PROVE SettlesAs("answered")
  <2>1. group[r] = P /\ handled' >= handled /\ \A i \in P : i <= handled'
    BY <1>1, <1>2 DEF PublishReply, MarkHandled, Fits
  <2>2. /\ Len(rows') >= Len(rows) /\ \A i \in 1..Len(rows) : rows'[i] = rows[i]
        /\ \A i \in 1..Len(rows') : i > Len(rows) => rows'[i] # "user"
    BY <1>2 DEF PublishReply, Sender
  <2>3. Answered' = Answered \cup P
    <3>. DEFINE new == [at |-> Len(rows) + 1, to |-> group[r]]
    <3>1. delivered' = delivered \cup {new} /\ new.to = P
      BY <1>2, <2>1 DEF PublishReply
    <3>. HIDE DEF new, P
    <3>. QED
      BY <3>1 DEF Answered
  <2>. QED
    BY <1>2, <2>1, <2>2, <2>3 DEF PublishReply, SettlesAs
<1>3. ASSUME PublishNoReply(r) PROVE SettlesAs("ignored")
  <2>1. group[r] = P /\ handled' >= handled /\ \A i \in P : i <= handled'
    BY <1>1, <1>3 DEF PublishNoReply, MarkHandled, Fits
  <2>. QED
    BY <1>3, <2>1 DEF PublishNoReply, SettlesAs, Answered
<1>4. ASSUME PublishFallback(r) PROVE SettlesAs("dropped")
  <2>1. group[r] = P /\ handled' >= handled /\ \A i \in P : i <= handled'
    BY <1>1, <1>4 DEF PublishFallback, MarkHandled, Fits
  <2>2. rows' = Append(Released(P), "system")
    <3>1. {i \in P : i <= Newest(group[r])} = P
      BY <1>1, <2>1
    <3>. QED
      BY <1>4, <3>1 DEF PublishFallback
  <2>3. /\ Released(P) \in Seq(Sender) /\ Len(Released(P)) = Len(rows)
        /\ \A i \in 1..Len(rows) : Released(P)[i] = IF i \in P THEN "unanswered" ELSE rows[i]
    BY ReleasedType
  <2>. HIDE DEF P
  <2>4. /\ Len(rows') >= Len(rows)
        /\ \A i \in 1..Len(rows) : rows'[i] = IF i \in P THEN "unanswered" ELSE rows[i]
        /\ \A i \in 1..Len(rows') : i > Len(rows) => rows'[i] # "user"
    BY <2>2, <2>3 DEF Sender
  <2>. QED
    BY <1>4, <2>1, <2>4 DEF PublishFallback, SettlesAs, Answered, history, P
<1>5. ASSUME ReleaseGroup(r) PROVE SettlesAs("dropped")
  <2>1. handled' >= handled /\ \A i \in P : i <= handled'
    BY <1>1, <1>5 DEF ReleaseGroup, MarkHandled
  <2>2. rows' = Released(P)
    BY <1>5 DEF ReleaseGroup
  <2>3. /\ Len(Released(P)) = Len(rows)
        /\ \A i \in 1..Len(rows) : Released(P)[i] = IF i \in P THEN "unanswered" ELSE rows[i]
    BY ReleasedType
  <2>. QED
    BY <1>5, <2>1, <2>2, <2>3 DEF ReleaseGroup, SettlesAs, Answered, history
<1>. QED
  BY <1>2, <1>3, <1>4, <1>5

\* The ways in which a turn that holds the lock moves the messages.
LEMMA LockedEffects ==
  ASSUME TypeOK, NEW r \in Request, Fits(r), Advance(r) \/ Environment(r)
  PROVE  \/ Keeps \/ AppendUser(r) \/ Retag(r)
         \/ \E f \in {"answered", "ignored", "dropped"} : SettlesAs(f)
<1>. rows \in Seq(Sender) /\ Len(rows) \in Nat
  BY DEF TypeOK
<1>1. CASE UNCHANGED <<rows, handled, delivered, ignored>>
  BY <1>1 DEF Keeps
<1>2. CASE /\ \E s \in {"regen", "error"} : rows' = Append(rows, s)
           /\ UNCHANGED <<handled, delivered, ignored>>
  BY <1>2 DEF Keeps, Sender
<1>3. \/ UNCHANGED <<rows, handled, delivered, ignored>>
      \/ /\ \E s \in {"regen", "error"} : rows' = Append(rows, s)
         /\ UNCHANGED <<handled, delivered, ignored>>
      \/ AppendUser(r)
      \/ PublishReply(r) \/ PublishNoReply(r) \/ PublishFallback(r) \/ ReleaseGroup(r)
      \/ Retag(r)
  BY DEF Advance, Environment, Arrive, Refuse, Acquire, TurnAway,
         ReadCursor, NothingHeld, ReadPending, Judge, RejectAttempt, Compose, GiveUp,
         RunFails, PublishSuperseded, PublishWait, PublishFails, RecordError,
         MissRelease, MissRetag, Cut, Mishap, db, history
<1>. QED
  BY <1>1, <1>2, <1>3, SettlingSteps

\* What Retag does to the rows.
LEMMA RetagEffect ==
  ASSUME TypeOK, NEW r \in Request, Retag(r)
  PROVE  /\ Len(rows') = Len(rows)
         /\ \A i \in 1..Len(rows) : rows'[i] = IF i = own[r] THEN "unanswered" ELSE rows[i]
         /\ UNCHANGED <<handled, delivered, ignored>>
BY ReleasedType DEF TypeOK, Retag, history

\* What AppendUser does to them.
LEMMA AppendEffect ==
  ASSUME TypeOK, NEW r \in Request, AppendUser(r)
  PROVE  /\ Len(rows') = Len(rows) + 1 /\ own'[r] = Len(rows) + 1
         /\ \A i \in 1..Len(rows) : rows'[i] = rows[i]
         /\ rows'[Len(rows) + 1] = "user"
         /\ UNCHANGED <<handled, delivered, ignored>>
BY DEF TypeOK, AppendUser, history, Sender

(***************************************************************************)
(* What a step of one request leaves to the others.                        *)
(***************************************************************************)

LEMMA OthersKeep ==
  ASSUME TypeOK, NEW r \in Request, Advance(r) \/ Environment(r),
         NEW q \in Request, q # r
  PROVE  /\ pc'[q] = pc[q] /\ told'[q] = told[q]
         /\ kind'[q] = kind[q] /\ own'[q] = own[q] /\ base'[q] = base[q]
         /\ group'[q] = group[q] /\ missed'[q] = missed[q]
<1>1. pc'[q] = pc[q] /\ told'[q] = told[q]
  <2>1. pc \in [Request -> Places] /\ told \in [Request -> Answers]
    BY DEF TypeOK
  <2>2. \/ UNCHANGED <<pc, told>>
        \/ /\ \E p : pc' = [pc EXCEPT ![r] = p]
           /\ told' = told \/ \E a : told' = [told EXCEPT ![r] = a]
    BY StepMoves DEF Moves, Finish, Goto
  <2>. QED
    BY <2>1, <2>2
<1>2. /\ kind' = kind \/ Arrive(r) \/ Refuse(r)
      /\ missed' = missed \/ MissRelease(r) \/ MissRetag(r)
  BY DEF Advance, Environment, Arrive, Refuse, Acquire, TurnAway, AppendUser,
         ReadCursor, NothingHeld, ReadPending, Judge, RejectAttempt, Compose, GiveUp,
         RunFails, PublishSuperseded, PublishWait, PublishNoReply, PublishReply,
         PublishFallback, PublishFails, RecordError, ReleaseGroup, MissRelease, Retag,
         MissRetag, Cut, Mishap, context
<1>3. kind'[q] = kind[q] /\ missed'[q] = missed[q]
  BY <1>2 DEF TypeOK, Arrive, Refuse, MissRelease, MissRetag
<1>4. own'[q] = own[q] /\ base'[q] = base[q] /\ group'[q] = group[q]
  BY StepReferences DEF TypeOK, AppendUser, ReadCursor, ReadPending
<1>. QED
  BY <1>1, <1>3, <1>4

\* Who may take and give back the advisory lock.
LEMMA LockMoves ==
  ASSUME TypeOK, NEW r \in Request, Advance(r) \/ Environment(r)
  PROVE  /\ holder' = holder \/ holder = r \/ (holder = None /\ holder' = r)
         /\ pc'[r] \in Working => holder' = r \/ (pc[r] \in Working /\ holder' = holder)
<1>. pc \in [Request -> Places]
  BY DEF TypeOK
<1>. "done" \notin Working /\ Waiting \cap Working = {}
  BY DEF Working, Running, Recovering, Waiting
<1>1. CASE \E a \in Answers : Finish(r, a)
  BY <1>1 DEF Finish, Goto
<1>2. CASE ~\E a \in Answers : Finish(r, a)
  <2>1. \/ Acquire(r)
        \/ holder' = holder /\ (pc'[r] \in Waiting \/ pc[r] \in Working)
    BY <1>2 DEF Advance, Environment, Arrive, Refuse, Acquire, TurnAway, AppendUser,
         ReadCursor, NothingHeld, ReadPending, Judge, RejectAttempt, Compose, GiveUp,
         RunFails, PublishSuperseded, PublishWait, PublishNoReply, PublishReply,
         PublishFallback, PublishFails, RecordError, ReleaseGroup, MissRelease, Retag,
         MissRetag, Cut, Mishap, AfterRelease, Goto, locks, Answers, Working, Running,
         Recovering, Waiting
  <2>. QED
    BY <2>1 DEF Acquire
<1>. QED
  BY <1>1, <1>2

LEMMA SerialStep ==
  ASSUME TypeOK, Serial, NEW r \in Request, Advance(r) \/ Environment(r)
  PROVE  Serial'
<1>. SUFFICES ASSUME NEW q \in Request, pc'[q] \in Working PROVE holder' = q
  BY DEF Serial
<1>1. CASE q = r
  BY <1>1, LockMoves DEF Serial
<1>2. CASE q # r
  <2>1. pc[q] \in Working /\ holder = q
    BY <1>2, OthersKeep DEF Serial
  <2>. QED
    BY <1>2, <2>1, LockMoves, NoneIsNoRequest
<1>. QED
  BY <1>1, <1>2

\* A request that does not work leaves the messages and the history alone.
LEMMA IdlersKeep ==
  ASSUME TypeOK, NEW r \in Request, Advance(r) \/ Environment(r), pc[r] \notin Working
  PROVE  UNCHANGED <<rows, handled, delivered, ignored>>
BY DEF Advance, Environment, Arrive, Refuse, Acquire, TurnAway, AppendUser,
       ReadCursor, NothingHeld, ReadPending, Judge, RejectAttempt, Compose, GiveUp,
       RunFails, PublishSuperseded, PublishWait, PublishNoReply, PublishReply,
       PublishFallback, PublishFails, RecordError, ReleaseGroup, MissRelease, Retag,
       MissRetag, Cut, Mishap, db, history, Working, Running, Recovering

\* While a request works, the others leave the messages alone.
LEMMA WorkIsUndisturbed ==
  ASSUME TypeOK, Serial, NEW r \in Request, Advance(r) \/ Environment(r),
         NEW q \in Request, q # r, pc[q] \in Working
  PROVE  UNCHANGED <<rows, handled, delivered, ignored>>
BY IdlersKeep DEF Serial

(***************************************************************************)
(* Each part of the invariant is kept.                                     *)
(***************************************************************************)

\* A row is never altered, but for becoming UNANSWERED_USER.
LEMMA RowsLast ==
  ASSUME TypeOK, WorkFits, NEW r \in Request, Advance(r) \/ Environment(r)
  PROVE  \A i \in 1..Len(rows) : rows'[i] \in {rows[i], "unanswered"}
BY LockedEffects, RetagEffect, AppendEffect DEF WorkFits, Keeps, SettlesAs

LEMMA OwnershipStep ==
  ASSUME TypeOK, WorkFits, Ownership, NEW r \in Request, Advance(r) \/ Environment(r)
  PROVE  Ownership'
<1>. own \in [Request -> 0..Len(rows)] /\ Len(rows) \in Nat /\ pc \in [Request -> Places]
  BY DEF TypeOK
<1>1. \A i \in 1..Len(rows) : rows'[i] \in {rows[i], "unanswered"}
  BY RowsLast
<1>2. CASE ~AppendUser(r)
  <2>1. own' = own
    BY <1>2, StepReferences
  <2>2. \A q \in Request : own'[q] # 0 => rows'[own'[q]] \in {"user", "unanswered"}
    BY <1>1, <2>1 DEF Ownership
  <2>3. ASSUME NEW q \in Request, pc'[q] \in Waiting \cup {"idle", "locked", "release"}
        PROVE  own'[q] = 0
    <3>1. pc[q] \in Waiting \cup {"idle", "locked", "release"}
      <4>1. CASE q # r
        BY <2>3, <4>1, OthersKeep
      <4>2. CASE q = r
        BY <1>2, <2>3, <4>2 DEF Advance, Environment, Arrive, Refuse, Acquire, TurnAway,
           ReadCursor, NothingHeld, ReadPending, Judge, RejectAttempt, Compose, GiveUp,
           RunFails, PublishSuperseded, PublishWait, PublishNoReply, PublishReply,
           PublishFallback, PublishFails, RecordError, ReleaseGroup, MissRelease, Retag,
           MissRetag, Cut, AfterRelease, Finish, Goto, Waiting, Working
      <4>. QED
        BY <4>1, <4>2
    <3>. QED
      BY <2>1, <3>1 DEF Ownership
  <2>. QED
    BY <2>1, <2>2, <2>3 DEF Ownership
<1>3. CASE AppendUser(r)
  <2>1. /\ own' = [own EXCEPT ![r] = Len(rows) + 1] /\ pc' = [pc EXCEPT ![r] = "cursor"]
        /\ rows'[Len(rows) + 1] = "user"
    BY <1>3, AppendEffect DEF AppendUser, Goto
  <2>2. "cursor" \notin Waiting \cup {"idle", "locked", "release"}
    BY DEF Waiting
  <2>. QED
    BY <1>1, <2>1, <2>2 DEF Ownership
<1>. QED
  BY <1>2, <1>3

\* Review rows are not messages.
LEMMA PendingKept ==
  ASSUME TypeOK, handled' = handled,
         rows' = rows \/ \E s \in {"regen", "error"} : rows' = Append(rows, s)
  PROVE  PendingAfter(handled)' = PendingAfter(handled)
<1>. rows \in Seq(Sender) /\ Len(rows) \in Nat
  BY DEF TypeOK
<1>1. CASE rows' = rows
  BY <1>1 DEF PendingAfter
<1>2. CASE \E s \in {"regen", "error"} : rows' = Append(rows, s)
  BY <1>2 DEF PendingAfter, Sender
<1>. QED
  BY <1>1, <1>2

LEMMA FitsStepOthers ==
  ASSUME TypeOK, Serial, WorkFits, NEW r \in Request, Advance(r) \/ Environment(r),
         NEW q \in Request, q # r
  PROVE  Fits(q)'
<1>1. /\ pc'[q] = pc[q] /\ kind'[q] = kind[q] /\ own'[q] = own[q]
      /\ base'[q] = base[q] /\ group'[q] = group[q] /\ missed'[q] = missed[q]
  BY OthersKeep
<1>2. CASE pc[q] \notin Working
  BY <1>1, <1>2 DEF Fits, Undecided, Working, Running, Recovering
<1>3. CASE pc[q] \in Working
  <2>1. UNCHANGED <<rows, handled>>
    BY <1>3, WorkIsUndisturbed
  <2>2. PendingAfter(handled)' = PendingAfter(handled)
    BY <2>1 DEF PendingAfter
  <2>. QED
    BY <1>1, <2>1, <2>2 DEF Fits, WorkFits
<1>. QED
  BY <1>2, <1>3

LEMMA FitsStepOwn ==
  ASSUME TypeOK, Ownership, WorkFits, NEW r \in Request, Advance(r) \/ Environment(r)
  PROVE  Fits(r)'
<1>. /\ rows \in Seq(Sender) /\ Len(rows) \in Nat /\ handled \in 0..Len(rows)
     /\ pc \in [Request -> Places] /\ own \in [Request -> 0..Len(rows)]
     /\ base \in [Request -> 0..Len(rows)] /\ kind \in [Request -> Kinds]
     /\ group \in [Request -> SUBSET (1..Len(rows))]
     /\ missed \in [Request -> SUBSET {"release", "retag"}]
  BY DEF TypeOK
<1>. Fits(r)
  BY DEF WorkFits
<1>. DEFINE P == PendingAfter(handled)
<1>1. CASE AppendUser(r)
  <2>1. pc'[r] = "cursor" /\ own'[r] = Len(rows) + 1
    BY <1>1 DEF AppendUser, Goto
  <2>2. own'[r] \in PendingAfter(handled)'
    BY <1>1, <2>1, AppendEffect DEF PendingAfter
  <2>. QED
    BY <2>1, <2>2 DEF Fits
<1>2. CASE ReadCursor(r)
  <2>1. /\ pc'[r] = "rows" /\ base'[r] = handled /\ UNCHANGED <<rows, handled, kind, own>>
        /\ pc[r] = "cursor" \/ kind[r] = "continue"
    BY <1>2 DEF ReadCursor, Goto, db
  <2>2. PendingAfter(handled)' = P
    BY <2>1 DEF PendingAfter
  <2>. QED
    BY <2>1, <2>2 DEF Fits, Undecided, Running
<1>3. CASE ReadPending(r)
  <2>1. /\ pc'[r] = "judge" /\ group'[r] = PendingAfter(base[r]) /\ base[r] = handled
        /\ pc[r] = "rows" /\ UNCHANGED <<rows, handled, kind, own>>
    BY <1>3 DEF ReadPending, Goto, db, Fits
  <2>2. PendingAfter(handled)' = P
    BY <2>1 DEF PendingAfter
  <2>. QED
    BY <2>1, <2>2 DEF Fits, Undecided, Running
<1>4. CASE Judge(r) \/ RejectAttempt(r) \/ Compose(r) \/ GiveUp(r) \/ RunFails(r) \/ RecordError(r)
  <2>1. /\ rows' = rows \/ \E s \in {"regen", "error"} : rows' = Append(rows, s)
        /\ UNCHANGED <<handled, kind, own, group>>
    BY <1>4 DEF Judge, RejectAttempt, Compose, GiveUp, RunFails, RecordError, db, context
  <2>2. /\ pc'[r] \in {"write", "publish", "record", "discard"} /\ pc[r] \in Undecided
        /\ pc'[r] \in {"write", "publish"} => pc[r] \in {"judge", "write"}
    BY <1>4 DEF Judge, RejectAttempt, Compose, GiveUp, RunFails, RecordError, Goto,
                Undecided, Running
  <2>3. PendingAfter(handled)' = P
    BY <2>1, PendingKept
  <2>. QED
    BY <2>1, <2>2, <2>3 DEF Fits
<1>5. CASE pc'[r] = "retag" /\ ReleaseGroup(r)
  <2>1. pc[r] = "discard" /\ kind[r] = "message" /\ UNCHANGED <<kind, own>>
    BY <1>5 DEF ReleaseGroup, AfterRelease, Finish, Goto, context
  <2>2. own[r] \in P
    BY <2>1 DEF Fits, Undecided
  <2>3. rows' = Released(P) /\ own[r] \in 1..Len(rows)
    BY <1>5, <2>2, PendingType DEF ReleaseGroup
  <2>4. rows'[own[r]] = "unanswered"
    BY <2>2, <2>3, ReleasedType
  <2>. QED
    BY <1>5, <2>1, <2>3, <2>4 DEF Fits, Undecided, Running
<1>6. CASE pc'[r] = "retag" /\ MissRelease(r)
  <2>1. /\ pc[r] = "discard" /\ kind[r] = "message"
        /\ UNCHANGED <<rows, handled, kind, own>> /\ "release" \in missed'[r]
    BY <1>6 DEF MissRelease, AfterRelease, Finish, Goto, context, db
  <2>2. own[r] \in P /\ PendingAfter(handled)' = P
    BY <2>1 DEF Fits, Undecided, PendingAfter
  <2>3. own[r] # 0
    BY <2>2, PendingType
  <2>. QED
    BY <1>6, <2>1, <2>2, <2>3 DEF Fits, Undecided, Running
<1>7. CASE pc'[r] \notin Undecided \cup {"retag"}
  BY <1>7 DEF Fits, Undecided, Running
<1>8. \/ AppendUser(r) \/ ReadCursor(r) \/ ReadPending(r) \/ Judge(r) \/ RejectAttempt(r)
      \/ Compose(r) \/ GiveUp(r) \/ RunFails(r) \/ RecordError(r)
      \/ pc'[r] = "retag" /\ (ReleaseGroup(r) \/ MissRelease(r))
      \/ pc'[r] \notin Undecided \cup {"retag"}
  BY DEF Advance, Environment, Arrive, Refuse, Acquire, TurnAway, NothingHeld,
     PublishSuperseded, PublishWait, PublishNoReply, PublishReply, PublishFallback,
     PublishFails, ReleaseGroup, MissRelease, Retag, MissRetag, Cut, AfterRelease,
     Finish, Goto, Undecided, Running
<1>. QED
  BY <1>1, <1>2, <1>3, <1>4, <1>5, <1>6, <1>7, <1>8

LEMMA SettledStep ==
  ASSUME TypeOK, Ownership, WorkFits, Settled, NEW r \in Request, Advance(r) \/ Environment(r)
  PROVE  Settled'
<1>. /\ rows \in Seq(Sender) /\ Len(rows) \in Nat /\ handled \in 0..Len(rows)
     /\ own \in [Request -> 0..Len(rows)]
  BY DEF TypeOK
<1>. DEFINE P == PendingAfter(handled)
<1>1. \A i : i \in P <=> i \in 1..Len(rows) /\ i > handled /\ rows[i] = "user"
  BY PendingType
<1>2. Answered \cup ignored \subseteq 1..Len(rows)
  <2>1. \A d \in delivered : d.to \in SUBSET (1..Len(rows))
    BY DEF TypeOK
  <2>. QED
    BY <2>1 DEF TypeOK, Answered
<1>3. handled' \in Int /\ handled' >= handled
  BY StepEffects, DbType
<1>4. ASSUME \A i \in Answered \cup ignored : rows'[i] = "user",
             Answered' = Answered, ignored' = ignored
      PROVE  Settled'
  BY <1>2, <1>3, <1>4 DEF Settled
<1>. HIDE DEF P
<1>5. CASE Keeps \/ AppendUser(r)
  BY <1>2, <1>4, <1>5, AppendEffect DEF Keeps, Settled, Answered
<1>6. ASSUME NEW f \in {"answered", "ignored", "dropped"}, SettlesAs(f)
      PROVE  Settled'
  <2>1. \A i \in P : i \in 1..Len(rows) /\ i <= handled' /\ rows[i] = "user"
    BY <1>1, <1>6 DEF SettlesAs, P
  <2>2. \A i \in Answered \cup ignored : i \in 1..Len(rows) /\ i \notin P /\ rows[i] = "user"
    BY <1>1, <1>2 DEF Settled
  <2>3. \A i \in 1..Len(rows) :
          rows'[i] = IF f = "dropped" /\ i \in P THEN "unanswered" ELSE rows[i]
    BY <1>6 DEF SettlesAs, P
  <2>4. CASE f = "dropped"
    <3>1. Answered' = Answered /\ ignored' = ignored
      BY <1>6, <2>4 DEF SettlesAs
    <3>. QED
      BY <1>4, <2>2, <2>3, <3>1
  <2>5. CASE f # "dropped"
    <3>1. Answered' \cup ignored' \subseteq Answered \cup ignored \cup P
      BY <1>6 DEF SettlesAs, P
    <3>2. \A i \in Answered \cup ignored : i <= handled'
      BY <1>2, <1>3 DEF Settled
    <3>3. \A i \in Answered \cup ignored \cup P : i <= handled' /\ rows'[i] = "user"
      BY <2>1, <2>2, <2>3, <2>5, <3>2
    <3>. QED
      BY <3>1, <3>3 DEF Settled
  <2>. QED
    BY <2>4, <2>5
<1>7. CASE Retag(r)
  <2>1. \/ rows[own[r]] = "unanswered"
        \/ own[r] \in P
    BY <1>7 DEF Retag, WorkFits, Fits, P
  <2>2. own[r] \notin Answered \cup ignored
    BY <1>1, <1>2, <2>1 DEF Settled
  <2>3. Answered' = Answered /\ ignored' = ignored
    BY <1>7, RetagEffect DEF Answered
  <2>. QED
    BY <1>2, <1>4, <1>7, <2>2, <2>3, RetagEffect DEF Settled
<1>. QED
  BY <1>5, <1>6, <1>7, LockedEffects DEF WorkFits

LEMMA UntoldStep ==
  ASSUME TypeOK, Untold, NEW r \in Request, Advance(r) \/ Environment(r)
  PROVE  Untold' /\ told[r] = "none"
<1>. pc \in [Request -> Places] /\ told \in [Request -> Answers]
  BY DEF TypeOK
<1>1. pc[r] # "done"
  BY DEF Advance, Environment, Arrive, Refuse, Acquire, TurnAway, AppendUser,
     ReadCursor, NothingHeld, ReadPending, Judge, RejectAttempt, Compose, GiveUp,
     RunFails, PublishSuperseded, PublishWait, PublishNoReply, PublishReply,
     PublishFallback, PublishFails, RecordError, ReleaseGroup, MissRelease, Retag,
     MissRetag, Cut, Working, Running, Recovering, Waiting
<1>2. told[r] = "none"
  BY <1>1 DEF Untold
<1>3. pc'[r] = "done" \/ told'[r] = told[r]
  BY StepMoves DEF Moves, Finish, Goto
<1>4. \A q \in Request : q # r => pc'[q] = pc[q] /\ told'[q] = told[q]
  BY OthersKeep
<1>. QED
  BY <1>2, <1>3, <1>4 DEF Untold

LEMMA LockedStep ==
  ASSUME TypeOK, LockedInv, NEW r \in Request, Advance(r) \/ Environment(r)
  PROVE  LockedInv'
<1>1. WorkFits'
  <2>1. \A q \in Request : Fits(q)'
    BY FitsStepOthers, FitsStepOwn DEF LockedInv
  <2>. QED
    BY <2>1 DEF WorkFits
<1>. QED
  BY <1>1, SerialStep, OwnershipStep, SettledStep, UntoldStep DEF LockedInv

\* Nothing but LoseLock counts a loss.
LEMMA LossesStand ==
  ASSUME NEW r \in Request, Advance(r) \/ Environment(r)
  PROVE  losses' = losses
BY DEF Advance, Environment, Arrive, Refuse, Acquire, TurnAway, AppendUser,
   ReadCursor, NothingHeld, ReadPending, Judge, RejectAttempt, Compose, GiveUp,
   RunFails, PublishSuperseded, PublishWait, PublishNoReply, PublishReply,
   PublishFallback, PublishFails, RecordError, ReleaseGroup, MissRelease, Retag,
   MissRetag, Cut, Mishap, bounds

\* A step after which no loss is counted: none was counted before it, and it is
\* a step of a request.
LEMMA LossyStep ==
  ASSUME TypeOK, [Next]_vars, losses' = 0
  PROVE  /\ losses = 0
         /\ (\E r \in Request : Advance(r) \/ Environment(r)) \/ UNCHANGED vars
<1>1. CASE LoseLock
  BY <1>1 DEF LoseLock, TypeOK
<1>2. CASE \E r \in Request : Advance(r) \/ Environment(r)
  BY <1>2, LossesStand
<1>3. CASE UNCHANGED vars
  BY <1>3 DEF vars, bounds
<1>. QED
  BY <1>1, <1>2, <1>3 DEF Next, AllDone

LEMMA LockedInvariant == Spec => [](losses = 0 => LockedInv)
<1>1. Init => LockedInv
  <2>. SUFFICES ASSUME Init PROVE LockedInv
    OBVIOUS
  <2>1. Serial /\ Ownership /\ Untold
    BY DEF Init, Serial, Ownership, Untold, Working, Running, Recovering
  <2>2. WorkFits
    BY DEF Init, WorkFits, Fits, Undecided, Running
  <2>3. Answered \cup ignored = {}
    BY DEF Init, Answered
  <2>. QED
    BY <2>1, <2>2, <2>3 DEF LockedInv, Settled
<1>2. TypeOK /\ (losses = 0 => LockedInv) /\ [Next]_vars => (losses = 0 => LockedInv)'
  <2>. SUFFICES ASSUME TypeOK, losses = 0 => LockedInv, [Next]_vars, losses' = 0
                PROVE  LockedInv'
    OBVIOUS
  <2>1. LockedInv
    BY LossyStep
  <2>2. CASE UNCHANGED vars
    BY <2>1, <2>2 DEF LockedInv, Serial, Ownership, WorkFits, Fits, Settled, Untold,
       PendingAfter, Answered, vars, db, locks, context, history
  <2>. QED
    BY <2>1, <2>2, LossyStep, LockedStep
<1>. QED
  BY <1>1, <1>2, TypeCorrect, PTL DEF Spec

(***************************************************************************)
(* What follows for the visitor.                                           *)
(***************************************************************************)

LEMMA AnsweredOnceStep ==
  ASSUME TypeOK, LockedInv, AnsweredOnce, NEW r \in Request, Advance(r) \/ Environment(r)
  PROVE  AnsweredOnce'
<1>1. CASE delivered' = delivered
  BY <1>1 DEF AnsweredOnce
<1>2. CASE PublishReply(r)
  <2>. DEFINE new == [at |-> Len(rows) + 1, to |-> group[r]]
  <2>1. delivered' = delivered \cup {new} /\ new.to = PendingAfter(handled)
    BY <1>2 DEF PublishReply, LockedInv, WorkFits, Fits
  <2>2. \A i \in PendingAfter(handled) : i > handled /\ i \in Int
    BY PendingType DEF TypeOK
  <2>3. \A d \in delivered : d.to \subseteq Answered
    BY DEF Answered
  <2>4. \A d \in delivered : d.to \cap new.to = {}
    BY <2>1, <2>2, <2>3 DEF LockedInv, Settled, TypeOK
  <2>. HIDE DEF new
  <2>. QED
    BY <2>1, <2>4 DEF AnsweredOnce
<1>. QED
  BY <1>1, <1>2, StepReferences

\* As long as the advisory lock is not lost, no message is answered by two
\* persona replies: the group a turn gathered is still exactly what is pending
\* when it publishes, and everything answered before is behind the cursor.
THEOREM MessagesAreAnsweredOnce == Spec => [](losses = 0 => AnsweredOnce)
<1>1. Init => AnsweredOnce
  BY DEF Init, AnsweredOnce
<1>2. /\ TypeOK /\ (losses = 0 => LockedInv) /\ (losses = 0 => AnsweredOnce)
      /\ [Next]_vars
      => (losses = 0 => AnsweredOnce)'
  <2>. SUFFICES ASSUME TypeOK, losses = 0 => LockedInv, losses = 0 => AnsweredOnce,
                       [Next]_vars, losses' = 0
                PROVE  AnsweredOnce'
    OBVIOUS
  <2>1. LockedInv /\ AnsweredOnce
    BY LossyStep
  <2>2. CASE UNCHANGED vars
    BY <2>1, <2>2 DEF AnsweredOnce, vars, history
  <2>. QED
    BY <2>1, <2>2, LossyStep, AnsweredOnceStep
<1>. QED
  BY <1>1, <1>2, TypeCorrect, LockedInvariant, PTL DEF Spec

\* Which step gave an answer.
LEMMA AnswerOrigins ==
  ASSUME TypeOK, NEW r \in Request, told[r] = "none", Advance(r) \/ Environment(r)
  PROVE  /\ told'[r] = "reply" => PublishReply(r)
         /\ told'[r] = "no_reply" => PublishNoReply(r) \/ NothingHeld(r)
         /\ told'[r] = "fallback" => PublishFallback(r)
         /\ told'[r] = "apology" =>
              \/ Retag(r) \/ MissRetag(r)
              \/ kind[r] = "continue" /\ (ReleaseGroup(r) \/ MissRelease(r))
<1>. told \in [Request -> Answers]
  BY DEF TypeOK
<1>1. CASE UNCHANGED told
  BY <1>1
<1>2. CASE \/ TurnAway(r) \/ PublishSuperseded(r) \/ PublishWait(r) \/ PublishFails(r) \/ Cut(r)
           \/ pc[r] = "release" /\ (ReleaseGroup(r) \/ MissRelease(r))
  <2>1. \E a \in {"turned_away", "superseded", "wait", "error", "refused"} : Finish(r, a)
    BY <1>2 DEF TurnAway, PublishSuperseded, PublishWait, PublishFails, Cut, ReleaseGroup,
                MissRelease, AfterRelease
  <2>2. told'[r] \in {"turned_away", "superseded", "wait", "error", "refused"}
    BY <2>1 DEF Finish
  <2>. QED
    BY <2>2
<1>3. CASE PublishReply(r)
  <2>1. told'[r] \in {"reply", "error"}
    BY <1>3 DEF PublishReply, Finish
  <2>. QED
    BY <1>3, <2>1
<1>4. CASE PublishNoReply(r) \/ NothingHeld(r)
  <2>1. told'[r] \in {"no_reply", "error"}
    BY <1>4 DEF PublishNoReply, NothingHeld, Finish
  <2>. QED
    BY <1>4, <2>1
<1>5. CASE PublishFallback(r)
  <2>1. told'[r] \in {"fallback", "error"}
    BY <1>5 DEF PublishFallback, Finish
  <2>. QED
    BY <1>5, <2>1
<1>6. CASE \/ Retag(r) \/ MissRetag(r)
           \/ kind[r] = "continue" /\ pc[r] # "release" /\ (ReleaseGroup(r) \/ MissRelease(r))
  <2>1. Finish(r, "apology")
    BY <1>6 DEF Retag, MissRetag, ReleaseGroup, MissRelease, AfterRelease
  <2>2. told'[r] \in {"apology", "error"}
    BY <2>1 DEF Finish
  <2>. QED
    BY <1>6, <2>2
<1>7. \/ UNCHANGED told
      \/ TurnAway(r) \/ PublishSuperseded(r) \/ PublishWait(r) \/ PublishFails(r) \/ Cut(r)
      \/ PublishReply(r) \/ PublishNoReply(r) \/ NothingHeld(r) \/ PublishFallback(r)
      \/ Retag(r) \/ MissRetag(r)
      \/ kind[r] = "continue" /\ pc[r] # "release" /\ (ReleaseGroup(r) \/ MissRelease(r))
      \/ pc[r] = "release" /\ (ReleaseGroup(r) \/ MissRelease(r))
  BY DEF Advance, Environment, Arrive, Refuse, Acquire, AppendUser,
     ReadCursor, ReadPending, Judge, RejectAttempt, Compose, GiveUp, RunFails, RecordError,
     ReleaseGroup, MissRelease, AfterRelease
<1>. QED
  BY <1>1, <1>2, <1>3, <1>4, <1>5, <1>6, <1>7

\* Whoever was told what became of a message had sent one.
ToldOwns ==
  \A r \in Request :
    kind[r] = "message" /\ told[r] \in {"fallback", "apology"} => own[r] # 0

LEMMA ToldStep ==
  ASSUME TypeOK, LockedInv, ToldOwns, ToldTruth, NEW r \in Request, Advance(r) \/ Environment(r)
  PROVE  ToldOwns' /\ ToldTruth'
<1>. /\ rows \in Seq(Sender) /\ Len(rows) \in Nat /\ handled \in 0..Len(rows)
     /\ own \in [Request -> 0..Len(rows)] /\ told \in [Request -> Answers]
     /\ kind \in [Request -> Kinds] /\ missed \in [Request -> SUBSET {"release", "retag"}]
  BY DEF TypeOK
<1>0. Serial /\ Ownership /\ WorkFits /\ Settled /\ Untold /\ Fits(r)
  BY DEF LockedInv, WorkFits
<1>1. Settled'
  BY LockedStep DEF LockedInv
<1>2. \A i \in 1..Len(rows) : rows'[i] \in {rows[i], "unanswered"}
  BY <1>0, RowsLast
<1>3. Answered \subseteq Answered' /\ ignored \subseteq ignored'
  BY StepReferences DEF PublishReply, PublishNoReply, Answered
<1>4. ASSUME NEW q \in Request, q # r, kind'[q] = "message"
      PROVE  /\ told'[q] \in {"fallback", "apology"} => own'[q] # 0
             /\ told'[q] = "reply" => own'[q] \in Answered' /\ rows'[own'[q]] = "user"
             /\ told'[q] = "no_reply" => own'[q] \in ignored' /\ rows'[own'[q]] = "user"
             /\ told'[q] = "fallback" => rows'[own'[q]] = "unanswered"
             /\ told'[q] = "apology" =>
                  rows'[own'[q]] = "unanswered" \/ missed'[q] = {"release", "retag"}
  <2>1. /\ told'[q] = told[q] /\ kind[q] = "message" /\ own'[q] = own[q]
        /\ missed'[q] = missed[q]
    BY <1>4, OthersKeep
  <2>2. told[q] = "reply" => own[q] \in Answered' /\ rows'[own[q]] = "user"
    BY <1>1, <1>3, <2>1 DEF ToldTruth, Settled
  <2>3. told[q] = "no_reply" => own[q] \in ignored' /\ rows'[own[q]] = "user"
    BY <1>1, <1>3, <2>1 DEF ToldTruth, Settled
  <2>4. told[q] \in {"fallback", "apology"} => own[q] \in 1..Len(rows)
    BY <2>1 DEF ToldOwns
  <2>5. told[q] \in {"fallback", "apology"} /\ rows[own[q]] = "unanswered" =>
          rows'[own[q]] = "unanswered"
    BY <1>2, <2>4
  <2>. QED
    BY <2>1, <2>2, <2>3, <2>4, <2>5 DEF ToldTruth
<1>5. ASSUME kind'[r] = "message"
      PROVE  /\ told'[r] \in {"fallback", "apology"} => own'[r] # 0
             /\ told'[r] = "reply" => own'[r] \in Answered' /\ rows'[own'[r]] = "user"
             /\ told'[r] = "no_reply" => own'[r] \in ignored' /\ rows'[own'[r]] = "user"
             /\ told'[r] = "fallback" => rows'[own'[r]] = "unanswered"
             /\ told'[r] = "apology" =>
                  rows'[own'[r]] = "unanswered" \/ missed'[r] = {"release", "retag"}
  <2>1. told[r] = "none"
    BY <1>0, UntoldStep
  <2>2. CASE told'[r] = "reply"
    <3>1. PublishReply(r) /\ SettlesAs("answered")
      BY <1>0, <2>1, <2>2, AnswerOrigins, SettlingSteps
    <3>2. own' = own /\ kind' = kind /\ own[r] \in PendingAfter(handled)
      BY <1>0, <1>5, <3>1 DEF PublishReply, context, Fits, Undecided
    <3>3. own[r] \in Answered'
      BY <3>1, <3>2 DEF SettlesAs
    <3>. QED
      BY <1>1, <2>2, <3>2, <3>3 DEF Settled
  <2>3. CASE told'[r] = "no_reply"
    <3>1. PublishNoReply(r)
      BY <1>5, <2>1, <2>3, AnswerOrigins DEF NothingHeld, context
    <3>2. /\ own' = own /\ kind' = kind /\ own[r] \in PendingAfter(handled)
          /\ group[r] = PendingAfter(handled)
      BY <1>0, <1>5, <3>1 DEF PublishNoReply, context, Fits, Undecided
    <3>3. own[r] \in ignored'
      BY <3>1, <3>2 DEF PublishNoReply
    <3>. QED
      BY <1>1, <2>3, <3>2, <3>3 DEF Settled
  <2>4. CASE told'[r] = "fallback"
    <3>1. PublishFallback(r)
      BY <2>1, <2>4, AnswerOrigins
    <3>2. own' = own /\ kind' = kind /\ own[r] \in PendingAfter(handled)
      BY <1>0, <1>5, <3>1 DEF PublishFallback, context, Fits, Undecided
    <3>3. own[r] \in 1..Len(rows)
      BY <3>2, PendingType
    <3>4. rows'[own[r]] = "unanswered"
      BY <1>0, <3>1, <3>2, <3>3, SettlingSteps DEF SettlesAs
    <3>. QED
      BY <2>4, <3>2, <3>3, <3>4
  <2>5. CASE told'[r] = "apology"
    <3>1. kind' = kind /\ (Retag(r) \/ MissRetag(r))
      BY <1>5, <2>1, <2>5, AnswerOrigins DEF Retag, MissRetag, ReleaseGroup, MissRelease, context
    <3>2. own' = own /\ own[r] \in 1..Len(rows)
      BY <1>0, <3>1 DEF Retag, MissRetag, context, Fits
    <3>3. CASE Retag(r)
      BY <2>5, <3>2, <3>3, RetagEffect
    <3>4. CASE MissRetag(r)
      <4>1. rows[own[r]] = "unanswered" \/ "release" \in missed[r]
        BY <1>0, <3>4 DEF MissRetag, Fits
      <4>2. rows' = rows /\ missed'[r] = missed[r] \cup {"retag"}
        BY <3>4 DEF MissRetag, db
      <4>. QED
        BY <2>5, <3>2, <4>1, <4>2
    <3>. QED
      BY <3>1, <3>3, <3>4
  <2>. QED
    BY <2>2, <2>3, <2>4, <2>5
<1>6. \A q \in Request : kind'[q] = "message" =>
        /\ told'[q] \in {"fallback", "apology"} => own'[q] # 0
        /\ told'[q] = "reply" => own'[q] \in Answered' /\ rows'[own'[q]] = "user"
        /\ told'[q] = "no_reply" => own'[q] \in ignored' /\ rows'[own'[q]] = "user"
        /\ told'[q] = "fallback" => rows'[own'[q]] = "unanswered"
        /\ told'[q] = "apology" =>
             rows'[own'[q]] = "unanswered" \/ missed'[q] = {"release", "retag"}
  BY <1>4, <1>5
<1>7. ToldOwns'
  BY <1>6 DEF ToldOwns
<1>8. ToldTruth'
  BY <1>6 DEF ToldTruth
<1>. QED
  BY <1>7, <1>8

\* As long as the advisory lock is not lost, the response and the database
\* agree on what became of the visitor's message, and go on agreeing: a reply
\* means answered and in the history, an apology or a fallback means out of it.
\* A message stays pending until its own turn settles it, and what is settled
\* is behind the cursor, out of the reach of every later release.
THEOREM VisitorsAreToldTheTruth == Spec => [](losses = 0 => ToldTruth)
<1>. DEFINE Told == ToldOwns /\ ToldTruth
<1>1. Init => Told
  BY DEF Init, ToldOwns, ToldTruth
<1>2. /\ TypeOK /\ (losses = 0 => LockedInv) /\ (losses = 0 => Told)
      /\ [Next]_vars
      => (losses = 0 => Told)'
  <2>. SUFFICES ASSUME TypeOK, losses = 0 => LockedInv, losses = 0 => Told,
                       [Next]_vars, losses' = 0
                PROVE  Told'
    OBVIOUS
  <2>1. LockedInv /\ Told
    BY LossyStep
  <2>2. CASE UNCHANGED vars
    BY <2>1, <2>2 DEF ToldOwns, ToldTruth, Answered, vars, db, context, history
  <2>. QED
    BY <2>1, <2>2, LossyStep, ToldStep
<1>3. Told => ToldTruth
  OBVIOUS
<1>. QED
  BY <1>1, <1>2, <1>3, TypeCorrect, LockedInvariant, PTL DEF Spec

(***************************************************************************)
(* The turns implement the ledger of messages.                             *)
(***************************************************************************)

\* What fates are made of.
LEMMA FateCases ==
  ASSUME TypeOK, Ownership, NEW q \in Request
  PROVE  /\ own[q] = 0 => FateOf(q) = "unsent"
         /\ own[q] # 0 => own[q] \in 1..Len(rows) /\ rows[own[q]] \in {"user", "unanswered"}
         /\ own[q] # 0 /\ rows[own[q]] = "unanswered" => FateOf(q) = "dropped"
         /\ own[q] # 0 /\ rows[own[q]] = "user" =>
              FateOf(q) = IF own[q] > handled THEN "pending"
                          ELSE IF own[q] \in Answered THEN "answered"
                          ELSE IF own[q] \in ignored THEN "ignored" ELSE "lost"
BY DEF TypeOK, Ownership, FateOf

\* A step that leaves a message's row, the cursor and the history alone.
LEMMA FateStands ==
  ASSUME TypeOK, NEW q \in Request, own'[q] = own[q], UNCHANGED <<handled, delivered, ignored>>,
         own[q] # 0 => rows'[own[q]] = rows[own[q]]
  PROVE  FateOf(q)' = FateOf(q)
<1>1. Answered' = Answered
  BY DEF Answered
<1>. QED
  BY <1>1 DEF FateOf

LEMMA FatesSettle ==
  ASSUME TypeOK, Ownership, Settled, own' = own, handled' \in Int,
         NEW f \in {"answered", "ignored", "dropped"}, SettlesAs(f), NEW q \in Request
  PROVE  FateOf(q)' = IF FateOf(q) = "pending" THEN f ELSE FateOf(q)
<1>. /\ rows \in Seq(Sender) /\ Len(rows) \in Nat /\ handled \in 0..Len(rows)
     /\ own \in [Request -> 0..Len(rows)]
  BY DEF TypeOK
<1>. DEFINE o == own[q]
            P == PendingAfter(handled)
<1>1. \A i : i \in P <=> i \in 1..Len(rows) /\ i > handled /\ rows[i] = "user"
  BY PendingType
<1>2. /\ \A i \in 1..Len(rows) :
           rows'[i] = IF f = "dropped" /\ i \in P THEN "unanswered" ELSE rows[i]
      /\ handled' >= handled /\ \A i \in P : i <= handled'
      /\ Answered' = IF f = "answered" THEN Answered \cup P ELSE Answered
      /\ ignored' = IF f = "ignored" THEN ignored \cup P ELSE ignored
  BY DEF SettlesAs
<1>3. \A i \in Answered \cup ignored : i <= handled
  BY DEF Settled
<1>. HIDE DEF P
<1>4. CASE o = 0
  BY <1>4 DEF FateOf
<1>5. CASE o # 0 /\ rows[o] = "unanswered"
  <2>1. o \in 1..Len(rows) /\ rows'[o] = "unanswered"
    BY <1>2, <1>5
  <2>. QED
    BY <1>5, <2>1 DEF FateOf
<1>6. CASE o # 0 /\ rows[o] = "user"
  <2>1. o \in 1..Len(rows)
    BY <1>6
  <2>2. CASE o > handled
    <3>1. o \in P /\ o <= handled' /\ FateOf(q) = "pending"
      BY <1>1, <1>2, <1>6, <2>1, <2>2 DEF FateOf
    <3>2. CASE f = "dropped"
      <4>1. rows'[o] = "unanswered"
        BY <1>2, <2>1, <3>1, <3>2
      <4>. QED
        BY <1>6, <3>1, <3>2, <4>1 DEF FateOf
    <3>3. CASE f # "dropped"
      <4>1. rows'[o] = "user"
        BY <1>2, <1>6, <2>1, <3>3
      <4>2. o \notin Answered
        BY <1>3, <2>2
      <4>3. f = "answered" => o \in Answered'
        BY <1>2, <3>1
      <4>4. f = "ignored" => o \in ignored' /\ o \notin Answered'
        BY <1>2, <3>1, <4>2
      <4>5. FateOf(q)' = IF o > handled' THEN "pending"
                         ELSE IF o \in Answered' THEN "answered"
                         ELSE IF o \in ignored' THEN "ignored" ELSE "lost"
        BY <1>6, <4>1 DEF FateOf
      <4>6. ~(o > handled')
        BY <2>1, <3>1
      <4>. QED
        BY <3>1, <3>3, <4>3, <4>4, <4>5, <4>6
    <3>. QED
      BY <3>2, <3>3
  <2>3. CASE ~(o > handled)
    <3>1. o \notin P /\ rows'[o] = "user" /\ ~(o > handled')
      BY <1>1, <1>2, <1>6, <2>1, <2>3
    <3>2. (o \in Answered' <=> o \in Answered) /\ (o \in ignored' <=> o \in ignored)
      BY <1>2, <3>1
    <3>3. FateOf(q)' = IF o \in Answered' THEN "answered"
                       ELSE IF o \in ignored' THEN "ignored" ELSE "lost"
      BY <1>6, <3>1 DEF FateOf
    <3>4. FateOf(q) = IF o \in Answered THEN "answered"
                      ELSE IF o \in ignored THEN "ignored" ELSE "lost"
      BY <1>6, <2>3 DEF FateOf
    <3>. QED
      BY <3>2, <3>3, <3>4
  <2>. QED
    BY <2>2, <2>3
<1>. QED
  BY <1>4, <1>5, <1>6 DEF Ownership

\* Every fate as it was is a step in which the ledger does nothing.
LEMMA LedgerStutters ==
  ASSUME \A q \in Request : FateOf(q)' = FateOf(q)
  PROVE  [Ledger!Next]_([r \in Request |-> FateOf(r)])
<1>1. [r \in Request |-> FateOf(r)]' = [r \in Request |-> FateOf(r)]
  OBVIOUS
<1>. QED
  BY <1>1

\* Each step of a turn that holds the lock is one of the ledger's, or none.
LEMMA LedgerStep ==
  ASSUME TypeOK, LockedInv, NEW r \in Request, Advance(r) \/ Environment(r)
  PROVE  [Ledger!Next]_([q \in Request |-> FateOf(q)])
<1>. /\ rows \in Seq(Sender) /\ Len(rows) \in Nat /\ handled \in 0..Len(rows)
     /\ own \in [Request -> 0..Len(rows)]
  BY DEF TypeOK
<1>. DEFINE fates == [q \in Request |-> FateOf(q)]
<1>0. Ownership /\ WorkFits /\ Settled /\ Fits(r)
  BY DEF LockedInv, WorkFits
<1>1. \A q \in Request : own[q] # 0 =>
        own[q] \in 1..Len(rows) /\ rows[own[q]] \in {"user", "unanswered"}
  BY <1>0 DEF Ownership
<1>2. CASE AppendUser(r)
  <2>1. own[r] = 0 /\ FateOf(r) = "unsent"
    BY <1>0, <1>2 DEF AppendUser, Ownership, FateOf
  <2>2. FateOf(r)' = "pending"
    BY <1>2, AppendEffect DEF FateOf
  <2>3. ASSUME NEW q \in Request, q # r PROVE FateOf(q)' = FateOf(q)
    BY <1>1, <1>2, <2>3, OthersKeep, AppendEffect, FateStands
  <2>4. fates' = [fates EXCEPT ![r] = "pending"] /\ fates[r] = "unsent"
    BY <2>1, <2>2, <2>3
  <2>5. Ledger!Send(r)
    BY <2>4 DEF Ledger!Send
  <2>. QED
    BY <2>5 DEF Ledger!Next
<1>3. CASE ~AppendUser(r) /\ Keeps
  <2>1. own' = own
    BY <1>3, StepReferences
  <2>2. \A q \in Request : FateOf(q)' = FateOf(q)
    BY <1>1, <1>3, <2>1, FateStands DEF Keeps
  <2>. QED
    BY <2>2, LedgerStutters
<1>4. CASE Retag(r)
  <2>1. own' = own /\ own[r] # 0 /\ own[r] \in 1..Len(rows)
    BY <1>0, <1>1, <1>4 DEF Retag, context, Fits
  <2>2. FateOf(r)' = "dropped"
    BY <1>4, <2>1, RetagEffect DEF FateOf
  <2>3. ASSUME NEW q \in Request, q # r PROVE FateOf(q)' = FateOf(q)
    <3>1. own[q] # 0 => own[q] # own[r]
      BY <1>0, <2>3 DEF Ownership
    <3>2. own[q] # 0 => rows'[own[q]] = rows[own[q]]
      BY <1>1, <1>4, <3>1, RetagEffect
    <3>. QED
      BY <1>4, <2>1, <3>2, RetagEffect, FateStands
  <2>4. CASE rows[own[r]] = "unanswered"
    <3>1. FateOf(r) = "dropped"
      BY <2>1, <2>4 DEF FateOf
    <3>. QED
      BY <2>2, <2>3, <3>1, LedgerStutters
  <2>5. CASE own[r] \in PendingAfter(handled)
    <3>1. FateOf(r) = "pending"
      BY <2>1, <2>5, PendingType DEF FateOf
    <3>2. fates' = [fates EXCEPT ![r] = "dropped"] /\ fates[r] = "pending"
      BY <2>2, <2>3, <3>1
    <3>3. Ledger!Withdraw(r)
      BY <3>2 DEF Ledger!Withdraw
    <3>. QED
      BY <3>3 DEF Ledger!Next
  <2>. QED
    BY <1>0, <1>4, <2>4, <2>5 DEF Retag, Fits
<1>5. ASSUME ~AppendUser(r), NEW f \in {"answered", "ignored", "dropped"}, SettlesAs(f)
      PROVE  [Ledger!Next]_fates
  <2>1. own' = own /\ handled' \in Int
    BY <1>5, StepReferences, StepEffects, DbType
  <2>2. \A q \in Request : FateOf(q)' = IF FateOf(q) = "pending" THEN f ELSE FateOf(q)
    BY <1>0, <1>5, <2>1, FatesSettle
  <2>3. CASE \A q \in Request : FateOf(q) # "pending"
    BY <2>2, <2>3, LedgerStutters
  <2>4. CASE \E q \in Request : FateOf(q) = "pending"
    <3>1. Ledger!Pending # {}
      BY <2>4 DEF Ledger!Pending
    <3>2. \A q \in Request : q \in Ledger!Pending <=> FateOf(q) = "pending"
      BY DEF Ledger!Pending
    <3>3. fates' = [q \in Request |-> IF q \in Ledger!Pending THEN f ELSE fates[q]]
      BY <2>2, <3>2
    <3>4. Ledger!Settle(f)
      BY <3>1, <3>3 DEF Ledger!Settle
    <3>. QED
      BY <3>4 DEF Ledger!Next, Ledger!Final
  <2>. QED
    BY <2>3, <2>4
<1>. QED
  BY <1>0, <1>2, <1>3, <1>4, <1>5, LockedEffects

\* As long as the advisory lock is not lost, the turns implement the ledger:
\* whatever the interleaving, the crashes and the failed writes, every message
\* has one fate, reached once, and what is pending is settled together.
THEOREM TurnsImplementLedger == Spec /\ [](losses = 0) => ImplementsLedger
<1>1. Init => Ledger!Init
  BY DEF Init, Ledger!Init, FateOf
<1>2. TypeOK /\ LockedInv /\ [Next]_vars /\ losses = 0 /\ (losses = 0)'
      => [Ledger!Next]_([r \in Request |-> FateOf(r)])
  <2>. SUFFICES ASSUME TypeOK, LockedInv, [Next]_vars, losses' = 0
                PROVE  [Ledger!Next]_([r \in Request |-> FateOf(r)])
    OBVIOUS
  <2>1. CASE UNCHANGED vars
    <3>1. \A q \in Request : FateOf(q)' = FateOf(q)
      BY <2>1 DEF FateOf, Answered, vars, db, context, history
    <3>. QED
      BY <3>1, LedgerStutters
  <2>. QED
    BY <2>1, LossyStep, LedgerStep
<1>. QED
  BY <1>1, <1>2, TypeCorrect, LockedInvariant, PTL DEF Spec, ImplementsLedger, Ledger!Spec
=============================================================================
