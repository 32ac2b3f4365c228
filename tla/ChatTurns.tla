----------------------------- MODULE ChatTurns -----------------------------
(***************************************************************************)
(* How the turns of one conversation reach the database.                   *)
(*                                                                         *)
(* A visitor's requests (a message, a "continue" that answers what is      *)
(* held, or a message a gate refuses) run concurrently, possibly in        *)
(* several worker processes. Each is a chain of awaits in                  *)
(* app/services/chat_service.py; every await is a point where the others   *)
(* may run, where the request may be cancelled or its process die, and     *)
(* where the database may fail. Two locks order them: the worker's own     *)
(* asyncio.Lock of the session (RateControlService.turn, first come first  *)
(* served) and the advisory lock of app/services/session_work.py, which    *)
(* every waiter polls, and which PostgreSQL gives away when the connection *)
(* that holds it is lost.                                                  *)
(*                                                                         *)
(* The conversation is the sequence of its message rows, each represented  *)
(* by its sender, and the cursor last_handled_index. Rows are numbered     *)
(* from 1 (order_index is from 0), so handled = last_handled_index + 1.    *)
(***************************************************************************)
EXTENDS Integers, Sequences, SequencesExt

CONSTANTS
  Request,       \* the HTTP requests that touch this conversation
  Worker,        \* uvicorn worker processes; the Dockerfile starts one
  None,          \* the lock's owner when nobody holds it
  RegenCounter,  \* ResponseGate's verify attempts (guest 2, invite 4)
  MaxLoss,       \* bound: connections holding the advisory lock that are lost
  MaxMishap      \* bound: cancellations, process deaths and failed writes

ASSUME NoneIsNoRequest == None \notin Request
ASSUME BoundsAreNat == RegenCounter \in Nat \ {0} /\ MaxLoss \in Nat /\ MaxMishap \in Nat

VARIABLES
  rows,       \* Message.sender of every row, by order_index
  handled,    \* Conversation.last_handled_index + 1
  queue,      \* worker -> requests inside or waiting for turn(), in order
  holder,     \* the request whose connection holds the advisory lock
  pc,         \* where each request's coroutine is suspended
  kind,       \* what each request is
  own,        \* user_message.order_index + 1, 0 before the append
  base,       \* the cursor as this request's ORM session last read it
  group,      \* pending_messages of the gathered context (row numbers)
  regen,      \* rejected attempts so far in ResponseGate.check
  verdict,    \* the TurnOutcome: decision, and which reply it carries
  told,       \* the response the visitor got
  missed,     \* writes of _handle_failed_turn that themselves failed
  delivered,  \* history: what each persona reply answered
  ignored,    \* history: rows a published no_reply left unanswered
  losses,     \* connections lost so far
  mishaps     \* cancellations and failed writes so far

db      == <<rows, handled>>
locks   == <<queue, holder>>
context == <<kind, own, base, group, regen, verdict>>
history == <<delivered, ignored>>
bounds  == <<losses, mishaps>>
vars    == <<db, locks, pc, context, told, missed, history, bounds>>

(***************************************************************************)
(* Message rows.                                                           *)
(***************************************************************************)
Sender == {"user", "backend", "system", "error", "regen", "unanswered"}

\* Sender.USER rows above a cursor.
PendingAfter(cursor) == {i \in DOMAIN rows : i > cursor /\ rows[i] = "user"}

\* order_index of the last row of a group, 0 (-1 in the code) for none.
Newest(S) == IF S = {} THEN 0 ELSE Max(S)

\* The rows once every member of S is retagged Sender.UNANSWERED_USER.
Released(S) == [i \in DOMAIN rows |-> IF i \in S THEN "unanswered" ELSE rows[i]]

(***************************************************************************)
(* Control.                                                                *)
(***************************************************************************)
Kinds    == {"message", "continue", "refused"}
Verdicts == {"none", "wait", "no_reply", "reply", "notice", "fallback"}
Answers  == {"none", "reply", "fallback", "wait", "no_reply", "superseded",
             "apology", "turned_away", "refused", "error"}

Running    == {"cursor", "rows", "judge", "write"}  \* inside _run_measured_model
Recovering == {"record", "discard", "retag"}        \* inside _handle_failed_turn
Working    == Running \cup Recovering \cup {"locked", "publish", "release"}
Waiting    == {"queued", "gate"}
Places     == Working \cup Waiting \cup {"idle", "done"}

Goto(r, place) == pc' = [pc EXCEPT ![r] = place]

\* Mutant of Finish: turn()'s lock is not released on the way out.
FinishStillQueued(r, answer) ==
  /\ Goto(r, "done")
  /\ told'   = [told EXCEPT ![r] = IF holder = r \/ kind[r] = "refused" THEN answer ELSE "error"]
  /\ holder' = IF holder = r THEN None ELSE holder
  /\ UNCHANGED queue

\* Leaving turn() and session_work(). A request whose advisory lock was lost
\* fails on the way out, when the lock's transaction is ended on a dead
\* connection: the visitor gets an error whatever was written. (A refused
\* message logs that failure and still reports the refusal.)
Finish(r, answer) ==
  /\ Goto(r, "done")
  /\ told'   = [told EXCEPT ![r] = IF holder = r \/ kind[r] = "refused" THEN answer ELSE "error"]
  /\ holder' = IF holder = r THEN None ELSE holder
  /\ queue'  = [w \in Worker |-> RemoveFirst(queue[w], r)]

Mishap == mishaps < MaxMishap /\ mishaps' = mishaps + 1 /\ UNCHANGED losses

-----------------------------------------------------------------------------
(***************************************************************************)
(* Entering: the gates, turn() and session_work().                         *)
(***************************************************************************)

\* The gates of handle_chat_turn or handle_continue_turn let the request
\* through and it joins its worker's queue for the session.
Arrive(r) ==
  /\ pc[r] = "idle"
  /\ \E k \in {"message", "continue"} : kind' = [kind EXCEPT ![r] = k]
  /\ \E w \in Worker : queue' = [queue EXCEPT ![w] = Append(@, r)]
  /\ Goto(r, "queued")
  /\ UNCHANGED <<db, holder, own, base, group, regen, verdict, told, missed, history, bounds>>

\* A gate refuses the message: nothing is stored, and the handler goes on to
\* release the group that is held, without joining the turn queue.
Refuse(r) ==
  /\ pc[r] = "idle"
  /\ kind' = [kind EXCEPT ![r] = "refused"]
  /\ Goto(r, "gate")
  /\ UNCHANGED <<db, locks, own, base, group, regen, verdict, told, missed, history, bounds>>

AtHead(r) == \E w \in Worker : queue[w] # <<>> /\ Head(queue[w]) = r

\* pg_try_advisory_xact_lock succeeds.
Acquire(r) ==
  /\ holder = None
  /\ \/ pc[r] = "queued" /\ AtHead(r) /\ Goto(r, "locked")
     \/ pc[r] = "gate" /\ Goto(r, "release")
  /\ holder' = r
  /\ UNCHANGED <<db, queue, context, told, missed, history, bounds>>

\* Consent is gone, or the conversation is gone or was handed to another
\* session while the request waited: it leaves this conversation alone.
TurnAway(r) ==
  /\ pc[r] = "locked"
  /\ Finish(r, "turned_away")
  /\ UNCHANGED <<db, context, missed, history, bounds>>

\* append_message(sender=USER), committed.
AppendUser(r) ==
  /\ pc[r] = "locked" /\ kind[r] = "message"
  /\ rows' = Append(rows, "user")
  /\ own'  = [own EXCEPT ![r] = Len(rows) + 1]
  /\ Goto(r, "cursor")
  /\ UNCHANGED <<handled, locks, kind, base, group, regen, verdict, told, missed, history, bounds>>

\* The conversation row is loaded. Its cursor stays as read here until the
\* transaction is rolled back: a later SELECT of a row the ORM session
\* already holds does not refresh it.
ReadCursor(r) ==
  /\ \/ pc[r] = "cursor"
     \/ pc[r] = "locked" /\ kind[r] = "continue" /\ PendingAfter(handled) # {}
  /\ base' = [base EXCEPT ![r] = handled]
  /\ Goto(r, "rows")
  /\ UNCHANGED <<db, locks, kind, own, group, regen, verdict, told, missed, history, bounds>>

\* A continue that finds nothing held returns before any model call.
NothingHeld(r) ==
  /\ pc[r] = "locked" /\ kind[r] = "continue" /\ PendingAfter(handled) = {}
  /\ Finish(r, "no_reply")
  /\ UNCHANGED <<db, context, missed, history, bounds>>

-----------------------------------------------------------------------------
(***************************************************************************)
(* The model run: gather, readiness gate, reply, response gate.            *)
(***************************************************************************)

\* Mutant of ReadPending: the run gathers the message that started it, not
\* the group it belongs to.
ReadOwnMessage(r) ==
  /\ pc[r] = "rows"
  /\ group' = [group EXCEPT ![r] = {own[r]} \cap PendingAfter(base[r])]
  /\ Goto(r, "judge")
  /\ UNCHANGED <<db, locks, kind, own, base, regen, verdict, told, missed, history, bounds>>

\* get_pending_user_messages, with the cursor read before.
ReadPending(r) ==
  /\ pc[r] = "rows"
  /\ group' = [group EXCEPT ![r] = PendingAfter(base[r])]
  /\ Goto(r, "judge")
  /\ UNCHANGED <<db, locks, kind, own, base, regen, verdict, told, missed, history, bounds>>

\* The readiness verdict. A continue skips the gate: it answers what is held
\* and nothing else. A message with an empty group is answered anyway.
Judge(r) ==
  /\ pc[r] = "judge"
  /\ \/ /\ kind[r] = "continue" => group[r] # {}
        /\ Goto(r, "write") /\ UNCHANGED verdict
     \/ \E d \in {"wait", "no_reply"} :
          /\ kind[r] = "continue" => group[r] = {} /\ d = "no_reply"
          /\ kind[r] = "message" => group[r] # {}
          /\ verdict' = [verdict EXCEPT ![r] = d]
          /\ Goto(r, "publish")
  /\ UNCHANGED <<db, locks, kind, own, base, group, regen, told, missed, history, bounds>>

\* ResponseGate rejects an attempt and keeps it as a review row.
RejectAttempt(r) ==
  /\ pc[r] = "write" /\ regen[r] < RegenCounter
  /\ rows'  = Append(rows, "regen")
  /\ regen' = [regen EXCEPT ![r] = @ + 1]
  /\ UNCHANGED <<handled, locks, pc, kind, own, base, group, verdict, told, missed, history, bounds>>

\* An attempt passes; or grounding found no fact, in which case a fixed reply
\* and a system notice are the outcome and the gate is never reached.
Compose(r) ==
  /\ pc[r] = "write" /\ regen[r] < RegenCounter
  /\ \/ verdict' = [verdict EXCEPT ![r] = "reply"]
     \/ regen[r] = 0 /\ verdict' = [verdict EXCEPT ![r] = "notice"]
  /\ Goto(r, "publish")
  /\ UNCHANGED <<db, locks, kind, own, base, group, regen, told, missed, history, bounds>>

\* Every attempt was rejected: one more review row, and the fallback notice.
GiveUp(r) ==
  /\ pc[r] = "write" /\ regen[r] = RegenCounter
  /\ rows' = Append(rows, "error")
  /\ verdict' = [verdict EXCEPT ![r] = "fallback"]
  /\ Goto(r, "publish")
  /\ UNCHANGED <<handled, locks, kind, own, base, group, regen, told, missed, history, bounds>>

\* An exception in the run, or TURN_DEADLINE_SECONDS passing; the last review
\* row may be committed all the same.
RunFails(r) ==
  /\ pc[r] \in Running
  /\ Goto(r, "record")
  /\ \/ UNCHANGED <<rows, bounds>>
     \/ pc[r] = "write" /\ regen[r] = RegenCounter /\ rows' = Append(rows, "error") /\ Mishap
  /\ UNCHANGED <<handled, locks, context, told, missed, history>>

-----------------------------------------------------------------------------
(***************************************************************************)
(* publish_turn: one transaction under the conversation's row lock.        *)
(***************************************************************************)

\* Mutant of Superseded: the newest message is not compared again.
SupersededByCursorOnly(r) == Newest(group[r]) > 0 /\ handled >= Newest(group[r])

\* Mutant of Superseded: the cursor is not compared again.
SupersededByMessageOnly(r) ==
  PendingAfter(0) # {} /\ Newest(PendingAfter(0)) > Newest(group[r])

\* A newer message arrived, or somebody else dealt with this group.
Superseded(r) ==
  LET through == Newest(group[r]) IN
  \/ PendingAfter(0) # {} /\ Newest(PendingAfter(0)) > through
  \/ through > 0 /\ handled >= through

PublishSuperseded(r) ==
  /\ pc[r] = "publish" /\ Superseded(r)
  /\ Finish(r, "superseded")
  /\ UNCHANGED <<db, context, missed, history, bounds>>

\* Mutant of MarkHandled: off by one.
MarkHandledPastEnd(cursor) == handled' = IF cursor > handled THEN cursor + 1 ELSE handled

MarkHandled(cursor) == handled' = IF cursor > handled THEN cursor ELSE handled

PublishWait(r) ==
  /\ pc[r] = "publish" /\ ~Superseded(r) /\ verdict[r] = "wait"
  /\ Finish(r, "wait")
  /\ UNCHANGED <<db, context, missed, history, bounds>>

PublishNoReply(r) ==
  /\ pc[r] = "publish" /\ ~Superseded(r) /\ verdict[r] = "no_reply"
  /\ MarkHandled(Newest(group[r]))
  /\ ignored' = ignored \cup group[r]
  /\ Finish(r, "no_reply")
  /\ UNCHANGED <<rows, context, missed, delivered, bounds>>

\* Mutant of PublishReply: the cursor is left where it was.
PublishReplyUnmarked(r) ==
  /\ pc[r] = "publish" /\ ~Superseded(r) /\ verdict[r] \in {"reply", "notice"}
  /\ rows' = Append(rows, "backend")
  /\ delivered' = delivered \cup {[at |-> Len(rows) + 1, to |-> group[r]]}
  /\ Finish(r, "reply")
  /\ UNCHANGED <<handled, context, missed, ignored, bounds>>

\* The reply, with the notice that follows it when there is one.
PublishReply(r) ==
  /\ pc[r] = "publish" /\ ~Superseded(r) /\ verdict[r] \in {"reply", "notice"}
  /\ rows' = IF verdict[r] = "notice"
             THEN Append(Append(rows, "backend"), "system")
             ELSE Append(rows, "backend")
  /\ MarkHandled(Newest(group[r]))
  /\ delivered' = delivered \cup {[at |-> Len(rows) + 1, to |-> group[r]]}
  /\ Finish(r, "reply")
  /\ UNCHANGED <<context, missed, ignored, bounds>>

\* Mutant of PublishFallback: the newest message of the group is kept.
PublishFallbackKeepsLast(r) ==
  LET through == Newest(group[r])
      failed  == {i \in PendingAfter(handled) : i < through}
  IN /\ pc[r] = "publish" /\ ~Superseded(r) /\ verdict[r] = "fallback"
     /\ rows' = Append(Released(failed), "system")
     /\ MarkHandled(through)
     /\ Finish(r, "fallback")
     /\ UNCHANGED <<context, missed, history, bounds>>

\* The fallback notice, with the group it failed to answer released.
PublishFallback(r) ==
  LET through == Newest(group[r])
      failed  == {i \in PendingAfter(handled) : i <= through}
  IN /\ pc[r] = "publish" /\ ~Superseded(r) /\ verdict[r] = "fallback"
     /\ rows' = Append(Released(failed), "system")
     /\ MarkHandled(through)
     /\ Finish(r, "fallback")
     /\ UNCHANGED <<context, missed, history, bounds>>

\* The transaction fails and rolls back: a 500, with nothing written.
PublishFails(r) ==
  /\ pc[r] = "publish"
  /\ Mishap
  /\ Finish(r, "error")
  /\ UNCHANGED <<db, context, missed, history>>

-----------------------------------------------------------------------------
(***************************************************************************)
(* _handle_failed_turn: three writes, each guarded on its own.             *)
(***************************************************************************)

RecordError(r) ==
  /\ pc[r] = "record"
  /\ Goto(r, "discard")
  /\ \/ rows' = Append(rows, "error") /\ UNCHANGED bounds
     \/ Mishap /\ UNCHANGED rows
  /\ UNCHANGED <<handled, locks, context, told, missed, history>>

\* Where the release of the held group leads: a refused message is answered,
\* a failed message still has its own row to retag, a failed continue ends.
AfterRelease(r) ==
  \/ pc[r] = "release" /\ Finish(r, "refused")
  \/ pc[r] = "discard" /\ kind[r] = "continue" /\ Finish(r, "apology")
  \/ pc[r] = "discard" /\ kind[r] = "message" /\ Goto(r, "retag") /\ UNCHANGED <<locks, told>>

\* Mutant of ReleaseGroup: only the newest held message is retagged.
ReleaseNewest(r) ==
  LET pending == PendingAfter(handled) IN
  /\ pc[r] \in {"release", "discard"}
  /\ rows' = Released({Newest(pending)})
  /\ MarkHandled(Newest(pending))
  /\ AfterRelease(r)
  /\ UNCHANGED <<context, missed, history, bounds>>

\* discard_pending_group: one transaction under the row lock.
ReleaseGroup(r) ==
  LET pending == PendingAfter(handled) IN
  /\ pc[r] \in {"release", "discard"}
  /\ rows' = Released(pending)
  /\ MarkHandled(Newest(pending))
  /\ AfterRelease(r)
  /\ UNCHANGED <<context, missed, history, bounds>>

\* It fails, is logged, and the request goes on.
MissRelease(r) ==
  /\ pc[r] \in {"release", "discard"}
  /\ Mishap
  /\ missed' = [missed EXCEPT ![r] = @ \cup {"release"}]
  /\ AfterRelease(r)
  /\ UNCHANGED <<db, context, history>>

\* retag_message_sender: the row this turn appended, whatever its state.
Retag(r) ==
  /\ pc[r] = "retag"
  /\ rows' = Released({own[r]})
  /\ Finish(r, "apology")
  /\ UNCHANGED <<handled, context, missed, history, bounds>>

MissRetag(r) ==
  /\ pc[r] = "retag"
  /\ Mishap
  /\ missed' = [missed EXCEPT ![r] = @ \cup {"retag"}]
  /\ Finish(r, "apology")
  /\ UNCHANGED <<db, context, history>>

-----------------------------------------------------------------------------
(***************************************************************************)
(* The environment.                                                        *)
(***************************************************************************)

\* The coroutine is cancelled, raises outside the guarded part of the turn,
\* or dies with its process. What it committed stays; its locks are freed.
Cut(r) ==
  /\ pc[r] \in Working \cup Waiting
  /\ Mishap
  /\ Finish(r, "error")
  /\ UNCHANGED <<db, context, missed, history>>

\* PostgreSQL drops the connection that holds the advisory lock. The
\* coroutine does not notice; the lock is free for the next to take.
LoseLock ==
  /\ holder # None /\ losses < MaxLoss
  /\ holder' = None
  /\ losses' = losses + 1
  /\ UNCHANGED <<db, queue, pc, context, told, missed, history, mishaps>>

Init ==
  /\ rows = <<>> /\ handled = 0
  /\ queue = [w \in Worker |-> <<>>] /\ holder = None
  /\ pc = [r \in Request |-> "idle"]
  /\ kind = [r \in Request |-> "message"]
  /\ own = [r \in Request |-> 0]
  /\ base = [r \in Request |-> 0]
  /\ group = [r \in Request |-> {}]
  /\ regen = [r \in Request |-> 0]
  /\ verdict = [r \in Request |-> "none"]
  /\ told = [r \in Request |-> "none"]
  /\ missed = [r \in Request |-> {}]
  /\ delivered = {} /\ ignored = {}
  /\ losses = 0 /\ mishaps = 0

\* The steps the code takes by itself once a request is in.
Advance(r) ==
  \/ Acquire(r) \/ TurnAway(r) \/ AppendUser(r) \/ ReadCursor(r) \/ NothingHeld(r)
  \/ ReadPending(r) \/ Judge(r) \/ RejectAttempt(r) \/ Compose(r) \/ GiveUp(r) \/ RunFails(r)
  \/ PublishSuperseded(r) \/ PublishWait(r) \/ PublishNoReply(r) \/ PublishReply(r)
  \/ PublishFallback(r)
  \/ RecordError(r) \/ ReleaseGroup(r) \/ Retag(r)

Environment(r) ==
  Arrive(r) \/ Refuse(r) \/ PublishFails(r) \/ MissRelease(r) \/ MissRetag(r) \/ Cut(r)

\* Every request ran: the only state in which nothing more happens.
AllDone == (\A r \in Request : pc[r] = "done") /\ UNCHANGED vars

Next == (\E r \in Request : Advance(r) \/ Environment(r)) \/ LoseLock \/ AllDone

Spec == Init /\ [][Next]_vars

\* A coroutine that can go on does: the event loop runs it, the model run
\* ends by its deadline, a waiter polls the advisory lock every 50 ms.
FairSpec == Spec /\ \A r \in Request : WF_vars(Advance(r))

-----------------------------------------------------------------------------
TypeOK ==
  /\ rows \in Seq(Sender)
  /\ handled \in 0..Len(rows)
  /\ queue \in [Worker -> Seq(Request)]
  /\ holder \in Request \cup {None}
  /\ pc \in [Request -> Places]
  /\ kind \in [Request -> Kinds]
  /\ own \in [Request -> 0..Len(rows)]
  /\ base \in [Request -> 0..Len(rows)]
  /\ group \in [Request -> SUBSET (1..Len(rows))]
  /\ regen \in [Request -> 0..RegenCounter]
  /\ verdict \in [Request -> Verdicts]
  /\ told \in [Request -> Answers]
  /\ missed \in [Request -> SUBSET {"release", "retag"}]
  /\ delivered \subseteq [at : 1..Len(rows), to : SUBSET (1..Len(rows))]
  /\ ignored \subseteq 1..Len(rows)
  /\ losses \in 0..MaxLoss /\ mishaps \in 0..MaxMishap

Answered == UNION {d.to : d \in delivered}

\* Replies and readers' order agree: no message still waiting for an answer
\* stands before a persona reply or notice. publish_turn re-reads the newest
\* message, so a reply is never published over one its run did not see, even
\* when the advisory lock was lost while the models worked.
NoReplyOverPending ==
  \A i \in PendingAfter(handled), j \in DOMAIN rows :
    rows[j] \in {"backend", "system"} => j < i

\* last_handled_index never passes a message nobody looked at: every USER row
\* at or below it was in the group of a published reply or no_reply
\* (app/models/conversation.py).
NothingSkipped ==
  \A i \in 1..handled : rows[i] = "user" => i \in Answered \cup ignored

\* No group is answered twice, even by a run whose lock was lost to another:
\* the cursor makes a second publication of the same group a no-op
\* (publish_turn). A reply always answers up to its group's newest message.
SameGroupOnce ==
  \A d, e \in delivered : d # e /\ d.to # {} => Newest(d.to) # Newest(e.to)

\* No message is answered by two persona replies.
AnsweredOnce ==
  \A d, e \in delivered : d # e => d.to \cap e.to = {}

\* The response and the database agree on what became of the message, once
\* the visitor has read it: a reply means answered and in the history, an
\* apology or a fallback ("Not sent") means out of it for good. One failed
\* write while recovering does not break that: it takes both.
ToldTruth ==
  \A r \in Request : kind[r] = "message" =>
    /\ told[r] = "reply" => own[r] \in Answered /\ rows[own[r]] = "user"
    /\ told[r] = "no_reply" => own[r] \in ignored /\ rows[own[r]] = "user"
    /\ told[r] = "fallback" => rows[own[r]] = "unanswered"
    /\ told[r] = "apology" =>
         rows[own[r]] = "unanswered" \/ missed[r] = {"release", "retag"}

(***************************************************************************)
(* The ledger the turns implement: one message per request, its fate read  *)
(* off the rows, the cursor and the history.                               *)
(***************************************************************************)
FateOf(r) ==
  IF own[r] = 0 THEN "unsent"
  ELSE IF rows[own[r]] = "unanswered" THEN "dropped"
  ELSE IF own[r] > handled THEN "pending"
  ELSE IF own[r] \in Answered THEN "answered"
  ELSE IF own[r] \in ignored THEN "ignored" ELSE "lost"

Ledger == INSTANCE MessageLedger
  WITH Message <- Request, fate <- [r \in Request |-> FateOf(r)]

\* Whatever the interleaving, the crashes and the failed writes, as long as
\* the advisory lock is not lost, every message has one fate and pending
\* messages are settled together.
ImplementsLedger == Ledger!Spec

\* Every request that gets in is answered, whatever fails on the way.
EveryRequestEnds ==
  \A r \in Request : (pc[r] # "idle") ~> (pc[r] = "done")
=============================================================================
