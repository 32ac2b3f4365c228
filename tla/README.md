# A formal model of persona_stand_back

This directory holds TLA+ models of the chat backend in `src/app`, the TLC
configurations that check them on small instances, and proofs that TLAPS checks
for every instance. It is kept beside the code: each definition names, in
`PROJECT.json` under `map`, the lines it stands for.

## The system

A visitor talks to a persona. FastAPI serves the requests in one event loop per
worker process; PostgreSQL keeps the conversation; Gemini does the thinking.

| Component | State it keeps | Operations | Hard because |
|---|---|---|---|
| Conversation turns (`chat_service`, `conversation_manage_service`, `session_work`) | message rows, `last_handled_index`, two locks | a message, a continue, the release after a refusal, the recovery of a failed turn | every await interleaves with other requests; locks are lost; writes fail one by one |
| Prompt history and summaries (`get_recent_messages`, `summarization_service`) | `last_summarized_index`, `summary` | read the history, fold it in the background | jobs overlap with turns and with each other and store what they read seconds ago |
| Rate control (`rate_control_service`) | in-flight counts, session locks, pacing cursors (memory); daily counters (database) | reserve, spend, `turn()`, release | objects deleted and made anew between bursts; failures between two claims |
| Model pipeline (`model_collaborate_service`, `context_gatherer`, the gates, `response_parser`) and its usage record (`turn_metrics`) | the run of one turn: tasks, drafts, review rows, calls | gather, readiness, ground, reply, verify and regenerate, split, record | concurrent calls, cancellation, deadline, answers that are late, malformed or missing |
| Consent and invite codes (`consent_service`, `codes_router`, `dependencies/session`) | consent records, session ids, ownership | submit, withdraw, verify and rotate | act on a session whose turns are running |
| Example search (`bm25_service`, `models/corpus_cache`) | the tokenised corpus, as rows and as a copy per process | look up, load, compute, store, clear | turns of all processes, and the owner's `DELETE`, between any two statements |
| Seed loading (`models/seed/load`) | the content tables | read, fill, commit once | two loaders; turns that search meanwhile |
| Image publication (`scripts/publish_image.py`) | tags of a registry | push, mark, commit | stops between steps |

They interact through the database and a few calls. A request passes the gates
(length, consent, privacy, rate control), waits in `turn()` for its session's
turn in this process, then polls the advisory lock of `session_work` that orders
sessions across processes. It stores its message, runs the models on everything
pending, and publishes in one transaction that re-reads what may have changed.
Publishing schedules a summary job. Verifying an invite code or withdrawing
consent changes, from other requests, which session may do any of this.

What makes each part correct:

* turns: no message is lost, answered twice, or answered out of order; what the
  visitor is told agrees with the database;
* history: what took part in the conversation is remembered once, what was
  dropped is not;
* rate control: one turn of a session at a time, in order, paced; every slot
  comes back (but for one cancellation, see Findings); allowances hold;
* consent: nothing is stored or published for a session without consent, and a
  rotation never strands consent or conversations;
* model pipeline: what is shown passed the audit, what was rejected is kept, every call
  is stopped and paid for, and the run ends;
* corpus cache: a search after a `DELETE` uses the questions as they were then, or newer;
* seed loading: content is there once, however often it is loaded.

## The modules

### ChatTurns - one conversation, any interleaving

The core. One action per stretch of code between two awaits that touch shared
state. `pc[r]` says where a request's coroutine is suspended:

    idle -> queued -> locked -> cursor -> rows -> judge -> write -> publish -> done
                        |                  (any of these) -> record -> discard -> retag -> done
    idle -> gate -> release -> done                          a refused message

* `Arrive`/`Refuse` are the outcome of the gates; `queue` is `turn()`, `holder`
  the advisory lock. A request proceeds when it heads its worker's queue and the
  lock is free; the next to get a free lock is arbitrary, because waiters poll.
* `AppendUser`, `ReadCursor`, `ReadPending` are separate because awaits separate
  them, and `base` keeps the cursor as first read: the ORM session hands the same
  object to later reads until the transaction is rolled back.
* `Judge`, `RejectAttempt`, `Compose`, `GiveUp` are the run as the conversation
  sees it: a verdict, review rows, and a reply, a reply with a notice, or the
  fallback. What the models write is left out.
* `Publish...` is `publish_turn`, one transaction under the row lock. `Superseded`
  is its re-check.
* `RunFails` then `RecordError`, `ReleaseGroup`, `Retag` is `_handle_failed_turn`.
  Each write may fail by itself (`MissRelease`, `MissRetag`, the second disjunct
  of `RecordError`).
* `Cut` is a cancellation, an exception outside the guarded part, or the death of
  the process; `LoseLock` is the loss of the lock's connection.

Rows are their sender, numbered from 1; `handled` is `last_handled_index + 1`.
`told`, `delivered` and `ignored` record what visitors were told and what replies
answered; only properties read them, except that `Finish` answers "error" when
the lock was lost, because ending the lock's transaction then fails.

### MessageLedger - what ChatTurns implements

Each message has one fate, reached once: answered, deliberately ignored, or
dropped; and everything pending is settled together. `ImplementsLedger` maps a
ChatTurns state to the ledger by reading each request's fate off the rows, the
cursor and the history. A message that the cursor passed without any of these
has fate "lost", which the ledger does not have.

### Refusals - what a refusal releases

ChatTurns with one history variable: who was still to come when a message was
refused.

### Summarization - memory beside the turns

Extends ChatTurns, so every interleaving of turns is there, and adds the job each
publication schedules: `ReadForSummary` (the read session), the model call, and
`StoreSummary` (`mark_summarized_up_to`). A summary is the set of rows it was made
from. `RecentMessages` is `get_recent_messages`, as one pass over the rows: those the
SQL filter leaves out are skipped, and each of the rest goes through `DropWithheld`, the
loop body of `_drop_withheld_turns`, which pairs each notice with the user row before it.
It is written as a recursive function, so that it can be reasoned about. Reading the
conversation row and its messages is one step: a row added between the two statements
only makes the job read more.

### RateControl - slots, allowances, the session lock, pacing

One worker process, which runs one coroutine at a time: a step is what runs
between two awaits. `lockOf` is the dictionary `_locks`; a lock is named after the
request that created it, so a lock that is dropped while somebody uses it and
created again is a different one. `LockIsFree`, `LeaveLock` and the waiters are
`asyncio.Lock` (external: modelled from its use): a woken waiter has not got the
lock until it runs, and newcomers line up behind it. `cursor` and `wait` are
relative to now; `Tick` lets a second pass, never past a timer that is due.
A message of a guest claims a session slot, a daily unit, an IP slot and the IP's
daily unit, in that order; an invite session's only the first two; a continue
only the first. While a daily unit is being counted the request may fail
(`SpendFails`), which hands back what it claimed, or be cancelled
(`SpendCancelled`), which does not: the handlers there catch `Exception`, and the
`finally` that releases belongs to a `try` entered later. Such a request ends in
`session_cut` or `ip_cut`, and `KeepsSlot` and `KeepsIp` count it among those that
have a slot. From `turn()` on, failure and cancellation are one step (`CutShort`),
because the `finally` treats them alike.

### TurnQueue - what RateControl implements

A session's turns run one at a time in the order they were asked for. ChatTurns
assumes exactly this of `queue`; `ImplementsQueue` discharges it.

### SessionRotation - what a browser's session may do

One browser with several requests in flight: chat messages, `POST /api/consent`,
`/api/consent/withdraw` and `/api/code`. Each acts for the session its cookie named
when it was sent; answers arrive in any order and only a rotation's brings a new
cookie, because only `verify_code` changes the session after the page load.
`consents` and `conversations` are the tables. A chat turn is four steps here
(`CheckConsent`, `Acquire`, `Recheck`, `StoreMessage`/`PublishTurn`): what matters is
under which session it stores and publishes. `MatchCode` reads what a rotation will
move and `CommitRotation` writes it; a consent record inserted or withdrawn between
them is there for the commit to get wrong. `MatchCode` is one step although it reads the
conversation, the conversations to move and the records one after another. Of their rows
only the one linked to the code is locked from `MatchCode` on (`get_conversation_locked`);
the others are written, and locked, by the flush in `CommitRotation`, which waits for them
(`RowFree`). Two rotations may wait for each other's rows, when an advisory lock was lost:
then, or when the database fails before the commit, `RotationFails` rolls everything
back. Code, ownership and lockout failures of
`/api/code` all end in the refusing disjunct of `MatchCode`. `history` variables say
which messages were sent after the visitor was told that consent had ended
(`against`; not counted when a submission of consent overlaps the withdrawal), and
which retired sessions were agreed to again (`lapsed`).

### TurnPipeline - one run of the models

`pc` is the await the run is suspended at:

    context -> verdict -> both -> grounding -> reply -> audit -> split -> recording -> done
       |          |                   |                  | ^        |
       |          |                   |              review |       |
       |          |                   |            reviewed -> regen (back to audit)
       +----------+------ (an end) ---+--------------- or fallback, or failure

* `ReadContext` starts the three tasks of `ContextGatherer.gather` together; each has a
  state of its own in `task`, because they answer in any order, before or after the
  verdict, and may be cancelled. `Decide` is the early end of a held turn: it cancels
  two tasks and does not wait, so `CancelLands` comes later, even after the run.
* Each kind of call has its own way to fail: the readiness gate replies, the choices
  choose nothing, grounding and the writer fail the turn, the audit lets the draft pass,
  the split shows the reply in one piece.
* Drafts are numbers. `passed` is the draft `ResponseGate.check` returned, `shown` the
  text of the bubbles; `SplitText` is the parser's comparison of the two.
* `Stop` is the deadline of `_run_measured_model`, or a cancelled request, at any await.
  It leaves `exhausted` open when it hits the commit of the last review row.
* `spent` counts the calls sent and those that came back with usage; each costs one, and
  `Total` is the sum of `TurnMetrics.snapshot`, which is unknown as soon as a part is.

`input` is everything the database may hold for the run: messages waiting or none, topics
and search hits or none, and whether the request is a continue.

### ModelRun - what ChatTurns takes for granted

A run declines, keeps each rejected draft until one passes or the last is rejected, or
fails at any time. These are `Judge`, `RejectAttempt`, `Compose`, `GiveUp` and `RunFails`
of ChatTurns without the rest; `ImplementsRun` shows that TurnPipeline does this and
nothing else, so that the two can be read apart.

### CorpusCache - the examples a turn searches

A corpus is the version of `question_bank` it was computed from. `rows` is the table
`corpus_cache`; `copy` is the pair of class attributes of each process, which all its
turns share. Between any two statements of `_get_corpus` other turns, other processes,
the owner's edits and `DELETE` may run. `Insert` and `Commit` are separate because ids
are given out before the rows can be seen. `floor`, `cleared`, `raced` and `late` are
history.

### SeedLoad - filling the tables

Extends CorpusCache, so turns search while seeds are loaded. Three tables stand for ten,
one for each way of not loading twice. A loader's rows are in its session (`adds`) until
the one commit; `Conflict` is a unique key that another loader committed first.

## The runs

| Run | Instance | Shows |
|---|---|---|
| `turns_lossy` | 3 requests, 2 workers, 1 lost lock, 1 failure | `NoReplyOverPending`, `NothingSkipped`, `SameGroupOnce` rest on the re-check in `publish_turn`, not on the lock |
| `turns_locked` | 3 requests with a summary job each, 2 workers, 2 failures, threshold 2 | `AnsweredOnce`, `ToldTruth`, `ImplementsLedger` while the lock holds; no exchange is forgotten, and the summary only moves forward |
| `turns_live` | 2 requests, 2 workers, 1 lost lock, 2 failures, 2 attempts | every request that gets in ends |
| `summary_withheld` | 3 requests, 1 worker, no failure | violated: see Findings |
| `summary_dropped` | same | violated: see Findings |
| `refusal_order` | 2 requests | violated: see Findings |
| `rate_limits` | 3 requests, 2 sessions, 1 address, caps 2 and 3, allowances 1 (guest and address) and 2 (invite), 1 failure or cancellation | the properties of RateControl; every turn ends |
| `pipeline` | one run, with the real numbers of attempts (guest 2, invite 4) | cost, calls left running, what is shown, kept and recorded; the run ends; it is a ModelRun |
| `content` | 2 turns and 2 processes, 2 loaders, 1 edit, 1 `DELETE`, 3 rows | a process holds the corpus it says it holds; a `DELETE` takes effect but for one race; seeds are not doubled |
| `rotation` | 4 requests, 2 policies, 1 lost lock | the properties of SessionRotation |
| `withdrawal_crossed` | 3 requests | violated: see Findings |
| `retired_agreement` | 3 requests | violated: see Findings |

**Bounds.** Three requests are the least that hold a message, run on it and a
third, and interleave a release with both; two workers are what makes the
advisory lock matter. The bounds on losses, failures and attempts are named
constants, each large enough for the case it counts and for its meeting every
other. Two failures are needed in `turns_locked` because `_handle_failed_turn`
survives one. The summary threshold and the rate limits are scaled down (10 to 2,
quotas of hundreds to 1 and 2, seconds to 1 and 2) so that they are met: three messages
of one invite session pass its allowance of 2, three of one address its allowance of 1; the order
of the numbers is kept where the code relies on it. `turns_locked` has no lost lock, because `ToldTruth`, `AnsweredOnce` and
`ImplementsLedger` are only true without one, see Findings; the proofs state this as
`losses = 0`, for instances that may lose any number. In `rotation` four
requests let two rotations, a withdrawal and a message overlap; with three, a
withdrawal that crosses the answer of an earlier rotation does not happen. No
request of SessionRotation repeats a step, so with deadlock excluded each of them
ends. Symmetry is over requests and workers, only in runs without liveness.

`pipeline` needs no scaling: the numbers are the code's, and one run is all there is,
since a run shares nothing with another but the corpus. In `content` two turns suffice
for a store that crosses another's load, and each place serves one turn after another;
three rows are one for each computation that can overlap with the `DELETE` and one after
it; one edit separates old from new.

**Fairness.** Weak fairness of each request's own steps: the event loop resumes
what can run, the deadline bounds the models, and a waiter polls every 50 ms. With
finitely many requests the lock is free for good in the end, so weak fairness is
enough; a stream of new requests could starve a poller, which the code does not
exclude and the model does not claim. Nothing is assumed of arrivals, failures or
losses. In RateControl time also passes. In TurnPipeline only the deadline, the usage record
(which has a timeout of its own) and the delivery of cancellations are fair: no call need
ever come back.

**Deadlock** is checked in every run: `AllDone` and `Done` are the only states that may
stop.

## Findings

* `summary_withheld`: the rows a fallback notice answered are retagged and never
  reach `_drop_withheld_turns`, which then removes the user row before them: a
  message that had been left without a reply on purpose, and was part of the
  conversation, disappears from the history. With a fourth request it disappears from
  the stored summary too: a later job reads the history without it, while an earlier one
  that had it stores later or not at all. `SummaryMovesForward` therefore speaks of the
  messages of exchanges, which are safe; over three requests any row would have done.
* `summary_dropped`: a job reads messages still pending; when their turn fails they
  are retagged, and the stored summary keeps them.
* `refusal_order`: a refused message waits for the advisory lock outside the turn
  queue and releases whatever is held when it gets it, a message sent later
  included.
* `withdrawal_crossed`: a withdrawal that reaches the database after a rotation
  committed updates the old id's rows, of which there are none; the visitor is told
  that consent ended and the new session goes on with it.
* `retired_agreement`: an agreement in flight during a rotation is recorded under
  the old id, which is supposed to hold nothing.

With a lost lock the model also reaches two states the code does not claim to
exclude: a turn that read the cursor before another turn published and the rows
after it answers a message twice (together with a newer one, so `SameGroupOnce`
still holds); and a release in a turn whose lock went elsewhere can retag the
message another turn is working on, whose run then finds an empty group and
replies anyway.

`ToldTruth` is about the message a request sent itself: what became of the earlier
messages of its group is in `NothingSkipped`, `AnsweredOnce` and the ledger, which speak
of the database and not of what their senders were told. Nor does it forbid an error that
is told over a stored reply: a request whose lock was lost gets one on its way out,
whatever it has written (`Finish`).

Without a run of their own, smaller disagreements met on the way:

* A request cancelled while its daily unit is being counted keeps its in-flight slot, and
  a guest's that of its address, until the process ends: `rate_control_service.py:357` and
  `439` and `chat_service.py:158` hand back on `except Exception` only, and the `finally`
  at `chat_service.py:243` belongs to a `try` entered later. The docstring of
  `RateControlService` (line 188) says that nothing is retained about a session that is not
  talking, and `chat_service.py:166` that a failure there must not leak a slot. It takes a
  cancellation of the request itself, which the program does not ask for at that await;
  elsewhere it is written for one (`session_work.py:6`, `chat_service.py:361`), and the
  other models have cancellations at every await. `SpendCancelled` is this leak;
  `CountsExact` and `NothingKept` say that it is the only one.
* The calls of a turn. `constants.py:70` and `gemini_service.py` speak of 4 to 12
  sequential calls, for guests 8 at most. `SpendBounded` has the exact bound: 9 for a
  guest and 13 for an invite, the three concurrent ones included (7 and 11 one after the
  other); a held turn costs 1 to 3.
* `response_gate.py:257` says that the auditor's own failure must not fail the turn. An
  audit entry without its `reason`, or `violations` that are not a list, raises outside the
  guarded call and does (`AuditReturns`).
* `GroundingService.ground` promises a decline when its call fails; the orchestrator
  treats it as an error, and the turn fails (`GroundingReturns`).
* `corpus_cache.py` says that the `DELETE` genuinely takes effect. It does, except when a
  corpus computed before it is stored after it: `ClearTakesEffect` says that nothing else
  can go wrong. Its "stray duplicate is harmless" holds when both rows are of the same
  questions.
* The seed loader's docstring has the rows of `personality_reference` and `question_bank`
  skipped one by one; they are skipped together, when the table has any row. "It skips
  anything already present" does not hold for two loaders that overlap, on tables without
  keys (`LoadedOnce`).

## What is proved

Every invariant, action property and refinement of the passing runs is a theorem, for all
values of the constants; what stays with TLC is named at the end of this section.

The assumptions are those of the modules. Bounds and limits are natural numbers, and
positive where the code's are (`BoundsAreNat`, `LimitsAreNat`, `RotationBoundsAreNat`,
`ThresholdIsNat`, `RegenIsPositive`). `None` is not a value it could be mistaken for.
SessionRotation has finitely many requests, because its sessions are numbered by them.
RateControl has at least one session and one address (`SomebodyMayCall`), from which `Init`
takes the values of requests that were not made yet. Requests, workers, turns, processes
and loaders may otherwise be any sets, infinite ones included.

### ChatTurnsProofs - with or without the advisory lock

* `TypeCorrect`: `Spec => []TypeOK`;
* `RepliesKeepOrder`: `Spec => []NoReplyOverPending`. Inductive with TypeOK: a run
  that is not superseded has every USER row at or below its group's newest
  (`NothingNewer`), so publishing leaves nothing pending (`PublishSettlesAll`);
  every other step only shrinks the pending set or adds to its end.
* `CursorSkipsNothing`: `Spec => []NothingSkipped`. Not inductive. Strengthened by
  `BaseBehind` (a cursor read earlier is not ahead of the stored one) and
  `GroupWhole` (a gathered group is everything pending after that cursor, up to its
  newest). Together: whatever the cursor moves over was in the group.
* `GroupsAnsweredOnce`: `Spec => []SameGroupOnce`, with `RepliesBehind` (the cursor
  is at or past everything replied to).

`StepEffects`, `StepReferences` and `StepMoves` say once which steps touch which
variables, so that each invariant looks only at the steps that matter to it.
`BasicLemmas` has the facts on maxima and sequences they rest on.

### LockedTurnsProofs - what the lock adds

`losses = 0 => LockedInv`, for instances that may lose any number of locks: the invariant
holds up to the first loss. Its parts are needed together.

* `Serial`: who works holds the lock, so nobody else works.
* `WorkFits`: what the working turn has read is what the database still says. The base is
  the cursor, the group is everything pending, and its own message is pending until the
  turn settles it. This is the argument the code makes for reading before the models and
  writing after them, and it needs `Serial`.
* `Ownership`: each stored message is one request's row. A release in another turn could
  otherwise be mistaken for its own.
* `Settled`: what was answered or ignored lies below the cursor and is still a USER row.
* `Untold`: nobody is told anything before the end.

`SettlingSteps` reduces the steps of a turn to the four ways messages can move: appended,
answered, ignored, released. From these follow `MessagesAreAnsweredOnce`
(`[](losses = 0 => AnsweredOnce)`), `VisitorsAreToldTheTruth` (`[](losses = 0 => ToldTruth)`)
and `TurnsImplementLedger` (`Spec /\ [](losses = 0) => ImplementsLedger`): such a step
settles everything pending at once, or changes no fate.

### SummarizationProofs - memory

* `JobsLeaveTurnsAlone`: `SummarySpec => Spec`, so all of the above holds beside the jobs.
* `SummaryTypeCorrect`: `SummarySpec => []SummaryTypeOK`, with `ReadFits`: what a job has
  read are rows there are, and neither they nor its summary reach past the last one read.
* `ExchangesAreRemembered`: `SummarySpec => [](losses = 0 => ExchangesRemembered)`.
  The property says nothing of messages that are not answered yet, which a job may read
  and store, and is not inductive. Strengthened by `Remembered` and `Carried`: up to the
  checkpoint, and up to what a job in the model has read, every row that is part of an
  exchange or may still become part of one is in the summary, stored or to come. And
  `RepliesFollow`: between an answered message and the next notice stands the reply,
  which is why the pass never drops it (`Shielded`).
* `SummariesMoveForward`: `SummarySpec /\ [](losses = 0) => SummaryMovesForward`.

What the pass computes is proved by hand, because no induction over data is at hand: the
least row at which a claim about it fails is a contradiction (`RecentKeeps`, step
`GoodStep`). That the recursive function exists at all is proved the same way
(`PassExists`).

### RateControlProofs

* `RateControlTypeCorrect`: `Spec => []TypeOK`.
* `SlotsAreCountedExactly`: `Spec => []CountsExact`: each count is the number of requests in
  flight and of those cancelled while their daily unit was being counted, however the
  others ended. With the sets of these finite (there
  may be infinitely many requests), and `QuotaKinds`, which says who can be where a daily
  unit is claimed.
* `TurnsRunOneAtATime`: `Spec => []OneTurnAtATime`, from `LockInv`. Locks are dropped and
  made again, so the invariant speaks of lock objects: whoever has the lock has the one
  in the dictionary and owns it; whoever waits is in the queue of that one, once; an object
  that is not in the dictionary has neither owner nor queue. The step that matters is the
  release that drops the dictionary entry, and `SlotsAreCountedExactly` is what makes it
  safe: a count of zero means that nobody is waiting.
* `NothingIsKept`: `Spec => []NothingKept`, of sessions without a request in flight or
  cancelled at that await, and `AllowancesHold`: `Spec => []AllowanceHolds`,
  where a daily counter is at least the number of those who got past it (a request that
  fails later keeps its unit, so the counter may be more).
* `BurstsArePaced`: `Spec => BurstIsPaced`. What is known at a start is the cursor, and
  what has to hold is about the time of the last start: `CursorPaces` and `SleeperPaces`
  relate the two, through the ticks and the changes of tier.
* `LockImplementsQueue`: `Spec => ImplementsQueue`. The queue of TurnQueue is the owner of
  the session's lock followed by its waiters; joining it is taking the free lock or lining up.

### TurnPipelineProofs - for every number of tiers and attempts

* `TextIsVetted` and `ReviewIsComplete`, from `DraftInv`: until a draft is judged it is
  numbered one past those already rejected (`Underway`), which says at each await how many
  review rows and drafts there are. The two properties by themselves speak of finished
  runs only and are not inductive.
* `CallsStopped`, from `CallsInv`: where the run is suspended tells which tasks may still
  have a call out.
* `NoticeReplacesDecline`: the grounding is decided in one step, and the notice and the
  instruction agree on what usable facts are (`SupportedIsNotDeclined`).
* `SpendIsBounded`: `Spec => []SpendBounded`, from `CostInv`, which bounds the calls sent at
  each await by the number of drafts so far (two calls a draft), and in which a call that is
  out is sent and not known (needed for the record and for type correctness).
* `UsageIsTrue`: `Spec => []UsageTrue`, from `SavedInv`: nothing is recorded before the
  end, and the record is the total as it was when written.
* `PipelineTypeCorrect`: `Spec => []TypeOK`.
* `PipelineImplementsRun`: `Spec => ImplementsRun`. The simulation needs `DraftInv` and
  `GateInv`: only a message with others waiting is asked about, so only such a one is held
  back, and a continue with nothing held never gets past its reads.

### SessionRotationProofs

* `RotationTypeCorrect`: `Spec => []TypeOK`. That a new id is always at hand is a count: one
  at most was minted for each request that ended (`MintedOnce`).
* `LinksMoveWithTheirOwner`: `Spec => []LinkMovesWithOwner`, and `WithdrawalsAreKept`:
  `Spec => WithdrawnStays`.
* `TurnsKeepTheirOwner` and `RetiredSessionsKeepNothing`, from `losses = 0 => LockedInv`:
  a turn and a rotation of the same session hold the same lock, so what `MatchCode` read is
  still all there is to move when `CommitRotation` writes, agreements recorded meanwhile
  excepted (`CarriedWhole`), and a turn that has passed its second check owns its
  conversation (`TurnOwns`).
* `WithdrawalsLastUntilRotation`: `Spec => []WithdrawalLostOnlyToRotation`, whatever locks are
  lost. A withdrawal that no change of cookie crossed leaves every way to go on dead
  (`RefusalHolds`): the browser's own session, those of codes on their way, what rotations
  have read, and those a committed rotation is about to announce.

The last proof corrected the model: the run's three requests had not shown that a code sent
from an older session and still in flight also moves the visitor on later, so such a
withdrawal is now counted as crossed (`RotatesElsewhere`), and the run has four.

### SeedLoadProofs

* `CopiesAreTheirRows` and `ClearReachesEverySearch`: `SeedSpec => []CopyIsItsRow` and
  `SeedSpec => []ClearTakesEffect`, from `CacheInv`: an id that was given out names one row,
  the one in the table or the one a turn is about to commit (`OneRowPerId`, `Given`), and rows
  are as new as the last `DELETE` unless a stale one was stored (`RowsAreFresh`).
* `SeedIsLoadedOnce`: `SeedSpec => []LoadedOnce`, from `LoadInv`. In runs that do not overlap
  one loader loads at a time, and adds a row only to an empty table (`OneByOne`); in others, a loader
  that will write `question_bank` also writes the keyed table (`KeysGuardQuestions`), so that
  the second commit meets the unique key.
* `FirstLoadNeedsNoClear`: `SeedSpec => []LoadNeedsNoClear`, and `SeedTypeCorrect`.

### Only model-checked

`EveryRequestEnds`, `EveryTurnEnds` and `RunEnds`: liveness under fairness, and `ENABLED`
with it, are out of the prover's reach. So is the absence of deadlock. The runs that expect
a violation are TLC's by nature.

## Not modelled

* Prompt wording, the ranking arithmetic of the search (floats), logging and tracing,
  HTTP translation, startup and settings: text, numbers and input/output without state
  that steps could get wrong together.
* `content_validator`: pure checks of the shape of one document. A reference definition
  would repeat the checks.
* Conversation creation: a turn whose conversation is gone or foreign starts a new one,
  and for this one that is `TurnAway`.
* Days do not roll over in RateControl. The counters of failed invite codes and consent
  submissions are single increments; attempts in flight when the lockout begins pass it.
* The size of the two connection pools. An owner of the advisory lock never waits for a
  second connection of the coordination pool, and a poll that gets none raises, which is
  a `Cut`.
* `publish_image`: its workflow serialises publications, and a rerun checks the labels of
  what it finds.

## Plan

1. Done: ChatTurns, MessageLedger, Refusals, Summarization, RateControl, TurnQueue,
   SessionRotation, TurnPipeline, ModelRun, CorpusCache, SeedLoad.
2. Done: proofs of every safety property and refinement of the passing runs.
3. Left: what is true of the turns after a lock was lost and given up again. `losses = 0`
   in LockedTurnsProofs is for good, while the code recovers: a turn that starts after the
   damaged one has ended reads everything afresh. And what is left of `ToldTruth` and
   `ExchangesRemembered` when a lock was lost.
4. Left: the hazards of `PROJECT.json` that no property covers, first of all a code that is
   submitted twice (`codes_router.py:151`) and the lockout of failed attempts.
