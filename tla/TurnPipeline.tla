---------------------------- MODULE TurnPipeline ----------------------------
(***************************************************************************)
(* One run of the models, as app/services/model_collaborate_service.py     *)
(* orchestrates it under the deadline of ChatService._run_measured_model:  *)
(* database reads, three concurrent calls (readiness gate, topic choice,   *)
(* example choice), grounding, the reply, the gate that audits each draft  *)
(* and has it written again, and the split into messages.                  *)
(*                                                                         *)
(* pc is the await the coroutine is suspended at. Every call may answer,   *)
(* answer something else than it was asked for, or fail, and the deadline  *)
(* or a cancellation may come at any of these places. Drafts are numbered: *)
(* what they say is left out, whether they passed the audit is not.        *)
(***************************************************************************)
EXTENDS Integers, FiniteSets

CONSTANT RegenCounter  \* _REGEN_COUNTER: drafts a visitor of each tier gets audited

ASSUME RegenIsPositive == \A t \in DOMAIN RegenCounter : RegenCounter[t] \in Nat \ {0}

VARIABLES
  input,     \* the request: tier, skip_readiness, and what phase 1 will find
  pc,        \* where the run is suspended
  task,      \* the three concurrent tasks of gather
  decision,  \* the readiness verdict
  grounding, \* question_type and facts
  draft,     \* texts written so far; the number names the newest
  passed,    \* the draft check() returned, 0 while there is none
  rejected,  \* REGEN review rows written
  exhausted, \* the ERROR review row is written
  verdict,   \* the TurnOutcome, or how the run ended without one
  shown,     \* the text of reply_turns: a draft's number, 0 for none
  spent,     \* calls sent, and those whose usage the recorder knows
  saved      \* the usage record on the message row

review  == <<rejected, exhausted>>
texts   == <<grounding, draft, passed, shown>>
vars    == <<input, pc, task, decision, texts, review, verdict, spent, saved>>

Task       == {"readiness", "topics", "example"}
TaskStates == {"off", "out", "over", "cancelled"}
Decisions  == {"respond", "wait", "no_reply"}
Running    == {"context", "verdict", "both", "grounding", "reply", "audit", "review",
               "reviewed", "regen", "split"}
Questions  == {"factual", "behavioural", "conversational"}
Facts      == {"none", "blank", "some"}  \* an empty list, only blank strings, usable facts
Altered    == -1                         \* a text no draft says
Unknown    == -1                         \* a total of which a part is not known
None       == [status |-> "none", total |-> Unknown]
Regens     == RegenCounter[input.tier]

Goto(place) == pc' = place

\* The recorder's requests (turn_metrics.model_call, record_usage): so many
\* calls go out, so many came back with their usage.
Account(out, known) ==
  spent' = [sent |-> spent.sent + out, known |-> spent.known + known]

\* A call came back, with its usage or without, and so many more go out.
Returned(out) == \E known \in {0, 1} : Account(out, known)

Conclude(v) == verdict' = v /\ Goto("recording")

Fails == Conclude("failed")

-----------------------------------------------------------------------------
(***************************************************************************)
(* gather: phase 1, the three tasks, phase 3.                              *)
(***************************************************************************)

\* Mutant of Wanted: a continue asks the readiness gate as well.
WantedAlways == {t \in Task : (t = "topics" => input.topics) /\ (t = "example" => input.hits)}

\* The tasks that make a call; the others are over as soon as they start.
Wanted ==
  {t \in Task : /\ t = "readiness" => ~input.skip /\ input.held
                /\ t = "topics" => input.topics
                /\ t = "example" => input.hits}

\* Mutant of NothingHeld: a message that finds nothing waiting is not answered.
NoneHeld == ~input.held

NothingHeld == input.skip /\ ~input.held

\* Phase 1 has read all it needs. A continue with nothing held ends here;
\* otherwise the three tasks start together.
ReadContext ==
  /\ pc = "context"
  /\ IF NothingHeld
     THEN /\ decision' = "no_reply" /\ Conclude("no_reply")
          /\ UNCHANGED <<task, spent>>
     ELSE /\ task' = [t \in Task |-> IF t \in Wanted THEN "out" ELSE "over"]
          /\ Account(Cardinality(Wanted), 0)
          /\ decision' = IF "readiness" \in Wanted THEN decision ELSE "respond"
          /\ Goto("verdict")
          /\ UNCHANGED verdict
  /\ UNCHANGED <<input, texts, review, saved>>

\* ReadinessService.check: a failed or malformed answer means respond.
ReadinessReturns ==
  /\ task["readiness"] = "out"
  /\ task' = [task EXCEPT !["readiness"] = "over"]
  /\ decision' \in Decisions
  /\ Returned(0)
  /\ UNCHANGED <<input, pc, texts, review, verdict, saved>>

\* Topic and example choice: a failed or malformed answer means none.
ChoiceReturns(t) ==
  /\ t # "readiness" /\ task[t] = "out"
  /\ task' = [task EXCEPT ![t] = "over"]
  /\ Returned(0)
  /\ UNCHANGED <<input, pc, decision, texts, review, verdict, saved>>

Stopped(S) == [t \in Task |-> IF t \in S /\ task[t] = "out" THEN "cancelled" ELSE task[t]]

\* Mutant of Decide: the example task is left running.
DecideTopicsOnly ==
  /\ pc = "verdict" /\ task["readiness"] = "over"
  /\ IF decision = "respond" THEN Goto("both") /\ UNCHANGED <<task, verdict>>
     ELSE task' = Stopped({"topics"}) /\ Conclude(decision)
  /\ UNCHANGED <<input, decision, texts, review, spent, saved>>

\* gather has the verdict: to answer it needs the other two, otherwise it
\* cancels them, without waiting for that to take effect.
Decide ==
  /\ pc = "verdict" /\ task["readiness"] = "over"
  /\ IF decision = "respond" THEN Goto("both") /\ UNCHANGED <<task, verdict>>
     ELSE task' = Stopped({"topics", "example"}) /\ Conclude(decision)
  /\ UNCHANGED <<input, decision, texts, review, spent, saved>>

\* Both choices are there: phase 3 reads what they name, and grounding asks.
ReadReferences ==
  /\ pc = "both" /\ \A t \in Task : task[t] = "over"
  /\ Account(1, 0)
  /\ Goto("grounding")
  /\ UNCHANGED <<input, task, decision, texts, review, verdict, saved>>

\* A cancelled task receives its CancelledError.
CancelLands(t) ==
  /\ task[t] = "cancelled"
  /\ task' = [task EXCEPT ![t] = "over"]
  /\ UNCHANGED <<input, pc, decision, texts, review, verdict, spent, saved>>

-----------------------------------------------------------------------------
(***************************************************************************)
(* Grounding and the reply.                                                *)
(***************************************************************************)

\* Mutant of Unsupported: blank strings count as facts.
UnsupportedByList(g) == g.type = "factual" /\ g.facts = "none"

\* A question for facts, and no usable fact: the reply is fixed.
Unsupported(g) == g.type = "factual" /\ g.facts # "some"

\* _grounding_section: what the writer is told to do.
Instruction(g) ==
  CASE g.type = "conversational" -> "chat"
    [] g.type = "behavioural"    -> "reason"
    [] g.facts = "some"          -> "tell"
    [] OTHER                     -> "decline"

\* A failed or invalid answer fails the run.
GroundingReturns ==
  /\ pc = "grounding"
  /\ \/ Fails /\ Returned(0) /\ UNCHANGED texts
     \/ \E g \in [type : Questions, facts : Facts] :
          /\ grounding' = g
          /\ IF Unsupported(g)
             THEN Returned(0) /\ Conclude("notice")
             ELSE Returned(1) /\ Goto("reply") /\ UNCHANGED verdict
          /\ UNCHANGED <<draft, passed, shown>>
  /\ UNCHANGED <<input, task, decision, review, saved>>

\* _generate_reply, or a regeneration: the call fails and so does the run, or
\* there is a new draft, and it is audited.
DraftReturns ==
  /\ pc \in {"reply", "regen"}
  /\ \/ Fails /\ Returned(0) /\ UNCHANGED draft
     \/ draft' = draft + 1 /\ Returned(1) /\ Goto("audit") /\ UNCHANGED verdict
  /\ UNCHANGED <<input, task, decision, grounding, passed, shown, review, saved>>

-----------------------------------------------------------------------------
(***************************************************************************)
(* ResponseGate.check and ResponseParser.parse.                            *)
(***************************************************************************)

\* The draft passed. A short one is shown as it is; a long one goes to the
\* model that splits it.
Pass(text) ==
  /\ passed' = text
  /\ \/ shown' = text /\ Returned(0) /\ Conclude("reply")
     \/ Returned(1) /\ Goto("split") /\ UNCHANGED <<shown, verdict>>

\* The audit fails, is malformed, or has nothing it can quote: the draft
\* passes. A rejection with evidence goes to review, unless an entry without
\* its reason makes the gate itself fail.
AuditReturns ==
  /\ pc = "audit"
  /\ \/ Pass(draft)
     \/ Goto("review") /\ Returned(0) /\ UNCHANGED <<passed, shown, verdict>>
     \/ Fails /\ Returned(0) /\ UNCHANGED <<passed, shown>>
  /\ UNCHANGED <<input, task, decision, grounding, draft, review, saved>>

\* append_message(sender=REGEN), committed.
KeepRejected ==
  /\ pc = "review"
  /\ rejected' = rejected + 1
  /\ Goto("reviewed")
  /\ UNCHANGED <<input, task, decision, texts, exhausted, verdict, spent, saved>>

\* Mutant of LastAttempt: the last rejected draft is written once more.
LastAttemptLate == rejected > Regens

LastAttempt == rejected = Regens

Regenerate ==
  /\ pc = "reviewed" /\ ~LastAttempt
  /\ Account(1, 0)
  /\ Goto("regen")
  /\ UNCHANGED <<input, task, decision, texts, review, verdict, saved>>

\* Mutant of GiveUp: the last draft is returned after all.
GiveUpWithDraft ==
  /\ pc = "reviewed" /\ LastAttempt
  /\ exhausted' = TRUE
  /\ passed' = draft /\ shown' = draft
  /\ Conclude("reply")
  /\ UNCHANGED <<input, task, decision, grounding, draft, rejected, spent, saved>>

\* append_message(sender=ERROR), committed; the fallback is not split.
GiveUp ==
  /\ pc = "reviewed" /\ LastAttempt
  /\ exhausted' = TRUE
  /\ Conclude("fallback")
  /\ UNCHANGED <<input, task, decision, texts, rejected, spent, saved>>

\* Mutant of SplitText: whatever the model returned is shown.
SplitTextUnchecked(text) == text

\* A text that no longer says what passed is replaced by the one that did.
SplitText(text) == IF text = Altered THEN passed ELSE text

SplitReturns ==
  /\ pc = "split"
  /\ \E text \in {passed, Altered} : shown' = SplitText(text)
  /\ Returned(0)
  /\ Conclude("reply")
  /\ UNCHANGED <<input, task, decision, grounding, draft, passed, review, saved>>

-----------------------------------------------------------------------------
(***************************************************************************)
(* Failure, the deadline, and the usage record.                            *)
(***************************************************************************)

\* A database call of the run raises.
RunBreaks ==
  /\ \/ pc \in {"context", "review", "reviewed"}
     \/ pc = "both" /\ \A t \in Task : task[t] = "over"
  /\ Fails
  /\ UNCHANGED <<input, task, decision, texts, review, spent, saved>>

\* gather's except clause. The tasks it was awaiting are over when it gets
\* its CancelledError; the others are cancelled by then.
Interrupted ==
  task' = [t \in Task |->
    IF task[t] # "out" THEN task[t]
    ELSE IF pc = "both" \/ t = "readiness" THEN "over" ELSE "cancelled"]

\* Mutant of Stop: the deadline is that of the verdict, not of the run.
StopEarly(v) ==
  /\ pc \in {"context", "verdict", "both", "grounding"}
  /\ Interrupted
  /\ UNCHANGED exhausted
  /\ Conclude(v)
  /\ UNCHANGED <<input, decision, texts, rejected, spent, saved>>

\* wait_for cancels the run. The ERROR row may be committed all the same.
Stop(v) ==
  /\ pc \in Running
  /\ Interrupted
  /\ exhausted' \in {exhausted, pc = "reviewed" /\ LastAttempt}
  /\ Conclude(v)
  /\ UNCHANGED <<input, decision, texts, rejected, spent, saved>>

Deadline == Stop("timeout")
Cancel   == Stop("cancelled")

Status == IF verdict \in {"reply", "notice", "fallback"} THEN "respond" ELSE verdict

\* Mutant of Total: what is not known counts as nothing.
TotalOfKnown == spent.known

\* TurnMetrics.snapshot: a total exists only when every part is known.
Total == IF spent.known = spent.sent THEN spent.known ELSE Unknown

\* record_token_usage: the record is written, or that fails or takes too
\* long and is only logged.
RecordUsage ==
  /\ pc = "recording"
  /\ saved' \in {None, [status |-> Status, total |-> Total]}
  /\ Goto("done")
  /\ UNCHANGED <<input, task, decision, texts, review, verdict, spent>>

Init ==
  /\ input \in [tier : DOMAIN RegenCounter, skip : BOOLEAN, held : BOOLEAN,
                topics : BOOLEAN, hits : BOOLEAN]
  /\ pc = "context"
  /\ task = [t \in Task |-> "off"]
  /\ decision = "respond"
  /\ grounding = [type |-> "conversational", facts |-> "none"]
  /\ draft = 0 /\ passed = 0 /\ shown = 0
  /\ rejected = 0 /\ exhausted = FALSE
  /\ verdict = "none"
  /\ spent = [sent |-> 0, known |-> 0]
  /\ saved = None

Done == pc = "done" /\ (\A t \in Task : task[t] # "cancelled") /\ UNCHANGED vars

Next ==
  \/ ReadContext \/ ReadinessReturns \/ Decide \/ ReadReferences
  \/ \E t \in Task : ChoiceReturns(t) \/ CancelLands(t)
  \/ GroundingReturns \/ DraftReturns \/ AuditReturns
  \/ KeepRejected \/ Regenerate \/ GiveUp \/ SplitReturns
  \/ RunBreaks \/ Deadline \/ Cancel \/ RecordUsage \/ Done

Spec == Init /\ [][Next]_vars

\* The provider need not answer. The deadline passes, the record has a
\* timeout of its own, and the event loop delivers cancellations.
FairSpec ==
  Spec /\ WF_vars(Deadline) /\ WF_vars(RecordUsage) /\ \A t \in Task : WF_vars(CancelLands(t))

-----------------------------------------------------------------------------
Verdicts == {"none", "wait", "no_reply", "reply", "notice", "fallback", "failed",
             "timeout", "cancelled"}

TypeOK ==
  /\ input \in [tier : DOMAIN RegenCounter, skip : BOOLEAN, held : BOOLEAN,
                topics : BOOLEAN, hits : BOOLEAN]
  /\ pc \in Running \cup {"recording", "done"}
  /\ task \in [Task -> TaskStates]
  /\ decision \in Decisions
  /\ grounding \in [type : Questions, facts : Facts]
  /\ draft \in 0..Regens /\ passed \in 0..draft /\ shown \in 0..draft
  /\ rejected \in 0..draft /\ exhausted \in BOOLEAN
  /\ verdict \in Verdicts
  /\ spent.known \in 0..spent.sent
  /\ saved \in [status : Verdicts \cup {"respond"}, total : {Unknown} \cup 0..spent.sent]

\* No model call goes on for a turn that is over: the two that a wait or
\* no_reply verdict makes useless, and all three at the deadline, have been
\* told to stop before the outcome is published (ContextGatherer.gather).
NoCallOutlivesTurn == pc \in {"recording", "done"} => \A t \in Task : task[t] # "out"

\* The calls one turn can cost, retries included: three, grounding, the
\* reply, an audit of every draft, a regeneration between two audits, and
\* the split. A turn that is held costs the three at most, a continue never
\* asks the gate, and one with nothing held costs nothing.
SpendBounded ==
  LET gate == IF input.skip THEN 0 ELSE 1 IN
  /\ spent.sent <= gate + 2 + 1 + 1 + (2 * Regens - 1) + 1
  /\ verdict \in {"wait", "no_reply"} => spent.sent <= gate + 2
  /\ verdict = "notice" => spent.sent <= gate + 3
  /\ input.skip /\ ~input.held => spent.sent = 0

\* The visitor sees, word for word, a draft the gate let through, the newest
\* one; the fixed replies show no draft, although several may exist.
OnlyVettedText ==
  /\ verdict = "reply" => passed = draft /\ shown = passed /\ rejected < draft
  /\ verdict \in {"notice", "fallback", "wait", "no_reply"} => shown = 0

\* Every draft that was written before the one shown, and every draft when
\* none is shown, is kept for review, and a turn given up says so.
ReviewComplete ==
  /\ verdict = "reply" => rejected = draft - 1 /\ ~exhausted
  /\ verdict = "fallback" => rejected = draft /\ draft = Regens /\ exhausted
  /\ verdict = "notice" => draft = 0 /\ rejected = 0

\* The usage on record is the whole cost of the run or says it is not known:
\* calls cut off by the verdict or the deadline cost too. (Each call costs
\* one here.) The status on record is how the run ended.
UsageTrue ==
  saved # None => saved.total \in {Unknown, spent.sent} /\ saved.status = Status

\* The writer is never given the instruction to decline: a question for facts
\* without any is answered by the notice before (PromptBuilder, _grounding_section).
NeverToldToDecline ==
  pc \in {"reply", "audit", "review", "reviewed", "regen", "split"} => Instruction(grounding) # "decline"

\* A run ends, and its calls with it, even if the provider never answers.
RunEnds == <>[](pc = "done" /\ \A t \in Task : task[t] \notin {"out", "cancelled"})

Run == INSTANCE ModelRun
  WITH attempts <- Regens, skip <- input.skip, held <- input.held,
       verdict <- IF verdict \in {"timeout", "cancelled"} THEN "failed" ELSE verdict

\* The pipeline does what ChatTurns takes a run of the models to do.
ImplementsRun == Run!Spec
=============================================================================
