------------------------- MODULE TurnPipelineProofs -------------------------
(***************************************************************************)
(* Proofs about TurnPipeline, for every number of attempts of every tier.  *)
(***************************************************************************)
EXTENDS TurnPipeline, BasicLemmas

Early == {"context", "verdict", "both", "grounding", "reply"}
Over  == {"recording", "done"}

\* The part of TypeOK that does not count calls.
Typed ==
  /\ input.tier \in DOMAIN RegenCounter
  /\ pc \in Running \cup Over
  /\ task \in [Task -> TaskStates]
  /\ decision \in Decisions
  /\ draft \in Nat /\ rejected \in Nat /\ passed \in Nat /\ shown \in Nat

\* Where a run that is not over stands with its drafts.
Underway ==
  /\ pc \in Running => verdict = "none" /\ shown = 0 /\ ~exhausted
  /\ pc \in Early => draft = 0 /\ rejected = 0
  /\ pc \in {"audit", "review"} => draft = rejected + 1 /\ draft <= Regens
  /\ pc = "reviewed" => draft = rejected /\ draft <= Regens
  /\ pc = "regen" => draft = rejected /\ draft < Regens
  /\ pc = "split" => passed = draft /\ draft = rejected + 1 /\ draft <= Regens

DraftInv == Typed /\ Underway /\ OnlyVettedText /\ ReviewComplete

LEMMA AttemptsPositive ==
  ASSUME input.tier \in DOMAIN RegenCounter
  PROVE  Regens \in Nat /\ Regens >= 1
BY RegenIsPositive DEF Regens

\* Every step of a run keeps the numbers within their types.
LEMMA TypedStep ==
  ASSUME Typed, [Next]_vars
  PROVE  Typed'
<1>. USE DEF Typed, Running, Over, Task, TaskStates, Decisions, texts, review, vars
<1>1. CASE UNCHANGED vars
  BY <1>1
<1>2. CASE ReadContext
  BY <1>2 DEF ReadContext, Conclude, Goto
<1>3. CASE ReadinessReturns
  BY <1>3 DEF ReadinessReturns
<1>4. CASE Decide
  BY <1>4 DEF Decide, Stopped, Conclude, Goto
<1>5. CASE ReadReferences
  BY <1>5 DEF ReadReferences, Goto
<1>6. ASSUME NEW t \in Task, ChoiceReturns(t) \/ CancelLands(t)
      PROVE  Typed'
  BY <1>6 DEF ChoiceReturns, CancelLands
<1>7. CASE GroundingReturns
  BY <1>7 DEF GroundingReturns, Fails, Conclude, Goto
<1>8. CASE DraftReturns
  BY <1>8 DEF DraftReturns, Fails, Conclude, Goto
<1>9. CASE AuditReturns
  BY <1>9 DEF AuditReturns, Pass, Fails, Conclude, Goto
<1>10. CASE KeepRejected \/ Regenerate \/ GiveUp
  BY <1>10 DEF KeepRejected, Regenerate, GiveUp, Conclude, Goto
<1>11. CASE SplitReturns
  BY <1>11 DEF SplitReturns, SplitText, Conclude, Goto
<1>12. CASE RunBreaks \/ RecordUsage
  BY <1>12 DEF RunBreaks, RecordUsage, Fails, Conclude, Goto
<1>13. ASSUME NEW v, Stop(v)
       PROVE  Typed'
  BY <1>13 DEF Stop, Interrupted, Conclude, Goto
<1>14. CASE Done
  BY <1>1, <1>14 DEF Done
<1>. QED
  BY <1>1, <1>2, <1>3, <1>4, <1>5, <1>6, <1>7, <1>8, <1>9, <1>10, <1>11, <1>12, <1>13, <1>14
     DEF Next, Deadline, Cancel

\* A draft is numbered one past those already rejected, until it is judged.
LEMMA DraftStep ==
  ASSUME DraftInv, [Next]_vars
  PROVE  DraftInv'
<1>. /\ Typed /\ Underway /\ OnlyVettedText /\ ReviewComplete
     /\ Regens \in Nat /\ Regens >= 1
     /\ Typed'
  BY AttemptsPositive, TypedStep DEF DraftInv, Typed
<1>. USE DEF Underway, OnlyVettedText, ReviewComplete, Early, Over, Running, texts, review, vars
<1>. SUFFICES Underway' /\ OnlyVettedText' /\ ReviewComplete'
  BY DEF DraftInv
<1>1. CASE UNCHANGED vars
  BY <1>1 DEF Regens
<1>2. CASE ReadContext
  BY <1>2 DEF ReadContext, Conclude, Goto, Regens
<1>3. CASE ReadinessReturns
  BY <1>3 DEF ReadinessReturns, Regens
<1>4. CASE Decide
  BY <1>4 DEF Decide, Conclude, Goto, Regens, Typed, Decisions
<1>5. CASE ReadReferences
  BY <1>5 DEF ReadReferences, Goto, Regens
<1>6. ASSUME NEW t \in Task, ChoiceReturns(t) \/ CancelLands(t)
      PROVE  Underway' /\ OnlyVettedText' /\ ReviewComplete'
  BY <1>6 DEF ChoiceReturns, CancelLands, Regens
<1>7. CASE GroundingReturns
  BY <1>7 DEF GroundingReturns, Fails, Conclude, Goto, Regens
<1>8. CASE DraftReturns
  <2>1. CASE Fails
    BY <1>8, <2>1 DEF DraftReturns, Fails, Conclude, Goto
  <2>2. CASE draft' = draft + 1 /\ Goto("audit") /\ UNCHANGED verdict
    <3>1. pc' = "audit" /\ draft' = rejected' + 1 /\ draft' <= Regens
      BY <1>8, <2>2 DEF DraftReturns, Goto, Typed
    <3>2. verdict' = "none" /\ shown' = 0 /\ ~exhausted' /\ Regens' = Regens
      BY <1>8, <2>2 DEF DraftReturns, Regens
    <3>. QED
      BY <3>1, <3>2
  <2>. QED
    BY <1>8, <2>1, <2>2 DEF DraftReturns
<1>9. CASE AuditReturns
  BY <1>9 DEF AuditReturns, Pass, Fails, Conclude, Goto, Regens, Typed
<1>10. CASE KeepRejected
  BY <1>10 DEF KeepRejected, Goto, Regens, Typed
<1>11. CASE Regenerate
  BY <1>11 DEF Regenerate, LastAttempt, Goto, Regens, Typed
<1>12. CASE GiveUp
  BY <1>12 DEF GiveUp, LastAttempt, Conclude, Goto, Regens, Typed
<1>13. CASE SplitReturns
  BY <1>13 DEF SplitReturns, SplitText, Conclude, Goto, Regens, Typed
<1>14. CASE RunBreaks
  BY <1>14 DEF RunBreaks, Fails, Conclude, Goto, Regens
<1>15. CASE RecordUsage
  BY <1>15 DEF RecordUsage, Goto, Regens
<1>16. ASSUME NEW v \in {"timeout", "cancelled"}, Stop(v)
       PROVE  Underway' /\ OnlyVettedText' /\ ReviewComplete'
  BY <1>16 DEF Stop, Conclude, Goto, Regens
<1>17. CASE Done
  BY <1>1, <1>17 DEF Done
<1>. QED
  BY <1>1, <1>2, <1>3, <1>4, <1>5, <1>6, <1>7, <1>8, <1>9, <1>10, <1>11, <1>12, <1>13,
     <1>14, <1>15, <1>16, <1>17 DEF Next, Deadline, Cancel

LEMMA DraftInvariant == Spec => []DraftInv
<1>1. Init => DraftInv
  BY DEF Init, DraftInv, Typed, Underway, OnlyVettedText, ReviewComplete, Early, Over,
         Running, Task, TaskStates, Decisions
<1>2. DraftInv /\ [Next]_vars => DraftInv'
  BY DraftStep
<1>. QED
  BY <1>1, <1>2, PTL DEF Spec

\* What the visitor reads passed the gate, word for word, and was the newest
\* draft, however many attempts a tier has (ResponseGate.check, ResponseParser).
THEOREM TextIsVetted == Spec => []OnlyVettedText
<1>1. DraftInv => OnlyVettedText
  BY DEF DraftInv
<1>. QED
  BY <1>1, DraftInvariant, PTL

\* Every draft that was withheld is a review row, and a turn given up says so.
THEOREM ReviewIsComplete == Spec => []ReviewComplete
<1>1. DraftInv => ReviewComplete
  BY DEF DraftInv
<1>. QED
  BY <1>1, DraftInvariant, PTL

-----------------------------------------------------------------------------
\* Which tasks can have a call out, wherever the run is.
CallsInv ==
  /\ Typed
  /\ pc = "context" => \A t \in Task : task[t] = "off"
  /\ pc = "both" => task["readiness"] = "over"
  /\ pc \in Running \ {"context", "verdict", "both"} => \A t \in Task : task[t] = "over"
  /\ NoCallOutlivesTurn

LEMMA CallsStep ==
  ASSUME CallsInv, [Next]_vars
  PROVE  CallsInv'
<1>. Typed /\ Typed'
  BY TypedStep DEF CallsInv
<1>. USE DEF CallsInv, NoCallOutlivesTurn, Running, Over, texts, review, vars
<1>1. CASE UNCHANGED vars
  BY <1>1
<1>2. CASE ReadContext
  BY <1>2 DEF ReadContext, Conclude, Goto
<1>3. CASE ReadinessReturns
  BY <1>3 DEF ReadinessReturns, Typed, Task
<1>4. CASE Decide
  BY <1>4 DEF Decide, Stopped, Conclude, Goto, Typed, Task
<1>5. CASE ReadReferences
  BY <1>5 DEF ReadReferences, Goto
<1>6. ASSUME NEW t \in Task, ChoiceReturns(t) \/ CancelLands(t)
      PROVE  CallsInv'
  <2>1. task \in [Task -> TaskStates]
    BY DEF Typed
  <2>2. /\ task[t] \in {"out", "cancelled"} /\ task' = [task EXCEPT ![t] = "over"]
        /\ pc' = pc
    BY <1>6 DEF ChoiceReturns, CancelLands
  <2>3. \A u \in Task : task'[u] = IF u = t THEN "over" ELSE task[u]
    BY <2>1, <2>2
  <2>. QED
    BY <2>2, <2>3 DEF Task
<1>7. CASE GroundingReturns
  BY <1>7 DEF GroundingReturns, Fails, Conclude, Goto
<1>8. CASE DraftReturns
  BY <1>8 DEF DraftReturns, Fails, Conclude, Goto
<1>9. CASE AuditReturns
  BY <1>9 DEF AuditReturns, Pass, Fails, Conclude, Goto
<1>10. CASE KeepRejected \/ Regenerate \/ GiveUp
  BY <1>10 DEF KeepRejected, Regenerate, GiveUp, Conclude, Goto
<1>11. CASE SplitReturns
  BY <1>11 DEF SplitReturns, Conclude, Goto
<1>12. CASE RunBreaks
  BY <1>12 DEF RunBreaks, Fails, Conclude, Goto
<1>13. CASE RecordUsage
  BY <1>13 DEF RecordUsage, Goto
<1>14. ASSUME NEW v, Stop(v)
       PROVE  CallsInv'
  BY <1>14 DEF Stop, Interrupted, Conclude, Goto
<1>15. CASE Done
  BY <1>1, <1>15 DEF Done
<1>. QED
  BY <1>1, <1>2, <1>3, <1>4, <1>5, <1>6, <1>7, <1>8, <1>9, <1>10, <1>11, <1>12, <1>13,
     <1>14, <1>15 DEF Next, Deadline, Cancel

LEMMA CallsInvariant == Spec => []CallsInv
<1>1. Init => CallsInv
  BY DEF Init, CallsInv, Typed, NoCallOutlivesTurn, Running, Over, Task, TaskStates, Decisions
<1>2. CallsInv /\ [Next]_vars => CallsInv'
  BY CallsStep
<1>. QED
  BY <1>1, <1>2, PTL DEF Spec

\* When the outcome of a run is published, every call of its three concurrent
\* tasks has answered or was told to stop (ContextGatherer.gather).
THEOREM CallsStopped == Spec => []NoCallOutlivesTurn
<1>1. CallsInv => NoCallOutlivesTurn
  BY DEF CallsInv
<1>. QED
  BY <1>1, CallsInvariant, PTL

-----------------------------------------------------------------------------
(***************************************************************************)
(* What the writer is told: grounding decides it, and nothing else does.   *)
(***************************************************************************)
Writing == {"reply", "audit", "review", "reviewed", "regen", "split"}

LEMMA SupportedIsNotDeclined ==
  ASSUME NEW g \in [type : Questions, facts : Facts], ~Unsupported(g)
  PROVE  Instruction(g) # "decline"
<1>1. CASE g.type = "conversational"
  BY <1>1 DEF Instruction
<1>2. CASE g.type = "behavioural"
  BY <1>2 DEF Instruction
<1>3. CASE g.type = "factual"
  <2>1. g.facts = "some"
    BY <1>3 DEF Unsupported
  <2>. QED
    BY <1>3, <2>1 DEF Instruction
<1>. QED
  BY <1>1, <1>2, <1>3 DEF Questions

\* Outside GroundingReturns the grounding stays, and no step but one that
\* begins in Writing leads there.
LEMMA WritingStep ==
  ASSUME [Next]_vars, ~GroundingReturns
  PROVE  grounding' = grounding /\ (pc' \in Writing => pc \in Writing)
BY DEF Next, ReadContext, ReadinessReturns, Decide, ReadReferences, ChoiceReturns,
       CancelLands, DraftReturns, AuditReturns, Pass, KeepRejected, Regenerate, GiveUp,
       SplitReturns, RunBreaks, Deadline, Cancel, Stop, RecordUsage, Done, Fails,
       Conclude, Goto, Writing, texts, review, vars

LEMMA InstructionStep ==
  ASSUME NeverToldToDecline, [Next]_vars
  PROVE  NeverToldToDecline'
<1>1. CASE GroundingReturns
  <2>1. CASE Fails
    BY <2>1 DEF Fails, Conclude, Goto, NeverToldToDecline
  <2>2. CASE ~Fails
    <3>1. PICK g \in [type : Questions, facts : Facts] :
            /\ grounding' = g
            /\ IF Unsupported(g) THEN Returned(0) /\ Conclude("notice")
               ELSE Returned(1) /\ Goto("reply") /\ UNCHANGED verdict
      BY <1>1, <2>2 DEF GroundingReturns
    <3>2. CASE Unsupported(g)
      BY <3>1, <3>2 DEF Conclude, Goto, NeverToldToDecline
    <3>3. CASE ~Unsupported(g)
      <4>1. Instruction(g) # "decline"
        BY <3>3, SupportedIsNotDeclined
      <4>2. Instruction(grounding)' = Instruction(g)
        BY <3>1 DEF Instruction
      <4>. QED
        BY <4>1, <4>2 DEF NeverToldToDecline
    <3>. QED
      BY <3>2, <3>3
  <2>. QED
    BY <2>1, <2>2
<1>2. CASE ~GroundingReturns
  <2>1. grounding' = grounding /\ (pc' \in Writing => pc \in Writing)
    BY <1>2, WritingStep
  <2>2. Instruction(grounding)' = Instruction(grounding)
    BY <2>1 DEF Instruction
  <2>. QED
    BY <2>1, <2>2 DEF NeverToldToDecline, Writing
<1>. QED
  BY <1>1, <1>2

\* The writer is never told to decline: a question without usable facts has
\* been answered by the notice (model_orchestration, _grounding_section).
THEOREM NoticeReplacesDecline == Spec => []NeverToldToDecline
<1>1. Init => NeverToldToDecline
  BY DEF Init, NeverToldToDecline
<1>2. NeverToldToDecline /\ [Next]_vars => NeverToldToDecline'
  BY InstructionStep
<1>. QED
  BY <1>1, <1>2, PTL DEF Spec

-----------------------------------------------------------------------------
(***************************************************************************)
(* TurnPipeline implements ModelRun.                                       *)
(***************************************************************************)

\* Only a message with others before it is asked about, so only such a one is
\* held back; a continue with nothing held never gets past its reads.
GateInv ==
  /\ task["readiness"] = "out" => ~input.skip /\ input.held
  /\ pc \in Running /\ decision # "respond" => ~input.skip /\ input.held
  /\ pc \in Running \ {"context"} => (input.skip => input.held)

RunInv ==
  DraftInv /\ GateInv /\ exhausted \in BOOLEAN /\ input.skip \in BOOLEAN /\ input.held \in BOOLEAN

LEMMA GateStep ==
  ASSUME DraftInv, GateInv, [Next]_vars
  PROVE  GateInv'
<1>. task \in [Task -> TaskStates]
  BY DEF DraftInv, Typed
<1>. USE DEF GateInv, Running, texts, review, vars
<1>1. CASE UNCHANGED vars
  BY <1>1
<1>2. CASE ReadContext
  <2>1. CASE NothingHeld
    BY <1>2, <2>1 DEF ReadContext, Conclude, Goto
  <2>2. CASE ~NothingHeld
    <3>1. /\ input' = input /\ pc' = "verdict"
          /\ task' = [t \in Task |-> IF t \in Wanted THEN "out" ELSE "over"]
          /\ decision' = IF "readiness" \in Wanted THEN decision ELSE "respond"
      BY <1>2, <2>2 DEF ReadContext, Goto
    <3>2. "readiness" \in Wanted <=> ~input.skip /\ input.held
      BY DEF Wanted, Task
    <3>3. "readiness" \in Task
      BY DEF Task
    <3>4. task'["readiness"] = IF "readiness" \in Wanted THEN "out" ELSE "over"
      BY <3>1, <3>3
    <3>. QED
      BY <2>2, <3>1, <3>2, <3>4 DEF NothingHeld
  <2>. QED
    BY <2>1, <2>2
<1>3. CASE ReadinessReturns
  BY <1>3 DEF ReadinessReturns, Task
<1>4. CASE Decide
  BY <1>4 DEF Decide, Stopped, Conclude, Goto, Task
<1>5. CASE ReadReferences
  BY <1>5 DEF ReadReferences, Goto
<1>6. ASSUME NEW t \in Task, ChoiceReturns(t) \/ CancelLands(t)
      PROVE  GateInv'
  <2>1. /\ task' = [task EXCEPT ![t] = "over"]
        /\ pc' = pc /\ decision' = decision /\ input' = input
    BY <1>6 DEF ChoiceReturns, CancelLands
  <2>2. task'["readiness"] = "out" => task["readiness"] = "out"
    BY <2>1 DEF Task
  <2>. QED
    BY <2>1, <2>2
<1>7. CASE GroundingReturns
  BY <1>7 DEF GroundingReturns, Fails, Conclude, Goto
<1>8. CASE DraftReturns
  BY <1>8 DEF DraftReturns, Fails, Conclude, Goto
<1>9. CASE AuditReturns
  BY <1>9 DEF AuditReturns, Pass, Fails, Conclude, Goto
<1>10. CASE KeepRejected \/ Regenerate \/ GiveUp
  BY <1>10 DEF KeepRejected, Regenerate, GiveUp, Conclude, Goto
<1>11. CASE SplitReturns
  BY <1>11 DEF SplitReturns, Conclude, Goto
<1>12. CASE RunBreaks \/ RecordUsage
  BY <1>12 DEF RunBreaks, RecordUsage, Fails, Conclude, Goto
<1>13. ASSUME NEW v, Stop(v)
       PROVE  GateInv'
  <2>1. "readiness" \in Task
    BY DEF Task
  <2>2. task'["readiness"] # "out"
    BY <1>13, <2>1 DEF Stop, Interrupted
  <2>. QED
    BY <1>13, <2>2 DEF Stop, Conclude, Goto
<1>14. CASE Done
  BY <1>1, <1>14 DEF Done
<1>. QED
  BY <1>1, <1>2, <1>3, <1>4, <1>5, <1>6, <1>7, <1>8, <1>9, <1>10, <1>11, <1>12, <1>13,
     <1>14 DEF Next, Deadline, Cancel

LEMMA ExhaustedStep ==
  ASSUME exhausted \in BOOLEAN, [Next]_vars
  PROVE  exhausted' \in BOOLEAN
<1>1. exhausted' = exhausted \/ GiveUp \/ Deadline \/ Cancel
  BY Zenon DEF Next, ReadContext, ReadinessReturns, Decide, ReadReferences, ChoiceReturns,
         CancelLands, GroundingReturns, DraftReturns, AuditReturns, KeepRejected,
         Regenerate, SplitReturns, RunBreaks, RecordUsage, Done, review, vars
<1>2. GiveUp => exhausted' = TRUE
  BY DEF GiveUp
<1>3. ASSUME NEW v, Stop(v)
      PROVE  exhausted' \in BOOLEAN
  <2>1. exhausted' = exhausted \/ exhausted' = (pc = "reviewed" /\ LastAttempt)
    BY <1>3, Zenon DEF Stop
  <2>. QED
    BY <2>1, Zenon
<1>. QED
  BY <1>1, <1>2, <1>3, Zenon DEF Deadline, Cancel

LEMMA RunInvariant == Spec => []RunInv
<1>1. Init => RunInv
  <2>1. Init => DraftInv
    BY DEF Init, DraftInv, Typed, Underway, OnlyVettedText, ReviewComplete, Early, Over,
           Running, Task, TaskStates, Decisions
  <2>2. Init => GateInv /\ input.skip \in BOOLEAN /\ input.held \in BOOLEAN
    BY DEF Init, GateInv, Task
  <2>3. Init => exhausted \in BOOLEAN
    BY Zenon DEF Init
  <2>. QED
    BY <2>1, <2>2, <2>3, Zenon DEF RunInv
<1>2. RunInv /\ [Next]_vars => RunInv'
  <2>1. [Next]_vars => input' = input
    BY DEF Next, ReadContext, ReadinessReturns, Decide, ReadReferences, ChoiceReturns,
           CancelLands, GroundingReturns, DraftReturns, AuditReturns, KeepRejected,
           Regenerate, GiveUp, SplitReturns, RunBreaks, Deadline, Cancel, Stop,
           RecordUsage, Done, vars
  <2>. QED
    BY <2>1, DraftStep, GateStep, ExhaustedStep, Zenon DEF RunInv
<1>. QED
  BY <1>1, <1>2, PTL DEF Spec

LEMMA RunInitial == Init => Run!Init
  BY AttemptsPositive DEF Init, Run!Init

\* A step that leaves verdict, review rows and input alone is none of ModelRun.
Silent == UNCHANGED <<input, rejected, exhausted, verdict>>

LEMMA SilentStep ==
  ASSUME Silent
  PROVE  UNCHANGED Run!vars
BY DEF Silent, Run!vars, Run!inputs, Regens

LEMMA RunStep ==
  ASSUME RunInv, [Next]_vars
  PROVE  [Run!Next]_(Run!vars)
<1>. /\ Typed /\ Underway /\ GateInv /\ Regens \in Nat /\ Regens >= 1
     /\ input.skip \in BOOLEAN /\ input.held \in BOOLEAN
  BY AttemptsPositive DEF RunInv, DraftInv, Typed
<1>0. exhausted \in BOOLEAN
  BY Zenon DEF RunInv
<1>. USE DEF Underway, Early, Running, texts, review, vars
<1>1. CASE Silent
  BY <1>1, SilentStep
<1>2. CASE ReadContext
  <2>1. CASE NothingHeld
    <3>1. Run!Decline
      BY <1>2, <2>1 DEF ReadContext, NothingHeld, Conclude, Goto, Run!Decline, Run!Conclude,
                        Run!inputs, Regens
    <3>. QED
      BY <3>1 DEF Run!Next
  <2>2. CASE ~NothingHeld
    BY <1>1, <1>2, <2>2 DEF ReadContext, Silent
  <2>. QED
    BY <2>1, <2>2
<1>3. CASE Decide
  <2>1. CASE decision = "respond"
    BY <1>1, <1>3, <2>1 DEF Decide, Silent
  <2>2. CASE decision # "respond"
    <3>1. decision \in {"wait", "no_reply"} /\ ~input.skip /\ input.held
      BY <1>3, <2>2 DEF Decide, GateInv, Typed, Decisions
    <3>2. Run!Decline
      BY <1>3, <2>2, <3>1 DEF Decide, Conclude, Goto, Run!Decline, Run!Conclude,
                              Run!inputs, Regens
    <3>. QED
      BY <3>2 DEF Run!Next
  <2>. QED
    BY <2>1, <2>2
<1>4. ASSUME Fails, pc \in Running, UNCHANGED <<input, rejected, exhausted>>
      PROVE  Run!Next
  BY <1>4 DEF Fails, Conclude, Goto, Run!Next, Run!Fail, Run!Conclude, Run!inputs, Regens
<1>5. CASE GroundingReturns
  <2>1. CASE Fails
    BY <1>4, <1>5, <2>1 DEF GroundingReturns
  <2>2. CASE Conclude("notice")
    <3>1. Run!Compose
      BY <1>5, <2>2 DEF GroundingReturns, GateInv, Conclude, Goto, Run!Compose,
                        Run!Conclude, Run!inputs, Regens
    <3>. QED
      BY <3>1 DEF Run!Next
  <2>3. CASE UNCHANGED verdict
    BY <1>1, <1>5, <2>3 DEF GroundingReturns, Silent
  <2>. QED
    BY <1>5, <2>1, <2>2, <2>3 DEF GroundingReturns
<1>6. CASE DraftReturns
  <2>1. CASE Fails
    BY <1>4, <1>6, <2>1 DEF DraftReturns
  <2>2. CASE UNCHANGED verdict
    BY <1>1, <1>6, <2>2 DEF DraftReturns, Silent
  <2>. QED
    BY <1>6, <2>1, <2>2 DEF DraftReturns
<1>7. ASSUME Conclude("reply"), pc \in {"audit", "split"}, rejected < Regens,
             UNCHANGED <<input, review>>
      PROVE  Run!Next
  <2>1. Run!Compose
    BY <1>7 DEF GateInv, Conclude, Goto, Run!Compose, Run!Conclude, Run!inputs, Regens
  <2>. QED
    BY <2>1 DEF Run!Next
<1>8. CASE AuditReturns
  <2>1. CASE Fails
    BY <1>4, <1>8, <2>1 DEF AuditReturns
  <2>2. CASE Conclude("reply")
    BY <1>7, <1>8, <2>2 DEF AuditReturns, Typed
  <2>3. CASE UNCHANGED verdict
    BY <1>1, <1>8, <2>3 DEF AuditReturns, Silent
  <2>. QED
    BY <1>8, <2>1, <2>2, <2>3 DEF AuditReturns, Pass
<1>9. CASE KeepRejected
  <2>1. Run!Reject
    BY <1>9 DEF KeepRejected, Goto, Typed, Run!Reject, Run!inputs, Regens
  <2>. QED
    BY <2>1 DEF Run!Next
<1>10. CASE GiveUp
  <2>1. Run!GiveUp
    BY <1>10 DEF GiveUp, LastAttempt, Conclude, Goto, Run!GiveUp, Run!Conclude,
                 Run!inputs, Regens
  <2>. QED
    BY <2>1 DEF Run!Next
<1>11. CASE SplitReturns
  <2>1. rejected < Regens
    BY <1>11 DEF SplitReturns, Typed
  <2>. QED
    BY <1>7, <1>11, <2>1 DEF SplitReturns
<1>12. CASE RunBreaks
  BY <1>4, <1>12 DEF RunBreaks
<1>13. ASSUME NEW v \in {"timeout", "cancelled"}, Stop(v)
       PROVE  Run!Next
  <2>1. exhausted = FALSE /\ verdict = "none"
    <3>1. ~exhausted /\ verdict = "none"
      BY <1>13 DEF Stop
    <3>. QED
      BY <1>0, <3>1, Zenon
  <2>2. exhausted' = FALSE \/ exhausted' = (rejected = Regens)
    BY <1>13, <2>1, Zenon DEF Stop, LastAttempt
  <2>3. /\ verdict' = v /\ input' = input /\ rejected' = rejected
    BY <1>13 DEF Stop, Conclude
  <2>4. Run!Conclude("failed")
    BY <2>1, <2>3 DEF Run!Conclude, Run!inputs, Regens
  <2>5. exhausted' \in {exhausted, rejected = Regens}
    BY <2>1, <2>2, Zenon
  <2>. QED
    BY <2>4, <2>5 DEF Run!Next, Run!Fail
<1>14. CASE UNCHANGED vars
  BY <1>1, <1>14 DEF Silent
<1>15. CASE ReadinessReturns \/ ReadReferences \/ Regenerate \/ RecordUsage
  BY <1>1, <1>15 DEF ReadinessReturns, ReadReferences, Regenerate, RecordUsage, Silent
<1>16. ASSUME NEW t \in Task, ChoiceReturns(t) \/ CancelLands(t)
       PROVE  Silent
  BY <1>16 DEF ChoiceReturns, CancelLands, Silent
<1>. QED
  BY <1>1, <1>2, <1>3, <1>5, <1>6, <1>8, <1>9, <1>10, <1>11, <1>12, <1>13, <1>14, <1>15,
     <1>16 DEF Next, Deadline, Cancel, Done

\* The pipeline is a run as ChatTurns takes it to be, for any number of
\* attempts: what the conversation relies on is all it does.
THEOREM PipelineImplementsRun == Spec => ImplementsRun
<1>. QED
  BY RunInitial, RunInvariant, RunStep, PTL DEF Spec, ImplementsRun, Run!Spec

-----------------------------------------------------------------------------
(***************************************************************************)
(* Type correctness, and what a turn costs.                                *)
(***************************************************************************)
Inputs == [tier : DOMAIN RegenCounter, skip : BOOLEAN, held : BOOLEAN,
           topics : BOOLEAN, hits : BOOLEAN]

BoundsInv ==
  /\ input \in Inputs /\ grounding \in [type : Questions, facts : Facts]
  /\ draft <= Regens /\ passed <= draft /\ shown <= draft /\ rejected <= draft
  /\ verdict \in Verdicts /\ spent \in [sent : Nat, known : Nat]

LEMMA Accounted ==
  ASSUME spent \in [sent : Nat, known : Nat], NEW m \in Nat, NEW n \in Nat, Account(m, n)
  PROVE  /\ spent' \in [sent : Nat, known : Nat]
         /\ spent'.sent = spent.sent + m /\ spent'.known = spent.known + n
BY DEF Account

LEMMA ReturnAccounted ==
  ASSUME spent \in [sent : Nat, known : Nat], NEW m \in Nat, Returned(m)
  PROVE  /\ spent' \in [sent : Nat, known : Nat] /\ spent'.sent = spent.sent + m
         /\ spent'.known = spent.known \/ spent'.known = spent.known + 1
<1>1. PICK n \in {0, 1} : Account(m, n)
  BY DEF Returned
<1>. QED
  BY <1>1, Accounted

LEMMA WantedCount ==
  ASSUME input \in Inputs
  PROVE  /\ IsFiniteSet(Wanted) /\ Cardinality(Wanted) \in Nat
         /\ Cardinality(Wanted) = (IF "readiness" \in Wanted THEN 1 ELSE 0)
              + (IF "topics" \in Wanted THEN 1 ELSE 0) + (IF "example" \in Wanted THEN 1 ELSE 0)
         /\ "readiness" \in Wanted => ~input.skip
<1>. DEFINE A == Wanted \cap {"readiness"}
            B == Wanted \cap {"readiness", "topics"}
<1>1. Wanted \subseteq {"readiness", "topics", "example"}
  BY DEF Wanted, Task
<1>2. IsFiniteSet({}) /\ Cardinality({}) = 0
  BY FS_EmptySet
<1>3. /\ \A q : q # "readiness" => (q \in {} <=> q \in A)
      /\ \A q : q # "topics" => (q \in A <=> q \in B)
      /\ \A q : q # "example" => (q \in B <=> q \in Wanted)
      /\ "topics" \notin A /\ "example" \notin B
      /\ "readiness" \in A <=> "readiness" \in Wanted
      /\ "topics" \in B <=> "topics" \in Wanted
  BY <1>1
<1>. HIDE DEF A, B
<1>4. /\ IsFiniteSet(A) /\ Cardinality(A) \in Nat
      /\ Cardinality(A) = IF "readiness" \in Wanted THEN 1 ELSE 0
  <2>1. A = {} \/ A = {"readiness"}
    BY <1>3
  <2>2. IsFiniteSet({"readiness"}) /\ Cardinality({"readiness"}) = 1
    BY FS_Singleton
  <2>3. A = {} <=> "readiness" \notin Wanted
    BY <1>3, <2>1
  <2>. QED
    BY <1>2, <2>1, <2>2, <2>3
<1>5. /\ IsFiniteSet(B) /\ Cardinality(B) \in Nat
      /\ Cardinality(B) = Cardinality(A) + IF "topics" \in Wanted THEN 1 ELSE 0
  BY <1>3, <1>4, CountMoves
<1>6. /\ IsFiniteSet(Wanted) /\ Cardinality(Wanted) \in Nat
      /\ Cardinality(Wanted) = Cardinality(B) + IF "example" \in Wanted THEN 1 ELSE 0
  BY <1>3, <1>5, CountMoves
<1>7. "readiness" \in Wanted => ~input.skip
  BY DEF Wanted
<1>. QED
  BY <1>4, <1>5, <1>6, <1>7

LEMMA BoundsStep ==
  ASSUME DraftInv, BoundsInv, [Next]_vars
  PROVE  BoundsInv'
<1>. /\ Typed /\ Underway /\ Regens \in Nat /\ spent \in [sent : Nat, known : Nat] /\ input \in Inputs
  BY AttemptsPositive DEF DraftInv, Typed, BoundsInv
<1>0. BoundsInv /\ draft \in Nat /\ passed \in Nat /\ shown \in Nat /\ rejected \in Nat
  BY DEF Typed
<1>. USE DEF BoundsInv, texts, review, vars
<1>1. CASE UNCHANGED vars
  BY <1>1 DEF Regens
<1>2. CASE ReadContext
  <2>1. spent' \in [sent : Nat, known : Nat]
    BY <1>2, WantedCount, Accounted DEF ReadContext
  <2>. QED
    BY <1>2, <2>1 DEF ReadContext, Conclude, Verdicts, Regens
<1>3. CASE ReadinessReturns
  BY <1>3, ReturnAccounted DEF ReadinessReturns, Regens
<1>4. CASE Decide
  BY <1>4 DEF Decide, Conclude, Verdicts, Typed, Decisions, Regens
<1>5. CASE ReadReferences \/ Regenerate
  BY <1>5, Accounted DEF ReadReferences, Regenerate, Regens
<1>6. ASSUME NEW t \in Task, ChoiceReturns(t) \/ CancelLands(t)
      PROVE  BoundsInv'
  BY <1>6, ReturnAccounted DEF ChoiceReturns, CancelLands, Regens
<1>7. CASE GroundingReturns
  <2>1. spent' \in [sent : Nat, known : Nat]
    BY <1>7, ReturnAccounted DEF GroundingReturns
  <2>. QED
    BY <1>7, <2>1 DEF GroundingReturns, Fails, Conclude, Verdicts, Regens
<1>8. CASE DraftReturns
  <2>1. spent' \in [sent : Nat, known : Nat]
    BY <1>8, ReturnAccounted DEF DraftReturns
  <2>2. verdict' \in Verdicts
    BY <1>8 DEF DraftReturns, Fails, Conclude, Verdicts
  <2>3. draft' = draft \/ (draft' = draft + 1 /\ draft < Regens)
    BY <1>8, <1>0, AttemptsPositive DEF DraftReturns, Underway, Early, Typed
  <2>. QED
    BY <1>0, <1>8, <2>1, <2>2, <2>3 DEF DraftReturns, Regens
<1>9. CASE AuditReturns
  <2>1. spent' \in [sent : Nat, known : Nat]
    BY <1>9, ReturnAccounted DEF AuditReturns, Pass
  <2>2. verdict' \in Verdicts
    BY <1>9 DEF AuditReturns, Pass, Fails, Conclude, Verdicts
  <2>3. passed' \in {passed, draft} /\ shown' \in {shown, draft}
    BY <1>9 DEF AuditReturns, Pass
  <2>. QED
    BY <1>0, <1>9, <2>1, <2>2, <2>3 DEF AuditReturns, Regens
<1>10. CASE KeepRejected
  BY <1>0, <1>10 DEF KeepRejected, Underway, Regens
<1>11. CASE GiveUp
  BY <1>11 DEF GiveUp, Conclude, Verdicts, Regens
<1>12. CASE SplitReturns
  <2>1. spent' \in [sent : Nat, known : Nat]
    BY <1>12, ReturnAccounted DEF SplitReturns
  <2>. QED
    BY <1>0, <1>12, <2>1 DEF SplitReturns, SplitText, Conclude, Verdicts, Regens
<1>13. CASE RunBreaks \/ RecordUsage
  BY <1>13 DEF RunBreaks, RecordUsage, Fails, Conclude, Verdicts, Regens
<1>14. ASSUME NEW v \in {"timeout", "cancelled"}, Stop(v)
       PROVE  BoundsInv'
  BY <1>14 DEF Stop, Conclude, Verdicts, Regens
<1>15. CASE Done
  BY <1>1, <1>15 DEF Done
<1>. QED
  BY <1>1, <1>2, <1>3, <1>4, <1>5, <1>6, <1>7, <1>8, <1>9, <1>10, <1>11, <1>12, <1>13,
     <1>14, <1>15 DEF Next, Deadline, Cancel

LEMMA BoundsInvariant == Spec => []BoundsInv
<1>1. Init => BoundsInv
  <2>1. Init => input \in Inputs /\ grounding \in [type : Questions, facts : Facts]
    BY DEF Init, Inputs, Questions, Facts
  <2>2. Init => Regens >= 1 /\ Regens \in Nat
    BY AttemptsPositive DEF Init
  <2>. QED
    BY <2>1, <2>2 DEF Init, BoundsInv, Verdicts
<1>2. DraftInv /\ BoundsInv /\ [Next]_vars => BoundsInv'
  BY BoundsStep
<1>. QED
  BY <1>1, <1>2, DraftInvariant, PTL DEF Spec

\* What has been sent so far, wherever the run is; every call that is out is
\* one of them, and was not counted as known.
Gate   == IF input.skip THEN 0 ELSE 1
Out(t) == IF task[t] = "out" THEN 1 ELSE 0
Awaits == IF pc \in {"grounding", "reply", "audit", "regen", "split"} THEN 1 ELSE 0

CostInv ==
  /\ spent.known + Out("readiness") + Out("topics") + Out("example") + Awaits <= spent.sent
  /\ pc = "context" => spent.sent = 0
  /\ pc \in {"verdict", "both"} => spent.sent <= Gate + 2
  /\ pc = "grounding" => spent.sent <= Gate + 3
  /\ pc = "reply" => spent.sent <= Gate + 4
  /\ pc \in {"audit", "review", "reviewed"} => spent.sent <= Gate + 3 + 2 * draft
  /\ pc \in {"regen", "split"} => spent.sent <= Gate + 4 + 2 * draft
  /\ SpendBounded

SavedInv ==
  /\ pc # "done" => saved = None
  /\ saved # None => saved = [status |-> Status, total |-> Total]

\* With no calls of the tasks moving, only what is sent, what is known and
\* where the run stands matter.
LEMMA CostMoves ==
  ASSUME CostInv, spent \in [sent : Nat, known : Nat], spent' \in [sent : Nat, known : Nat],
         UNCHANGED <<input, task>>,
         NEW m \in {0, 1}, spent'.sent = spent.sent + m,
         spent'.known = spent.known \/ spent'.known = spent.known + Awaits
  PROVE  Awaits' <= m =>
           spent'.known + Out("readiness")' + Out("topics")' + Out("example")' + Awaits' <= spent'.sent
<1>. /\ Out("readiness")' = Out("readiness") /\ Out("topics")' = Out("topics")
     /\ Out("example")' = Out("example")
  BY DEF Out
<1>. DEFINE o == Out("readiness") + Out("topics") + Out("example")
<1>1. o \in Nat /\ Awaits \in {0, 1} /\ Awaits' \in {0, 1}
  BY DEF Out, Awaits
<1>. QED
  BY <1>1 DEF CostInv, Out

LEMMA CostStep ==
  ASSUME DraftInv, CallsInv, GateInv, BoundsInv, CostInv, [Next]_vars
  PROVE  CostInv'
<1>0. /\ Typed /\ Underway /\ Regens \in Nat /\ Regens >= 1 /\ draft \in Nat
      /\ spent \in [sent : Nat, known : Nat] /\ input \in Inputs
      /\ draft <= Regens /\ Gate \in {0, 1} /\ spent.sent \in Nat /\ spent.known \in Nat
      /\ \A t : Out(t) \in {0, 1}
      /\ SpendBounded
      /\ Awaits \in {0, 1}
  BY AttemptsPositive DEF DraftInv, Typed, BoundsInv, Gate, Out, CostInv, Awaits
<1>1. spent' \in [sent : Nat, known : Nat] /\ input' = input /\ Gate' = Gate /\ Regens' = Regens
  <2>1. input' = input
    BY DEF Next, ReadContext, ReadinessReturns, Decide, ReadReferences, ChoiceReturns,
           CancelLands, GroundingReturns, DraftReturns, AuditReturns, KeepRejected,
           Regenerate, GiveUp, SplitReturns, RunBreaks, Deadline, Cancel, Stop,
           RecordUsage, Done, vars
  <2>2. spent' \in [sent : Nat, known : Nat]
    BY BoundsStep DEF BoundsInv
  <2>. QED
    BY <2>1, <2>2 DEF Gate, Regens
<1>2. CASE ReadContext
  <2>1. CASE NothingHeld
    <3>1. spent' = spent /\ task' = task /\ verdict' = "no_reply" /\ pc' = "recording" /\ spent.sent = 0
      BY <1>2, <2>1 DEF ReadContext, Conclude, Goto, CostInv
    <3>. QED
      BY <1>0, <1>1, <3>1 DEF CostInv, SpendBounded, Gate, Out, Awaits
  <2>2. CASE ~NothingHeld
    <3>1. /\ task' = [t \in Task |-> IF t \in Wanted THEN "out" ELSE "over"]
          /\ Account(Cardinality(Wanted), 0) /\ pc' = "verdict" /\ verdict' = "none"
          /\ spent.sent = 0
      BY <1>0, <1>2, <2>2 DEF ReadContext, Goto, Underway, Running, CostInv
    <3>2. spent'.sent = Cardinality(Wanted) /\ spent'.known = spent.known /\ spent.known = 0
      <4>1. spent.known <= 0
        BY <1>0, <3>1 DEF CostInv
      <4>. QED
        BY <1>0, <3>1, <4>1, WantedCount, Accounted
    <3>3. /\ Out("readiness")' = IF "readiness" \in Wanted THEN 1 ELSE 0
          /\ Out("topics")' = IF "topics" \in Wanted THEN 1 ELSE 0
          /\ Out("example")' = IF "example" \in Wanted THEN 1 ELSE 0
      BY <3>1 DEF Out, Task
    <3>4. Awaits' = 0
      BY <3>1 DEF Awaits
    <3>5. spent'.sent <= Gate + 2
      BY <1>0, <3>2, WantedCount DEF Gate
    <3>6. spent'.known + Out("readiness")' + Out("topics")' + Out("example")' + Awaits' <= spent'.sent
      BY <1>0, <3>2, <3>3, <3>4, WantedCount
    <3>7. SpendBounded'
      BY <1>0, <1>1, <2>2, <3>1, <3>5 DEF SpendBounded, Gate, NothingHeld, Inputs
    <3>. QED
      BY <1>1, <3>1, <3>5, <3>6, <3>7 DEF CostInv
  <2>. QED
    BY <2>1, <2>2
<1>3. ASSUME NEW t \in Task, task[t] = "out", task' = [task EXCEPT ![t] = "over"], Returned(0),
             UNCHANGED <<pc, draft, verdict>>
      PROVE  CostInv'
  <2>1. /\ spent'.sent = spent.sent
        /\ spent'.known = spent.known \/ spent'.known = spent.known + 1
    BY <1>0, <1>3, ReturnAccounted
  <2>2. \A u \in Task : Out(u)' = IF u = t THEN 0 ELSE Out(u)
    BY <1>0, <1>3 DEF Out, Typed
  <2>3. Out(t) = 1 /\ Awaits' = Awaits
    BY <1>3 DEF Out, Awaits
  <2>4. spent'.known + Out("readiness")' + Out("topics")' + Out("example")' + Awaits' <= spent'.sent
    <3>1. spent.known + Out("readiness") + Out("topics") + Out("example") + Awaits <= spent.sent
      BY DEF CostInv
    <3>2. spent'.known \in Nat /\ spent'.sent \in Nat /\ "readiness" \in Task /\ "topics" \in Task /\ "example" \in Task
      BY <1>1 DEF Task
    <3>3. t \in {"readiness", "topics", "example"}
      BY DEF Task
    <3>4. spent'.known <= spent.known + 1
      BY <1>0, <2>1
    <3>. QED
      BY <1>0, <2>1, <2>2, <2>3, <3>1, <3>2, <3>3, <3>4
  <2>5. SpendBounded'
    BY <1>0, <1>1, <1>3, <2>1 DEF SpendBounded
  <2>. QED
    BY <1>1, <1>3, <2>1, <2>4, <2>5 DEF CostInv
<1>4. ASSUME NEW t \in Task, CancelLands(t)
      PROVE  CostInv'
  <2>1. \A u \in Task : Out(u)' <= Out(u) /\ Out(u)' \in {0, 1}
    BY <1>0, <1>4 DEF CancelLands, Out, Typed
  <2>2. UNCHANGED <<pc, draft, verdict, spent>> /\ Awaits' = Awaits
    BY <1>4 DEF CancelLands, texts, Awaits
  <2>3. "readiness" \in Task /\ "topics" \in Task /\ "example" \in Task
    BY DEF Task
  <2>4. spent'.known + Out("readiness")' + Out("topics")' + Out("example")' + Awaits' <= spent'.sent
    BY <1>0, <2>1, <2>2, <2>3 DEF CostInv
  <2>5. SpendBounded'
    BY <1>0, <1>1, <2>2 DEF SpendBounded
  <2>. QED
    BY <1>1, <2>2, <2>4, <2>5 DEF CostInv
\* The run is over, after as many calls as it had sent.
<1>5. ASSUME pc' = "recording", UNCHANGED <<input, draft>>,
             spent'.sent = spent.sent,
             spent'.known = spent.known \/ spent'.known = spent.known + Awaits,
             \A t \in Task : task'[t] = "out" => task[t] = "out",
             pc \in Running,
             verdict' \in {"wait", "no_reply"} => pc = "verdict",
             verdict' = "notice" => pc = "grounding"
      PROVE  CostInv'
  <2>1. Awaits' = 0 /\ \A t \in Task : Out(t)' <= Out(t) /\ Out(t)' \in {0, 1}
    BY <1>5 DEF Awaits, Out
  <2>2. "readiness" \in Task /\ "topics" \in Task /\ "example" \in Task
    BY DEF Task
  <2>3. spent'.known \in Nat /\ spent'.known <= spent.known + Awaits
    BY <1>0, <1>1, <1>5
  <2>4. spent'.known + Out("readiness")' + Out("topics")' + Out("example")' + Awaits' <= spent'.sent
    BY <1>0, <1>5, <2>1, <2>2, <2>3 DEF CostInv
  <2>5. SpendBounded'
    BY <1>0, <1>1, <1>5 DEF SpendBounded, CostInv, Gate
  <2>. QED
    BY <1>5, <2>4, <2>5 DEF CostInv
\* The run goes on, with so many more calls.
<1>6. ASSUME NEW m \in {0, 1}, UNCHANGED <<input, task>>, verdict' = "none",
             spent'.sent = spent.sent + m,
             spent'.known = spent.known \/ spent'.known = spent.known + Awaits,
             pc \in Running \ {"context"}, pc' \in Running \ {"context", "verdict", "both"},
             Awaits' <= m,
             pc' = "grounding" => spent'.sent <= Gate + 3,
             pc' = "reply" => spent'.sent <= Gate + 4,
             pc' \in {"audit", "review", "reviewed"} => spent'.sent <= Gate + 3 + 2 * draft',
             pc' \in {"regen", "split"} => spent'.sent <= Gate + 4 + 2 * draft',
             draft' \in Nat, draft' <= Regens
      PROVE  CostInv'
  <2>1. spent'.known + Out("readiness")' + Out("topics")' + Out("example")' + Awaits' <= spent'.sent
    BY <1>0, <1>1, <1>6, CostMoves
  <2>2. spent'.sent \in Nat /\ spent'.sent <= Gate + 4 + 2 * Regens
    BY <1>0, <1>1, <1>6 DEF Running
  <2>3. ~(input.skip /\ ~input.held)
    BY <1>6 DEF GateInv
  <2>4. SpendBounded'
    BY <1>0, <1>1, <1>6, <2>2, <2>3 DEF SpendBounded, Gate
  <2>. QED
    BY <1>1, <1>6, <2>1, <2>4 DEF CostInv
<1>7. ASSUME UNCHANGED <<input, task, draft, verdict, spent>>,
             pc' = pc \/ (pc = "verdict" /\ pc' = "both") \/ (pc = "recording" /\ pc' = "done")
      PROVE  CostInv'
  <2>1. Awaits' = Awaits /\ \A u : Out(u)' = Out(u)
    BY <1>7 DEF Awaits, Out
  <2>2. SpendBounded'
    BY <1>0, <1>1, <1>7 DEF SpendBounded
  <2>. QED
    BY <1>1, <1>7, <2>1, <2>2 DEF CostInv
<1>8. CASE ReadinessReturns
  BY <1>3, <1>8 DEF ReadinessReturns, texts, Task
<1>9. ASSUME NEW t \in Task, ChoiceReturns(t)
      PROVE  CostInv'
  BY <1>3, <1>9 DEF ChoiceReturns, texts
<1>10. CASE Decide
  <2>1. CASE decision = "respond"
    BY <1>7, <1>10, <2>1 DEF Decide, Goto, texts
  <2>2. CASE decision # "respond"
    <3>1. /\ pc' = "recording" /\ verdict' = decision /\ pc = "verdict" /\ spent' = spent
          /\ task' = Stopped({"topics", "example"}) /\ UNCHANGED <<input, draft>>
      BY <1>10, <2>2 DEF Decide, Conclude, Goto, texts
    <3>2. \A t \in Task : task'[t] = "out" => task[t] = "out"
      BY <3>1 DEF Stopped
    <3>3. pc \in Running /\ decision \in Decisions
      BY <1>0, <3>1 DEF Running, Typed
    <3>. QED
      BY <1>5, <3>1, <3>2, <3>3 DEF Decisions
  <2>. QED
    BY <2>1, <2>2
<1>11. CASE ReadReferences
  <2>1. /\ pc = "both" /\ pc' = "grounding" /\ UNCHANGED <<input, task, draft, verdict>>
        /\ spent'.sent = spent.sent + 1 /\ spent'.known = spent.known
    BY <1>0, <1>11, Accounted DEF ReadReferences, Goto, texts
  <2>2. verdict = "none" /\ Awaits' = 1 /\ spent'.sent <= Gate + 3
    BY <1>0, <2>1 DEF Underway, Running, Awaits, CostInv
  <2>. QED
    BY <1>0, <1>6, <2>1, <2>2 DEF Running
<1>12. CASE GroundingReturns
  <2>1. pc = "grounding" /\ UNCHANGED <<input, task, draft>> /\ Awaits = 1 /\ pc \in Running /\ verdict = "none"
    BY <1>0, <1>12 DEF GroundingReturns, Awaits, Running, Underway, texts
  <2>2. CASE Returned(0) /\ (Fails \/ Conclude("notice"))
    BY <1>0, <1>5, <2>1, <2>2, <1>12, ReturnAccounted DEF GroundingReturns, Fails, Conclude, Goto
  <2>3. CASE Returned(1) /\ Goto("reply") /\ UNCHANGED verdict
    <3>1. /\ spent'.sent = spent.sent + 1 /\ pc' = "reply" /\ Awaits' = 1
          /\ spent'.known = spent.known \/ spent'.known = spent.known + Awaits
      BY <1>0, <2>1, <2>3, ReturnAccounted DEF Goto, Awaits
    <3>2. spent'.sent <= Gate + 4
      BY <1>0, <2>1, <3>1 DEF CostInv
    <3>. QED
      BY <1>0, <1>6, <2>1, <2>3, <3>1, <3>2 DEF Running
  <2>. QED
    BY <1>12, <2>2, <2>3 DEF GroundingReturns
<1>13. CASE DraftReturns
  <2>1. pc \in {"reply", "regen"} /\ UNCHANGED <<input, task>> /\ Awaits = 1 /\ pc \in Running /\ verdict = "none"
    BY <1>0, <1>13 DEF DraftReturns, Awaits, Running, Underway
  <2>2. CASE Returned(0) /\ Fails /\ UNCHANGED draft
    BY <1>0, <1>5, <2>1, <2>2, ReturnAccounted DEF Fails, Conclude, Goto
  <2>3. CASE draft' = draft + 1 /\ Returned(1) /\ Goto("audit") /\ UNCHANGED verdict
    <3>1. /\ spent'.sent = spent.sent + 1 /\ pc' = "audit" /\ Awaits' = 1
          /\ spent'.known = spent.known \/ spent'.known = spent.known + Awaits
      BY <1>0, <2>1, <2>3, ReturnAccounted DEF Goto, Awaits
    <3>2. draft' \in Nat /\ draft' <= Regens
      BY <1>0, <2>1, <2>3 DEF Underway, Early
    <3>3. spent'.sent <= Gate + 3 + 2 * draft'
      <4>1. pc = "reply" => draft = 0
        BY <1>0 DEF Underway, Early
      <4>2. spent.sent <= Gate + 4 + 2 * draft
        BY <1>0, <2>1, <4>1 DEF CostInv
      <4>. QED
        BY <1>0, <2>3, <3>1, <4>2
    <3>. QED
      BY <1>0, <1>6, <2>1, <2>3, <3>1, <3>2, <3>3 DEF Running
  <2>. QED
    BY <1>13, <2>2, <2>3 DEF DraftReturns
<1>14. CASE AuditReturns
  <2>1. pc = "audit" /\ UNCHANGED <<input, task, draft>> /\ Awaits = 1 /\ pc \in Running /\ verdict = "none"
    BY <1>0, <1>14 DEF AuditReturns, Awaits, Running, Underway
  <2>2. CASE Returned(0) /\ (Fails \/ Conclude("reply"))
    BY <1>0, <1>5, <2>1, <2>2, ReturnAccounted DEF Fails, Conclude, Goto
  <2>3. CASE Returned(0) /\ Goto("review") /\ UNCHANGED verdict
    <3>1. /\ spent'.sent = spent.sent + 0 /\ pc' = "review" /\ Awaits' = 0
          /\ spent'.known = spent.known \/ spent'.known = spent.known + Awaits
      BY <1>0, <2>1, <2>3, ReturnAccounted DEF Goto, Awaits
    <3>2. spent'.sent <= Gate + 3 + 2 * draft'
      BY <1>0, <2>1, <3>1 DEF CostInv
    <3>. QED
      BY <1>0, <1>6, <2>1, <2>3, <3>1, <3>2 DEF Running
  <2>4. CASE Returned(1) /\ Goto("split") /\ UNCHANGED verdict
    <3>1. /\ spent'.sent = spent.sent + 1 /\ pc' = "split" /\ Awaits' = 1
          /\ spent'.known = spent.known \/ spent'.known = spent.known + Awaits
      BY <1>0, <2>1, <2>4, ReturnAccounted DEF Goto, Awaits
    <3>2. spent'.sent <= Gate + 4 + 2 * draft'
      BY <1>0, <2>1, <3>1 DEF CostInv
    <3>. QED
      BY <1>0, <1>6, <2>1, <2>4, <3>1, <3>2 DEF Running
  <2>. QED
    BY <1>14, <2>2, <2>3, <2>4 DEF AuditReturns, Pass
<1>15. CASE KeepRejected
  <2>1. /\ pc = "review" /\ pc' = "reviewed" /\ UNCHANGED <<input, task, draft, verdict, spent>>
        /\ verdict = "none" /\ Awaits' = 0 /\ spent'.sent = spent.sent + 0
    BY <1>0, <1>15 DEF KeepRejected, Goto, texts, Underway, Running, Awaits
  <2>2. spent'.sent <= Gate + 3 + 2 * draft'
    BY <2>1 DEF CostInv
  <2>. QED
    BY <1>0, <1>6, <2>1, <2>2 DEF Running
<1>16. CASE Regenerate
  <2>1. /\ pc = "reviewed" /\ pc' = "regen" /\ UNCHANGED <<input, task, draft, verdict>>
        /\ verdict = "none" /\ Awaits' = 1
        /\ spent'.sent = spent.sent + 1 /\ spent'.known = spent.known
    BY <1>0, <1>16, Accounted DEF Regenerate, Goto, texts, Underway, Running, Awaits
  <2>2. spent'.sent <= Gate + 4 + 2 * draft'
    BY <1>0, <2>1 DEF CostInv
  <2>. QED
    BY <1>0, <1>6, <2>1, <2>2 DEF Running
<1>17. CASE GiveUp \/ RunBreaks
  <2>1. pc \in Running /\ UNCHANGED <<input, task, draft, spent>> /\ pc' = "recording"
        /\ verdict' \in {"fallback", "failed"}
    BY <1>17 DEF GiveUp, RunBreaks, Fails, Conclude, Goto, texts, Running
  <2>. QED
    BY <1>5, <2>1
<1>18. CASE SplitReturns
  <2>1. pc = "split" /\ UNCHANGED <<input, task, draft>> /\ Awaits = 1 /\ pc \in Running
        /\ pc' = "recording" /\ verdict' = "reply" /\ Returned(0)
    BY <1>18 DEF SplitReturns, Conclude, Goto, Awaits, Running
  <2>. QED
    BY <1>0, <1>5, <2>1, ReturnAccounted
<1>19. ASSUME NEW v \in {"timeout", "cancelled"}, Stop(v)
       PROVE  CostInv'
  <2>1. pc \in Running /\ UNCHANGED <<input, draft, spent>> /\ pc' = "recording" /\ verdict' = v
    BY <1>19 DEF Stop, Conclude, Goto, texts
  <2>2. \A t \in Task : task'[t] = "out" => task[t] = "out"
    BY <1>19 DEF Stop, Interrupted
  <2>. QED
    BY <1>5, <2>1, <2>2
<1>20. CASE RecordUsage \/ Done \/ UNCHANGED vars
  BY <1>7, <1>20 DEF RecordUsage, Done, Goto, texts, vars
<1>. QED
  BY <1>2, <1>4, <1>8, <1>9, <1>10, <1>11, <1>12, <1>13, <1>14, <1>15, <1>16, <1>17, <1>18,
     <1>19, <1>20 DEF Next, Deadline, Cancel

LEMMA SavedStep ==
  ASSUME SavedInv, NoCallOutlivesTurn, [Next]_vars
  PROVE  SavedInv'
<1>1. CASE pc = "done"
  <2>1. UNCHANGED <<verdict, spent, saved, pc>>
    BY <1>1 DEF NoCallOutlivesTurn, Next, ReadContext, ReadinessReturns, Decide, ReadReferences,
           ChoiceReturns, CancelLands, GroundingReturns, DraftReturns, AuditReturns, KeepRejected,
           Regenerate, GiveUp, SplitReturns, RunBreaks, Deadline, Cancel, Stop, Running,
           RecordUsage, Done, vars, Task
  <2>. QED
    BY <2>1 DEF SavedInv, Status, Total
<1>2. CASE RecordUsage
  BY <1>2 DEF RecordUsage, Goto, SavedInv, Status, Total
<1>3. CASE pc # "done" /\ ~RecordUsage
  <2>1. saved' = saved
    BY <1>3 DEF Next, ReadContext, ReadinessReturns, Decide, ReadReferences,
           ChoiceReturns, CancelLands, GroundingReturns, DraftReturns, AuditReturns, KeepRejected,
           Regenerate, GiveUp, SplitReturns, RunBreaks, Deadline, Cancel, Stop,
           Done, vars
  <2>2. saved = None
    BY <1>3 DEF SavedInv
  <2>. QED
    BY <2>1, <2>2 DEF SavedInv, None
<1>. QED
  BY <1>1, <1>2, <1>3

LEMMA CostInvariant == Spec => [](CostInv /\ SavedInv)
<1>1. Init => CostInv /\ SavedInv
  <2>. SUFFICES ASSUME Init PROVE CostInv /\ SavedInv
    OBVIOUS
  <2>1. /\ pc = "context" /\ verdict = "none" /\ spent.sent = 0 /\ spent.known = 0 /\ saved = None
        /\ \A t \in Task : task[t] = "off"
        /\ Regens \in Nat /\ Regens >= 1 /\ Gate \in {0, 1}
    BY AttemptsPositive DEF Init, Gate
  <2>2. Out("readiness") = 0 /\ Out("topics") = 0 /\ Out("example") = 0 /\ Awaits = 0
    BY <2>1 DEF Out, Task, Awaits
  <2>3. SpendBounded
    BY <2>1 DEF SpendBounded, Gate
  <2>. QED
    BY <2>1, <2>2, <2>3 DEF CostInv, SavedInv
<1>2. RunInv /\ CallsInv /\ BoundsInv /\ (CostInv /\ SavedInv) /\ [Next]_vars => (CostInv /\ SavedInv)'
  BY CostStep, SavedStep DEF RunInv, CallsInv
<1>. QED
  BY <1>1, <1>2, CallsInvariant, RunInvariant, BoundsInvariant, PTL DEF Spec

\* However a run branches, retries and breaks off, it costs no more calls than
\* its drafts allow, and a turn that is held back costs the first three.
THEOREM SpendIsBounded == Spec => []SpendBounded
<1>1. CostInv => SpendBounded
  BY DEF CostInv
<1>. QED
  BY <1>1, CostInvariant, PTL

\* The total on record is every call that was sent, or unknown: calls cut off
\* by the verdict or the deadline are never missing from it.
THEOREM UsageIsTrue == Spec => []UsageTrue
<1>1. BoundsInv /\ SavedInv => UsageTrue
  BY DEF BoundsInv, SavedInv, UsageTrue, Total
<1>. QED
  BY <1>1, CostInvariant, BoundsInvariant, PTL

\* Drafts, verdicts, calls and the record stay within their types.
THEOREM PipelineTypeCorrect == Spec => []TypeOK
<1>1. RunInv /\ BoundsInv /\ (CostInv /\ SavedInv) => TypeOK
  <2>. SUFFICES ASSUME RunInv, BoundsInv, CostInv, SavedInv PROVE TypeOK
    OBVIOUS
  <2>1. /\ Typed /\ spent.sent \in Nat /\ spent.known \in Nat /\ Regens \in Nat
    BY AttemptsPositive DEF RunInv, DraftInv, Typed, BoundsInv
  <2>2. spent.known <= spent.sent
    <3>1. \A t : Out(t) \in {0, 1}
      BY DEF Out
    <3>2. Awaits \in {0, 1}
      BY DEF Awaits
    <3>. QED
      BY <2>1, <3>1, <3>2 DEF CostInv
  <2>3. exhausted \in BOOLEAN
    BY Zenon DEF RunInv
  <2>4. saved \in [status : Verdicts \cup {"respond"}, total : {Unknown} \cup 0..spent.sent]
    <3>1. CASE saved = None
      BY <3>1 DEF None, Verdicts
    <3>2. CASE saved # None
      <4>1. Status \in Verdicts \cup {"respond"}
        BY DEF Status, BoundsInv
      <4>2. Total \in {Unknown} \cup 0..spent.sent
        BY <2>1, <2>2 DEF Total
      <4>. QED
        BY <3>2, <4>1, <4>2 DEF SavedInv
    <3>. QED
      BY <3>1, <3>2
  <2>5. /\ draft \in 0..Regens /\ passed \in 0..draft /\ shown \in 0..draft /\ rejected \in 0..draft
        /\ spent.known \in 0..spent.sent
    BY <2>1, <2>2 DEF Typed, BoundsInv
  <2>6. /\ input \in [tier : DOMAIN RegenCounter, skip : BOOLEAN, held : BOOLEAN,
                      topics : BOOLEAN, hits : BOOLEAN]
        /\ pc \in Running \cup {"recording", "done"} /\ task \in [Task -> TaskStates]
        /\ decision \in Decisions /\ grounding \in [type : Questions, facts : Facts]
        /\ verdict \in Verdicts
    BY <2>1 DEF Typed, Over, BoundsInv, Inputs
  <2>. QED
    BY <2>3, <2>4, <2>5, <2>6, Zenon DEF TypeOK
<1>. QED
  BY <1>1, RunInvariant, BoundsInvariant, CostInvariant, PTL
=============================================================================
