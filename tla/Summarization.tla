--------------------------- MODULE Summarization ---------------------------
(***************************************************************************)
(* What the persona remembers of a conversation: the running summary and   *)
(* the recent messages after its checkpoint, while turns go on.            *)
(*                                                                         *)
(* Every published reply or fallback schedules a background job            *)
(* (app/services/model_collaborate/summarization_service.py) that reads    *)
(* the summary and the recent messages in one session, spends seconds in   *)
(* the model, and stores the new summary in another. Jobs overlap with     *)
(* turns and with each other. A summary is represented by the set of rows  *)
(* it was made from, the checkpoint by last_summarized_index + 1.          *)
(***************************************************************************)
EXTENDS ChatTurns

CONSTANT Threshold  \* RECENT_MESSAGES_BEFORE_SUMMARIZE (10 in the code)

ASSUME ThresholdIsNat == Threshold \in Nat \ {0}

VARIABLES
  summarized,  \* Conversation.last_summarized_index + 1
  summary,     \* Conversation.summary: the rows folded into it
  job,         \* the place of the background task of each request
  prior,       \* the summary the task has read
  seen         \* recent_messages the task has read, oldest first

checkpoint  == <<summarized, summary>>
work        == <<prior, seen>>
summaryVars == <<vars, checkpoint, job, work>>

-----------------------------------------------------------------------------
(***************************************************************************)
(* get_recent_messages.                                                    *)
(***************************************************************************)
NonPromptSenders == {"error", "regen", "unanswered"}

\* _drop_withheld_turns, at one row of its pass: a system notice goes, and the
\* user row before it.
DropWithheld(kept, i) ==
  IF rows[i] # "system" THEN Append(kept, i)
  ELSE IF kept # <<>> /\ rows[Last(kept)] = "user" THEN Front(kept)
  ELSE kept

\* The rows after a checkpoint that are part of the conversation: the query
\* leaves the others out, and the pass drops the withheld turns.
RecentMessages(from) ==
  LET kept[n \in 0..Len(rows)] ==
        IF n = 0 THEN <<>>
        ELSE IF n <= from \/ rows[n] \in NonPromptSenders THEN kept[n - 1]
        ELSE DropWithheld(kept[n - 1], n)
  IN kept[Len(rows)]

-----------------------------------------------------------------------------
(***************************************************************************)
(* The turns, and the jobs they schedule.                                  *)
(***************************************************************************)

\* A step of a turn. The task is added once publish_turn has committed a
\* reply or a fallback; it runs if the response is sent without an error.
TurnStep ==
  /\ Next
  /\ job' = [r \in Request |->
       IF told[r] = "none" /\ told'[r] \in {"reply", "fallback"} THEN "scheduled" ELSE job[r]]
  /\ UNCHANGED <<checkpoint, work>>

\* The read session: too few messages, or enough to call the model.
ReadForSummary(r) ==
  LET recent == RecentMessages(summarized) IN
  /\ job[r] = "scheduled"
  /\ IF Len(recent) < Threshold
     THEN job' = [job EXCEPT ![r] = "over"] /\ UNCHANGED work
     ELSE /\ job' = [job EXCEPT ![r] = "model"]
          /\ prior' = [prior EXCEPT ![r] = summary]
          /\ seen' = [seen EXCEPT ![r] = recent]
  /\ UNCHANGED <<vars, checkpoint>>

\* A failed read or model call is logged and dropped; so is a dead process.
SummaryFails(r) ==
  /\ job[r] \in {"scheduled", "model"}
  /\ job' = [job EXCEPT ![r] = "over"]
  /\ UNCHANGED <<vars, checkpoint, work>>

\* Mutant of StoreSummary: the checkpoint is kept from moving back, the text
\* is not.
StoreLateText(r) ==
  LET newest == Last(seen[r]) IN
  /\ job[r] = "model"
  /\ job' = [job EXCEPT ![r] = "over"]
  /\ summarized' = IF newest > summarized THEN newest ELSE summarized
  /\ summary' = prior[r] \cup ToSet(seen[r])
  /\ UNCHANGED <<vars, work>>

\* Mutant of StoreSummary: a late job winds the checkpoint back.
StoreUnguarded(r) ==
  /\ job[r] = "model"
  /\ job' = [job EXCEPT ![r] = "over"]
  /\ summarized' = Last(seen[r])
  /\ summary' = prior[r] \cup ToSet(seen[r])
  /\ UNCHANGED <<vars, work>>

\* Mutant of StoreSummary: the checkpoint moves by the number of messages
\* read, although rows were left out between them.
StoreCount(r) ==
  LET newest == summarized + Len(seen[r]) IN
  /\ job[r] = "model"
  /\ job' = [job EXCEPT ![r] = "over"]
  /\ IF newest <= summarized
     THEN UNCHANGED checkpoint
     ELSE summarized' = newest /\ summary' = prior[r] \cup ToSet(seen[r])
  /\ UNCHANGED <<vars, work>>

\* mark_summarized_up_to, under the conversation's row lock: dropped when a
\* newer checkpoint is stored.
StoreSummary(r) ==
  LET newest == Last(seen[r]) IN
  /\ job[r] = "model"
  /\ job' = [job EXCEPT ![r] = "over"]
  /\ IF newest <= summarized
     THEN UNCHANGED checkpoint
     ELSE summarized' = newest /\ summary' = prior[r] \cup ToSet(seen[r])
  /\ UNCHANGED <<vars, work>>

SummaryInit ==
  /\ Init
  /\ summarized = 0 /\ summary = {}
  /\ job = [r \in Request |-> "none"]
  /\ prior = [r \in Request |-> {}]
  /\ seen = [r \in Request |-> <<>>]

SummaryNext ==
  \/ TurnStep
  \/ \E r \in Request : ReadForSummary(r) \/ SummaryFails(r) \/ StoreSummary(r)

SummarySpec == SummaryInit /\ [][SummaryNext]_summaryVars

-----------------------------------------------------------------------------
SummaryTypeOK ==
  /\ summarized \in 0..Len(rows)
  /\ summary \subseteq 1..summarized
  /\ job \in [Request -> {"none", "scheduled", "model", "over"}]
  /\ \A r \in Request : prior[r] \subseteq DOMAIN rows /\ ToSet(seen[r]) \subseteq DOMAIN rows

\* A persona reply, or a message it answered.
InExchange(i) == rows[i] = "backend" \/ (rows[i] = "user" /\ i \in Answered)

\* Nothing that took part in an exchange is forgotten: it is still in the
\* recent messages or went into the summary, however late and in whatever order
\* the jobs store their results.
ExchangesRemembered ==
  \A i \in DOMAIN rows :
    InExchange(i) => i \in summary \cup ToSet(RecentMessages(summarized))

\* Two runs can overlap, and the older one's result must not overwrite the
\* newer one's checkpoint or its text (mark_summarized_up_to): the summary
\* never changes without the checkpoint moving forward, and never loses a
\* message of an exchange.
SummaryMovesForward ==
  [][checkpoint' # checkpoint =>
       /\ summarized' > summarized
       /\ \A i \in summary : InExchange(i) => i \in summary']_summaryVars

\* What get_recent_messages says of a withheld turn: the notice is dropped
\* "TOGETHER WITH the user message it answered". A message that was dealt with
\* and kept in the conversation is then always read back.
KeptMessagesAreRead ==
  \A i \in 1..handled :
    rows[i] = "user" => i \in summary \cup ToSet(RecentMessages(summarized))

\* What NON_PROMPT_SENDERS is for: a failed or discarded message is kept out
\* of the prompt history and of summarization.
DroppedStayOut == \A i \in summary : rows[i] # "unanswered"
=============================================================================
