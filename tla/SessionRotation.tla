-------------------------- MODULE SessionRotation --------------------------
(***************************************************************************)
(* One visitor's browser and the requests that change what its session may *)
(* do: POST /api/consent, /api/consent/withdraw, /api/code (which rotates  *)
(* the session id) and chat messages, in flight together.                  *)
(*                                                                         *)
(* Sessions are numbered in the order their ids are minted; session 1 is   *)
(* the one the page load made. What a turn does inside its conversation is *)
(* ChatTurns; here it matters under which session it stores and publishes. *)
(***************************************************************************)
EXTENDS Integers, Sequences, FiniteSets

CONSTANTS
  Request,    \* the requests the browser sends
  None,       \* nobody
  MaxPolicy,  \* bound: versions of the consent policy
  MaxLoss     \* bound: advisory locks lost with their connection

ASSUME FiniteRequests   == IsFiniteSet(Request) /\ None \notin Request
ASSUME RotationBoundsAreNat == MaxPolicy \in Nat \ {0} /\ MaxLoss \in Nat

VARIABLES
  pc,            \* where each request is
  req,           \* its kind, session, conversation (0 is none) and terms read
  told,          \* what its answer says
  carried,       \* the rows a rotation has read and is about to move
  policy,        \* the version in force: the highest consent_policy row
  consents,      \* the consent_record table
  conversations, \* the conversation table: owner, and whether a code is linked
  lock,          \* session -> who holds its session_work lock
  minted,        \* the latest session id
  cookie,        \* the session the browser's cookie names
  shown,         \* the conversation the browser shows, 0 before the first
  losses,        \* locks lost so far
  retired,       \* history: session ids that were rotated away
  lapsed,        \* history: sessions agreed to during or after their rotation
  crossed,       \* history: a withdrawal was carried out across a change of cookie
  plain,         \* history: withdrawals that no submission of consent overlaps
  refusing,      \* history: told that consent ended, and not agreed since
  against,       \* history: messages sent while refusing, and not agreed since
  astray         \* history: one of these was stored

tables  == <<policy, consents, conversations>>
browser == <<cookie, shown>>
history == <<retired, lapsed, crossed, plain, refusing, against, astray>>
vars == <<pc, req, told, carried, tables, lock, minted, browser, losses, history>>

Session == 1..(Cardinality(Request) + 1)
Kind    == {"chat", "consent", "withdraw", "code"}
First   == [chat |-> "gate", consent |-> "terms", withdraw |-> "withdraw", code |-> "verify"]
Blank   == [kind |-> "chat", session |-> 1, conv |-> 0, version |-> 0]
Nothing == [conversations |-> {}, consents |-> {}]

Goto(r, place) == pc' = [pc EXCEPT ![r] = place]
Answer(r, what) == Goto(r, "answer") /\ told' = [told EXCEPT ![r] = what]
Unlock(r) == lock' = [s \in Session |-> IF lock[s] = r THEN None ELSE lock[s]]

\* Mutant of Active: a withdrawn agreement counts.
ActiveOnceGiven(s, v) == \E i \in DOMAIN consents :
  consents[i].session = s /\ consents[i].version = v

Active(s, v) == \E i \in DOMAIN consents :
  consents[i] = [session |-> s, version |-> v, withdrawn |-> FALSE]

\* is_consented: an agreement in force to the version in force.
Consented(s) == Active(s, policy)

Owns(s, c) == c \in DOMAIN conversations /\ conversations[c].owner = s

\* A submission of consent is on its way or unanswered.
Agreeing == \E q \in Request : req[q].kind = "consent" /\ pc[q] \notin {"idle", "done"}

\* get_conversation_locked: a rotation holds the row of the conversation it
\* links until it commits. The other rows it moves are only read before that.
RowFree(r, c) == c = 0 \/ \A q \in Request \ {r} : pc[q] = "rotate" => req[q].conv # c

\* Only /api/code mints an id after the first, and verifies the session with it.
Verified(s) == s > 1

-----------------------------------------------------------------------------
(***************************************************************************)
(* The browser sends requests with the cookie it has and receives answers  *)
(* in any order.                                                           *)
(***************************************************************************)

\* A page shows the terms as they were when it loaded; the code form may or
\* may not name the conversation on show.
Send(r, kind, conv, version) ==
  /\ pc[r] = "idle"
  /\ Goto(r, First[kind])
  /\ req' = [req EXCEPT ![r] = [kind |-> kind, session |-> cookie,
                                 conv |-> conv, version |-> version]]
  /\ against' = CASE kind = "chat" /\ refusing -> against \union {r}
                  [] kind = "consent" -> {}
                  [] OTHER -> against
  /\ plain' = CASE kind = "withdraw" /\ ~Agreeing -> plain \union {r}
                [] kind = "consent" -> {}
                [] OTHER -> plain
  /\ refusing' = (refusing /\ kind # "consent")
  /\ UNCHANGED <<told, carried, tables, lock, minted, browser, losses,
                 retired, lapsed, crossed, astray>>

\* Only a rotation's answer carries a new cookie, because only it changes the
\* session; a chat answer names the conversation to show. What the request held
\* is gone with it.
Receive(r) ==
  /\ pc[r] = "answer"
  /\ Goto(r, "done")
  /\ req' = [req EXCEPT ![r] = Blank] /\ told' = [told EXCEPT ![r] = "nothing"]
  /\ cookie' = IF told[r] = "verified" THEN req[r].session ELSE cookie
  /\ shown' = IF told[r] = "reply" THEN req[r].conv ELSE shown
  /\ refusing' = (refusing \/ (told[r] = "withdrawn" /\ r \in plain))
  /\ plain' = plain \ {r} /\ against' = against \ {r}
  /\ UNCHANGED <<carried, tables, lock, minted, losses,
                 retired, lapsed, crossed, astray>>

-----------------------------------------------------------------------------
(***************************************************************************)
(* session_work: chat turns and rotations of one session exclude one       *)
(* another. Waiters poll, so a free lock goes to any of them.              *)
(***************************************************************************)

\* Mutant of Acquire: a rotation does not share the chat's lock.
AcquireChatOnly(r) ==
  /\ \/ pc[r] = "queued" /\ lock[req[r].session] = None /\ Goto(r, "recheck")
        /\ lock' = [lock EXCEPT ![req[r].session] = r]
     \/ pc[r] = "verify" /\ Goto(r, "match") /\ UNCHANGED lock
  /\ UNCHANGED <<req, told, carried, tables, minted, browser, losses, history>>

Acquire(r) ==
  /\ \/ pc[r] = "queued" /\ Goto(r, "recheck")
     \/ pc[r] = "verify" /\ Goto(r, "match")
  /\ lock[req[r].session] = None
  /\ lock' = [lock EXCEPT ![req[r].session] = r]
  /\ UNCHANGED <<req, told, carried, tables, minted, browser, losses, history>>

\* The connection that holds the lock is lost; its request does not notice.
LoseLock(s) ==
  /\ lock[s] # None /\ losses < MaxLoss
  /\ lock' = [lock EXCEPT ![s] = None]
  /\ losses' = losses + 1
  /\ UNCHANGED <<pc, req, told, carried, tables, minted, browser, history>>

-----------------------------------------------------------------------------
(***************************************************************************)
(* A chat message: handle_chat_turn.                                       *)
(***************************************************************************)

CheckConsent(r) ==
  /\ pc[r] = "gate"
  /\ \/ Consented(req[r].session) /\ Goto(r, "queued") /\ UNCHANGED told
     \/ ~Consented(req[r].session) /\ Answer(r, "refused")
  /\ UNCHANGED <<req, carried, tables, lock, minted, browser, losses, history>>

\* Mutant of Recheck: the check made before the queue is trusted.
RecheckNothing(r) ==
  /\ pc[r] = "recheck" /\ Goto(r, "store")
  /\ UNCHANGED <<req, told, carried, tables, lock, minted, browser, losses, history>>

\* The session may have been rotated or its consent withdrawn meanwhile.
Recheck(r) ==
  /\ pc[r] = "recheck"
  /\ \/ Consented(req[r].session) /\ Goto(r, "store") /\ UNCHANGED <<told, lock>>
     \/ ~Consented(req[r].session) /\ Answer(r, "refused") /\ Unlock(r)
  /\ UNCHANGED <<req, carried, tables, minted, browser, losses, history>>

\* append_message, and the new conversation when the one named is not the
\* session's.
StoreMessage(r) ==
  LET s == req[r].session IN
  /\ pc[r] = "store" /\ RowFree(r, req[r].conv)
  /\ Goto(r, "publish")
  /\ \/ Owns(s, req[r].conv) /\ UNCHANGED <<req, conversations>>
     \/ /\ ~Owns(s, req[r].conv)
        /\ conversations' = Append(conversations, [owner |-> s, linked |-> Verified(s)])
        /\ req' = [req EXCEPT ![r].conv = Len(conversations')]
  /\ astray' = (astray \/ r \in against)
  /\ UNCHANGED <<told, carried, policy, consents, lock, minted, browser, losses,
                 retired, lapsed, crossed, plain, refusing, against>>

\* publish_turn refuses a conversation that changed hands: the answer is an error.
PublishTurn(r) ==
  /\ pc[r] = "publish" /\ RowFree(r, req[r].conv)
  /\ \/ Owns(req[r].session, req[r].conv) /\ Answer(r, "reply")
     \/ ~Owns(req[r].session, req[r].conv) /\ Answer(r, "failed")
  /\ Unlock(r)
  /\ UNCHANGED <<req, carried, tables, minted, browser, losses, history>>

-----------------------------------------------------------------------------
(***************************************************************************)
(* Consent submitted and withdrawn.                                        *)
(***************************************************************************)

\* record_consent up to the insert: the text must be the current terms', and
\* a session that has agreed to them already is told so.
ReadTerms(r) ==
  LET s == req[r].session IN
  /\ pc[r] = "terms"
  /\ \/ req[r].version # policy /\ Answer(r, "refused")
     \/ req[r].version = policy /\ Consented(s) /\ Answer(r, "agreed")
     \/ req[r].version = policy /\ ~Consented(s) /\ Goto(r, "insert") /\ UNCHANGED told
  /\ UNCHANGED <<req, carried, tables, lock, minted, browser, losses, history>>

\* The unique index lets one of two submissions in; the other is answered 503.
InsertRecord(r) ==
  LET s == req[r].session
      v == req[r].version
  IN
  /\ pc[r] = "insert"
  /\ \/ Active(s, v) /\ Answer(r, "failed") /\ UNCHANGED <<consents, lapsed>>
     \/ /\ ~Active(s, v) /\ Answer(r, "agreed")
        /\ consents' = Append(consents, [session |-> s, version |-> v, withdrawn |-> FALSE])
        /\ lapsed' = IF s \in retired \/ \E q \in Request : pc[q] = "rotate" /\ req[q].session = s
                     THEN lapsed \union {s} ELSE lapsed
  /\ UNCHANGED <<req, carried, policy, conversations, lock, minted, browser, losses,
                 retired, crossed, plain, refusing, against, astray>>

\* Every agreement of the session, to whatever version.
Withdrawn(s) ==
  [i \in DOMAIN consents |-> [consents[i] EXCEPT !.withdrawn = @ \/ consents[i].session = s]]

\* A rotation that was not answered yet gives the browser what another session
\* has: it moves that session, or it has moved it.
RotatesElsewhere(s) == \E q \in Request :
  /\ req[q].kind = "code" /\ req[q].session # s
  /\ pc[q] \in {"verify", "match", "rotate"} \/ told[q] = "verified"

Withdraw(r) ==
  /\ pc[r] = "withdraw"
  /\ consents' = Withdrawn(req[r].session)
  /\ Answer(r, "withdrawn")
  /\ crossed' = (crossed \/ req[r].session # cookie \/ RotatesElsewhere(cookie))
  /\ UNCHANGED <<req, carried, policy, conversations, lock, minted, browser, losses,
                 retired, lapsed, plain, refusing, against, astray>>

\* The seed load installs a new version of the policy.
PublishPolicy ==
  /\ policy < MaxPolicy /\ policy' = policy + 1
  /\ UNCHANGED <<pc, req, told, carried, consents, conversations, lock, minted,
                 browser, losses, history>>

-----------------------------------------------------------------------------
(***************************************************************************)
(* verify_code, after the lockout check: match the code, then move what    *)
(* the session has to a new id in the same transaction.                    *)
(***************************************************************************)

\* Mutant of MatchCode: the link to the code is committed by itself.
MatchCodeCommitting(r) ==
  LET s == req[r].session
      c == req[r].conv
  IN
  /\ pc[r] = "match" /\ Goto(r, "rotate")
  /\ carried' = [carried EXCEPT ![r] =
       [conversations |-> {d \in DOMAIN conversations : conversations[d].owner = s},
        consents      |-> {i \in DOMAIN consents : consents[i].session = s}]]
  /\ conversations' = IF c = 0 THEN conversations ELSE [conversations EXCEPT ![c].linked = TRUE]
  /\ UNCHANGED <<told, lock, req, policy, consents, minted, browser, losses, history>>

\* A wrong code, a conversation of somebody else or one with another code is
\* refused. Otherwise the rows to move are read.
MatchCode(r) ==
  LET s == req[r].session IN
  /\ pc[r] = "match"
  /\ \/ Answer(r, "refused") /\ Unlock(r) /\ UNCHANGED carried
     \/ /\ req[r].conv # 0 => RowFree(r, req[r].conv) /\ Owns(s, req[r].conv)
        /\ Goto(r, "rotate")
        /\ carried' = [carried EXCEPT ![r] =
             [conversations |-> {c \in DOMAIN conversations : conversations[c].owner = s},
              consents      |-> {i \in DOMAIN consents : consents[i].session = s}]]
        /\ UNCHANGED <<told, lock>>
  /\ UNCHANGED <<req, tables, minted, browser, losses, history>>

\* Mutant of MoveConsents: the moved agreements are written out anew.
MoveConsentsAnew(r, new) ==
  [i \in DOMAIN consents |-> IF i \in carried[r].consents
     THEN [consents[i] EXCEPT !.session = new, !.withdrawn = FALSE] ELSE consents[i]]

\* transfer_records writes the session id of the rows it read, nothing else.
MoveConsents(r, new) ==
  [i \in DOMAIN consents |-> IF i \in carried[r].consents
     THEN [consents[i] EXCEPT !.session = new] ELSE consents[i]]

\* transfer_ownership, and the link that update_conversation_code made.
MoveConversations(r, new) ==
  [c \in DOMAIN conversations |-> IF c \in carried[r].conversations
     THEN [owner |-> new, linked |-> conversations[c].linked \/ c = req[r].conv]
     ELSE conversations[c]]

\* Mutant of CommitRotation: the new id is not taken, and may be minted again.
CommitRotationSameId(r) ==
  LET new == minted + 1 IN
  /\ pc[r] = "rotate" /\ \A c \in carried[r].conversations : RowFree(r, c)
  /\ Answer(r, "verified") /\ Unlock(r)
  /\ conversations' = MoveConversations(r, new) /\ consents' = MoveConsents(r, new)
  /\ req' = [req EXCEPT ![r].session = new]
  /\ carried' = [carried EXCEPT ![r] = Nothing]
  /\ retired' = retired \union {req[r].session}
  /\ UNCHANGED <<policy, minted, browser, losses, lapsed, crossed, plain, refusing, against, astray>>

\* The flush writes every row that was read, each when nobody else holds it.
CommitRotation(r) ==
  LET new == minted + 1 IN
  /\ pc[r] = "rotate" /\ \A c \in carried[r].conversations : RowFree(r, c)
  /\ Answer(r, "verified") /\ Unlock(r)
  /\ conversations' = MoveConversations(r, new)
  /\ consents' = MoveConsents(r, new)
  /\ minted' = new
  /\ req' = [req EXCEPT ![r].session = new]
  /\ carried' = [carried EXCEPT ![r] = Nothing]
  /\ retired' = retired \union {req[r].session}
  /\ UNCHANGED <<policy, browser, losses, lapsed, crossed, plain, refusing, against, astray>>

\* The database fails before the commit, or ends one of two rotations that wait
\* for each other's rows: all of it is rolled back, the link to the code too. An
\* agreement recorded meanwhile stands after all, under an id still in use.
RotationFails(r) ==
  LET s == req[r].session
      others == \E q \in Request \ {r} : pc[q] = "rotate" /\ req[q].session = s
  IN
  /\ pc[r] = "rotate" /\ Answer(r, "failed") /\ Unlock(r)
  /\ carried' = [carried EXCEPT ![r] = Nothing]
  /\ lapsed' = IF s \in retired \/ others THEN lapsed ELSE lapsed \ {s}
  /\ UNCHANGED <<req, tables, minted, browser, losses,
                 retired, crossed, plain, refusing, against, astray>>

-----------------------------------------------------------------------------
\* The page has loaded and made session 1, which may have agreed to the terms
\* and have a conversation from an earlier visit.
Init ==
  /\ pc = [r \in Request |-> "idle"]
  /\ req = [r \in Request |-> Blank]
  /\ told = [r \in Request |-> "nothing"]
  /\ carried = [r \in Request |-> Nothing]
  /\ policy = 1
  /\ consents \in {<<>>, <<[session |-> 1, version |-> 1, withdrawn |-> FALSE]>>}
  /\ \/ conversations = <<>> /\ shown = 0
     \/ conversations = <<[owner |-> 1, linked |-> FALSE]>> /\ shown = 1
  /\ lock = [s \in Session |-> None]
  /\ minted = 1 /\ cookie = 1 /\ losses = 0
  /\ retired = {} /\ lapsed = {} /\ against = {} /\ plain = {}
  /\ crossed = FALSE /\ refusing = FALSE /\ astray = FALSE

\* The steps a request takes once it was sent.
Step(r) ==
  \/ Acquire(r) \/ CheckConsent(r) \/ Recheck(r) \/ StoreMessage(r) \/ PublishTurn(r)
  \/ ReadTerms(r) \/ InsertRecord(r) \/ Withdraw(r) \/ MatchCode(r) \/ CommitRotation(r)
  \/ RotationFails(r) \/ Receive(r)

AllDone == (\A r \in Request : pc[r] = "done") /\ UNCHANGED vars

Next ==
  \/ \E r \in Request : Step(r)
  \/ \E r \in Request : \/ Send(r, "chat", shown, 0)
                         \/ Send(r, "withdraw", 0, 0)
                         \/ \E v \in 1..policy : Send(r, "consent", 0, v)
                         \/ \E c \in {0, shown} : Send(r, "code", c, 0)
  \/ \E s \in Session : LoseLock(s)
  \/ PublishPolicy
  \/ AllDone

Spec == Init /\ [][Next]_vars

-----------------------------------------------------------------------------
(***************************************************************************)
(* Properties.                                                             *)
(***************************************************************************)

Place == {"idle", "gate", "queued", "recheck", "store", "publish", "terms", "insert",
          "withdraw", "verify", "match", "rotate", "answer", "done"}

TypeOK ==
  /\ pc \in [Request -> Place]
  /\ req \in [Request -> [kind : Kind, session : Session, conv : Nat, version : Nat]]
  /\ told \in [Request -> {"nothing", "refused", "failed", "agreed", "withdrawn", "verified", "reply"}]
  /\ \A r \in Request : /\ carried[r].conversations \subseteq DOMAIN conversations
                        /\ carried[r].consents \subseteq DOMAIN consents
  /\ policy \in 1..MaxPolicy
  /\ consents \in Seq([session : Session, version : 1..MaxPolicy, withdrawn : BOOLEAN])
  /\ conversations \in Seq([owner : Session, linked : BOOLEAN])
  /\ lock \in [Session -> Request \union {None}]
  /\ minted \in Session /\ cookie \in 1..minted /\ shown \in 0..Len(conversations)
  /\ losses \in 0..MaxLoss

\* A rotation waits for a running turn ("no message can be published with the
\* old owner"): while a turn works, its conversation stays its session's. With
\* a lost lock only publish_turn's own check is left.
TurnKeepsOwner == losses = 0 =>
  \A r \in Request : pc[r] = "publish" => Owns(req[r].session, req[r].conv)

\* The link to an invite code and the move to the verified session commit
\* together: no conversation has a code while an unverified session owns it.
LinkMovesWithOwner ==
  \A c \in DOMAIN conversations : conversations[c].linked => Verified(conversations[c].owner)

\* A rotation leaves nothing behind: what a retired session owns or has agreed
\* to, it got by agreeing again during or after the rotation, through a request
\* sent with the old cookie.
RetiredKeepsNothing == losses = 0 =>
  \A s \in retired \ lapsed : /\ \A c \in DOMAIN conversations : conversations[c].owner # s
                              /\ \A i \in DOMAIN consents : consents[i].session # s

\* consent_record is an audit trail: rows keep their place and version, and an
\* agreement that was withdrawn never comes back to life, whatever a rotation
\* read before the withdrawal and writes after it.
WithdrawnStays ==
  [][\A i \in DOMAIN consents :
       /\ i \in DOMAIN consents' /\ consents'[i].version = consents[i].version
       /\ consents[i].withdrawn => consents'[i].withdrawn]_vars

\* Once the visitor was told that consent ended, no message sent after that is
\* stored until the visitor agrees again - unless, when it was carried out, the
\* browser had a new cookie already, or a code sent from another session or a
\* committed rotation was about to give it one.
WithdrawalLostOnlyToRotation == astray => crossed

\* The same, as withdraw_consent's route promises it.
WithdrawalHolds == ~astray

\* The old id holds nothing after a rotation, as verify_code promises it.
RetiredHoldsNothing ==
  \A s \in retired : \A i \in DOMAIN consents :
    consents[i].session = s => consents[i].withdrawn
=============================================================================
