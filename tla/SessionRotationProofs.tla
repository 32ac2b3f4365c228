------------------------ MODULE SessionRotationProofs ------------------------
(***************************************************************************)
(* Proofs about SessionRotation, for every number of requests, of policy   *)
(* versions and of lost locks.                                             *)
(***************************************************************************)
EXTENDS SessionRotation, FiniteSetTheorems, TLAPS

Answers == {"nothing", "refused", "failed", "agreed", "withdrawn", "verified", "reply"}
Record  == [session : 1..minted, version : 1..policy, withdrawn : BOOLEAN]
Row     == [owner : 1..minted, linked : BOOLEAN]
Carried == [conversations : SUBSET (1..Len(conversations)), consents : SUBSET (1..Len(consents))]
Sent    == [kind : Kind, session : 1..minted, conv : 0..Len(conversations), version : 0..policy]

(***************************************************************************)
(* Type correctness.                                                       *)
(***************************************************************************)

\* The tables, and the ids in them.
TablesTyped ==
  /\ policy \in 1..MaxPolicy
  /\ minted \in Session
  /\ consents \in Seq(Record)
  /\ conversations \in Seq(Row)

RequestsTyped ==
  /\ pc \in [Request -> Place]
  /\ req \in [Request -> Sent]
  /\ told \in [Request -> Answers]
  /\ carried \in [Request -> Carried]
  /\ cookie \in 1..minted /\ shown \in 0..Len(conversations)
  /\ lock \in [Session -> Request \cup {None}]
  /\ losses \in 0..MaxLoss

HistoryTyped ==
  /\ retired \subseteq 1..minted /\ lapsed \subseteq 1..minted
  /\ plain \subseteq Request /\ against \subseteq Request
  /\ crossed \in BOOLEAN /\ refusing \in BOOLEAN /\ astray \in BOOLEAN

\* Every id after the first was minted for a request that has ended.
Ended == {r \in Request : pc[r] \in {"answer", "done"}}
MintedOnce == minted <= 1 + Cardinality(Ended)

\* Where a request can be follows from its kind, what it is told from where
\* it has been.
KindInv == \A r \in Request :
  /\ pc[r] \in {"idle", "done"} => req[r] = Blank
  /\ pc[r] \in {"gate", "queued", "recheck", "store", "publish"} => req[r].kind = "chat"
  /\ pc[r] \in {"terms", "insert"} => req[r].kind = "consent"
  /\ pc[r] = "withdraw" => req[r].kind = "withdraw"
  /\ pc[r] \in {"verify", "match", "rotate"} => req[r].kind = "code"
  /\ req[r].kind = "consent" => req[r].version >= 1
  /\ told[r] # "nothing" => pc[r] = "answer"
  /\ told[r] = "verified" => req[r].kind = "code"
  /\ told[r] = "withdrawn" => req[r].kind = "withdraw"

TypeInv == TablesTyped /\ RequestsTyped /\ HistoryTyped /\ MintedOnce /\ KindInv

\* The number of sessions bounds the ids: there is one more than requests.
LEMMA SessionRange == Session = 1..(Cardinality(Request) + 1) /\ Cardinality(Request) \in Nat
BY FiniteRequests, FS_CardinalityType DEF Session

\* A request the browser may send.
Sendable(k, c, v) ==
  /\ k \in Kind /\ c \in 0..Len(conversations) /\ v \in 0..policy
  /\ k = "consent" => v >= 1

LEMMA NextCases ==
  ASSUME TypeInv, [Next]_vars
  PROVE  \/ \E r \in Request : Step(r)
         \/ \E r \in Request : \E k, c, v : Sendable(k, c, v) /\ Send(r, k, c, v)
         \/ \E s \in Session : LoseLock(s)
         \/ PublishPolicy
         \/ UNCHANGED vars
<1>1. /\ shown \in 0..Len(conversations) /\ 0 \in 0..Len(conversations) /\ 0 \in 0..policy
      /\ \A v \in 1..policy : v \in 0..policy /\ v >= 1
  BY DEF TypeInv, RequestsTyped, TablesTyped
<1>. QED
  BY <1>1 DEF Next, AllDone, Sendable, Kind

\* What one step does to the tables.
TableSteps ==
  \/ UNCHANGED <<consents, conversations, minted>> /\ policy' \in {policy, policy + 1}
  \/ \E r \in Request : InsertRecord(r) \/ Withdraw(r) \/ StoreMessage(r) \/ CommitRotation(r)

LEMMA NextTables ==
  ASSUME [Next]_vars
  PROVE  TableSteps
BY DEF TableSteps, Next, Step, Send, Receive, Acquire, LoseLock, CheckConsent, Recheck,
       PublishTurn, ReadTerms, PublishPolicy, MatchCode, RotationFails, AllDone, vars, tables

LEMMA NextPolicy ==
  ASSUME TablesTyped, [Next]_vars
  PROVE  policy' \in 1..MaxPolicy
<1>1. CASE PublishPolicy
  BY <1>1, RotationBoundsAreNat DEF PublishPolicy, TablesTyped
<1>2. CASE ~PublishPolicy
  <2>1. policy' = policy
    BY <1>2 DEF Next, Step, Send, Receive, Acquire, LoseLock, CheckConsent, Recheck,
       StoreMessage, PublishTurn, ReadTerms, InsertRecord, Withdraw, MatchCode, RotationFails,
       CommitRotation, AllDone, vars, tables
  <2>. QED
    BY <2>1 DEF TablesTyped
<1>. QED
  BY <1>1, <1>2

LEMMA MoveConsentsType ==
  ASSUME TablesTyped, NEW r \in Request, NEW new \in Nat, new >= minted
  PROVE  /\ MoveConsents(r, new) \in Seq([session : 1..new, version : 1..policy, withdrawn : BOOLEAN])
         /\ Len(MoveConsents(r, new)) = Len(consents)
         /\ DOMAIN MoveConsents(r, new) = 1..Len(consents)
         /\ \A i \in 1..Len(consents) :
              MoveConsents(r, new)[i] =
                IF i \in carried[r].consents THEN [consents[i] EXCEPT !.session = new] ELSE consents[i]
<1>1. minted \in Nat /\ minted >= 1
  BY SessionRange DEF TablesTyped
<1>2. \A i \in 1..Len(consents) : consents[i] \in Record
  BY DEF TablesTyped
<1>. DEFINE New == [session : 1..new, version : 1..policy, withdrawn : BOOLEAN]
<1>3. Len(consents) \in Nat /\ DOMAIN consents = 1..Len(consents)
  BY DEF TablesTyped
<1>4. \A i \in 1..Len(consents) :
        consents[i] \in New /\ [consents[i] EXCEPT !.session = new] \in New
  BY <1>1, <1>2 DEF Record
<1>. HIDE DEF New
<1>5. /\ MoveConsents(r, new) \in Seq(New)
      /\ Len(MoveConsents(r, new)) = Len(consents)
      /\ DOMAIN MoveConsents(r, new) = 1..Len(consents)
      /\ \A i \in 1..Len(consents) :
           MoveConsents(r, new)[i] =
             IF i \in carried[r].consents THEN [consents[i] EXCEPT !.session = new] ELSE consents[i]
  BY <1>3, <1>4 DEF MoveConsents
<1>. QED
  BY <1>5 DEF New

LEMMA MoveConversationsType ==
  ASSUME TablesTyped, NEW r \in Request, NEW new \in Nat, new >= minted
  PROVE  /\ MoveConversations(r, new) \in Seq([owner : 1..new, linked : BOOLEAN])
         /\ Len(MoveConversations(r, new)) = Len(conversations)
         /\ DOMAIN MoveConversations(r, new) = 1..Len(conversations)
         /\ \A c \in 1..Len(conversations) :
              MoveConversations(r, new)[c] =
                IF c \in carried[r].conversations
                THEN [owner |-> new, linked |-> conversations[c].linked \/ c = req[r].conv]
                ELSE conversations[c]
<1>1. minted \in Nat /\ minted >= 1
  BY SessionRange DEF TablesTyped
<1>2. \A c \in 1..Len(conversations) : conversations[c] \in Row
  BY DEF TablesTyped
<1>. DEFINE New == [owner : 1..new, linked : BOOLEAN]
<1>3. Len(conversations) \in Nat /\ DOMAIN conversations = 1..Len(conversations)
  BY DEF TablesTyped
<1>4. \A c \in 1..Len(conversations) :
        /\ conversations[c] \in New
        /\ [owner |-> new, linked |-> conversations[c].linked \/ c = req[r].conv] \in New
  BY <1>1, <1>2 DEF Row
<1>. HIDE DEF New
<1>5. /\ MoveConversations(r, new) \in Seq(New)
      /\ Len(MoveConversations(r, new)) = Len(conversations)
      /\ DOMAIN MoveConversations(r, new) = 1..Len(conversations)
      /\ \A c \in 1..Len(conversations) :
           MoveConversations(r, new)[c] =
             IF c \in carried[r].conversations
             THEN [owner |-> new, linked |-> conversations[c].linked \/ c = req[r].conv]
             ELSE conversations[c]
  BY <1>3, <1>4 DEF MoveConversations
<1>. QED
  BY <1>5 DEF New

LEMMA WithdrawnType ==
  ASSUME TablesTyped, NEW s
  PROVE  /\ Withdrawn(s) \in Seq(Record)
         /\ Len(Withdrawn(s)) = Len(consents)
         /\ DOMAIN Withdrawn(s) = 1..Len(consents)
         /\ \A i \in 1..Len(consents) :
              Withdrawn(s)[i] = [consents[i] EXCEPT !.withdrawn = @ \/ consents[i].session = s]
<1>1. minted \in Nat /\ minted >= 1
  BY SessionRange DEF TablesTyped
<1>2. \A i \in 1..Len(consents) : consents[i] \in Record
  BY DEF TablesTyped
<1>3. Len(consents) \in Nat /\ DOMAIN consents = 1..Len(consents)
  BY DEF TablesTyped
<1>4. \A i \in 1..Len(consents) :
        [consents[i] EXCEPT !.withdrawn = @ \/ consents[i].session = s] \in Record
  BY <1>2 DEF Record
<1>. HIDE DEF Record
<1>. QED
  BY <1>3, <1>4 DEF Withdrawn

\* An id is left to mint for a request whose rotation has not committed.
LEMMA RoomToMint ==
  ASSUME TypeInv, NEW r \in Request, pc[r] = "rotate", pc' = [pc EXCEPT ![r] = "answer"]
  PROVE  /\ minted + 1 \in Session
         /\ minted + 1 <= 1 + Cardinality(Ended')
<1>1. IsFiniteSet(Request) /\ Ended \subseteq Request /\ Ended' \subseteq Request
  BY FiniteRequests DEF Ended
<1>2. Ended' = Ended \cup {r} /\ r \notin Ended
  BY DEF Ended, TypeInv, RequestsTyped
<1>3. IsFiniteSet(Ended) /\ Cardinality(Ended) \in Nat
  BY <1>1, FS_Subset, FS_CardinalityType
<1>4. Cardinality(Ended') = Cardinality(Ended) + 1
  BY <1>2, <1>3, FS_AddElement
<1>5. Cardinality(Ended') <= Cardinality(Request)
  BY <1>1, FS_Subset
<1>. QED
  BY <1>3, <1>4, <1>5, SessionRange DEF TypeInv, MintedOnce, TablesTyped

\* The tables keep their types, only grow, and only a rotation mints an id.
LEMMA TablesStep ==
  ASSUME TypeInv, [Next]_vars
  PROVE  /\ TablesTyped'
         /\ Len(consents') >= Len(consents) /\ Len(conversations') >= Len(conversations)
         /\ policy' >= policy /\ minted' >= minted
<1>. TablesTyped /\ RequestsTyped /\ HistoryTyped /\ KindInv
  BY DEF TypeInv
<1>0. /\ minted \in Nat /\ minted >= 1 /\ policy \in Nat /\ policy >= 1
      /\ Len(consents) \in Nat /\ Len(conversations) \in Nat
  BY SessionRange DEF TablesTyped
<1>1. CASE UNCHANGED <<consents, conversations, minted>> /\ policy' \in {policy, policy + 1}
  <2>1. policy' \in 1..MaxPolicy
    BY <1>1, NextPolicy DEF TablesTyped
  <2>2. consents' \in Seq(Record')
    <3>1. Record \subseteq Record'
      BY <1>0, <1>1 DEF Record
    <3>. QED
      BY <1>1, <3>1 DEF TablesTyped
  <2>. QED
    BY <1>0, <1>1, <2>1, <2>2 DEF TablesTyped, Row, Session
<1>2. ASSUME NEW r \in Request, InsertRecord(r)
      PROVE  /\ TablesTyped'
             /\ Len(consents') >= Len(consents) /\ Len(conversations') >= Len(conversations)
             /\ policy' >= policy /\ minted' >= minted
  <2>1. [session |-> req[r].session, version |-> req[r].version, withdrawn |-> FALSE] \in Record
    <3>1. req[r] \in Sent /\ req[r].version >= 1
      BY <1>2 DEF RequestsTyped, KindInv, InsertRecord
    <3>. QED
      BY <1>0, <3>1 DEF Sent, Record
  <2>2. UNCHANGED <<policy, conversations, minted>>
    BY <1>2 DEF InsertRecord
  <2>3. consents' \in Seq(Record) /\ Len(consents') >= Len(consents)
    BY <1>0, <1>2, <2>1 DEF InsertRecord, TablesTyped
  <2>. QED
    BY <1>0, <2>2, <2>3 DEF TablesTyped, Record, Row, Session
<1>3. ASSUME NEW r \in Request, Withdraw(r)
      PROVE  /\ TablesTyped'
             /\ Len(consents') >= Len(consents) /\ Len(conversations') >= Len(conversations)
             /\ policy' >= policy /\ minted' >= minted
  <2>1. UNCHANGED <<policy, conversations, minted>> /\ consents' = Withdrawn(req[r].session)
    BY <1>3 DEF Withdraw
  <2>. QED
    BY <1>0, <2>1, WithdrawnType DEF TablesTyped, Record, Row, Session
<1>4. ASSUME NEW r \in Request, StoreMessage(r)
      PROVE  /\ TablesTyped'
             /\ Len(consents') >= Len(consents) /\ Len(conversations') >= Len(conversations)
             /\ policy' >= policy /\ minted' >= minted
  <2>1. UNCHANGED <<policy, consents, minted>>
    BY <1>4 DEF StoreMessage
  <2>2. [owner |-> req[r].session, linked |-> Verified(req[r].session)] \in Row
    BY <1>0 DEF Row, Sent, RequestsTyped, Verified
  <2>3. conversations' \in Seq(Row) /\ Len(conversations') >= Len(conversations)
    <3>1. CASE conversations' = conversations
      BY <1>0, <3>1 DEF TablesTyped
    <3>2. CASE conversations' = Append(conversations,
                 [owner |-> req[r].session, linked |-> Verified(req[r].session)])
      BY <1>0, <2>2, <3>2 DEF TablesTyped
    <3>. QED
      BY <1>4, <3>1, <3>2 DEF StoreMessage
  <2>4. Record' = Record /\ Row' = Row /\ Session' = Session
    BY <2>1 DEF Record, Row, Session
  <2>. QED
    BY <1>0, <2>1, <2>3, <2>4 DEF TablesTyped
<1>5. ASSUME NEW r \in Request, CommitRotation(r)
      PROVE  /\ TablesTyped'
             /\ Len(consents') >= Len(consents) /\ Len(conversations') >= Len(conversations)
             /\ policy' >= policy /\ minted' >= minted
  <2>. DEFINE new == minted + 1
  <2>1. /\ policy' = policy /\ minted' = new
        /\ consents' = MoveConsents(r, new) /\ conversations' = MoveConversations(r, new)
        /\ pc[r] = "rotate" /\ pc' = [pc EXCEPT ![r] = "answer"]
    BY <1>5 DEF CommitRotation, Answer, Goto
  <2>2. minted' \in Session'
    BY <2>1, RoomToMint DEF Session
  <2>. HIDE DEF new
  <2>3. new \in Nat /\ new >= minted
    BY <1>0 DEF new
  <2>4. consents' \in Seq(Record') /\ Len(consents') = Len(consents)
    BY <2>1, <2>3, MoveConsentsType DEF Record
  <2>5. conversations' \in Seq(Row') /\ Len(conversations') = Len(conversations)
    BY <2>1, <2>3, MoveConversationsType DEF Row
  <2>. QED
    BY <1>0, <2>1, <2>2, <2>3, <2>4, <2>5 DEF TablesTyped
<1>. QED
  BY <1>1, <1>2, <1>3, <1>4, <1>5, NextTables DEF TableSteps

\* The requests keep their types.
LEMMA RequestsStep ==
  ASSUME TypeInv, [Next]_vars
  PROVE  RequestsTyped'
<1>. TablesTyped /\ RequestsTyped /\ KindInv
  BY DEF TypeInv
<1>0. /\ minted \in Nat /\ minted >= 1 /\ minted' \in Nat /\ minted' >= minted
      /\ policy \in Nat /\ policy >= 1 /\ policy' \in Nat /\ policy' >= policy
      /\ Len(consents) \in Nat /\ Len(conversations) \in Nat
      /\ Len(consents') \in Nat /\ Len(conversations') \in Nat
      /\ Len(consents') >= Len(consents) /\ Len(conversations') >= Len(conversations)
  BY TablesStep, SessionRange DEF TablesTyped, Session
<1>1. Sent \subseteq Sent' /\ Carried \subseteq Carried' /\ Session' = Session
  <2>1. 0..Len(conversations) \subseteq 0..Len(conversations') /\ 0..policy \subseteq 0..policy'
        /\ 1..minted \subseteq 1..minted'
    BY <1>0
  <2>2. SUBSET (1..Len(conversations)) \subseteq SUBSET (1..Len(conversations'))
        /\ SUBSET (1..Len(consents)) \subseteq SUBSET (1..Len(consents'))
    BY <1>0
  <2>. QED
    BY <2>1, <2>2 DEF Sent, Carried, Session
<1>2. pc' \in [Request -> Place] /\ told' \in [Request -> Answers]
  <2>. USE DEF RequestsTyped, Place, Answers, Goto, Answer
  <2>1. ASSUME NEW r \in Request, NEW k, NEW c, NEW v, Sendable(k, c, v), Send(r, k, c, v)
        PROVE  pc' \in [Request -> Place] /\ told' \in [Request -> Answers]
    BY <2>1 DEF Send, First, Sendable, Kind
  <2>2. ASSUME NEW r \in Request, Receive(r) \/ CommitRotation(r) \/ StoreMessage(r) \/ InsertRecord(r)
        PROVE  pc' \in [Request -> Place] /\ told' \in [Request -> Answers]
    BY <2>2 DEF Receive, CommitRotation, StoreMessage, InsertRecord
  <2>3. ASSUME NEW r \in Request, Acquire(r) \/ CheckConsent(r) \/ Recheck(r) \/ PublishTurn(r)
        PROVE  pc' \in [Request -> Place] /\ told' \in [Request -> Answers]
    BY <2>3 DEF Acquire, CheckConsent, Recheck, PublishTurn
  <2>4. ASSUME NEW r \in Request, ReadTerms(r) \/ Withdraw(r) \/ MatchCode(r) \/ RotationFails(r)
        PROVE  pc' \in [Request -> Place] /\ told' \in [Request -> Answers]
    BY <2>4 DEF ReadTerms, Withdraw, MatchCode, RotationFails
  <2>5. CASE UNCHANGED <<pc, told>>
    BY <2>5
  <2>. QED
    BY <2>1, <2>2, <2>3, <2>4, <2>5, NextCases DEF Step, LoseLock, PublishPolicy, vars
<1>3. lock' \in [Session -> Request \cup {None}] /\ losses' \in 0..MaxLoss
  <2>1. ASSUME NEW r \in Request, Acquire(r)
        PROVE  lock' \in [Session -> Request \cup {None}] /\ losses' \in 0..MaxLoss
    BY <2>1 DEF RequestsTyped, Acquire
  <2>2. ASSUME NEW r \in Request, Unlock(r), UNCHANGED losses
        PROVE  lock' \in [Session -> Request \cup {None}] /\ losses' \in 0..MaxLoss
    BY <2>2 DEF RequestsTyped, Unlock
  <2>3. ASSUME NEW s \in Session, LoseLock(s)
        PROVE  lock' \in [Session -> Request \cup {None}] /\ losses' \in 0..MaxLoss
    BY <2>3, RotationBoundsAreNat DEF RequestsTyped, LoseLock
  <2>4. CASE UNCHANGED <<lock, losses>>
    BY <2>4 DEF RequestsTyped
  <2>5. ASSUME NEW r \in Request, Step(r), ~Acquire(r)
        PROVE  UNCHANGED losses /\ (Unlock(r) \/ UNCHANGED lock)
    BY <2>5 DEF Step, Receive, CheckConsent, Recheck, StoreMessage, PublishTurn, ReadTerms,
                InsertRecord, Withdraw, MatchCode, RotationFails, CommitRotation, history
  <2>. QED
    BY <2>1, <2>2, <2>3, <2>4, <2>5, NextCases DEF Send, PublishPolicy, vars
<1>4. req' \in [Request -> Sent']
  <2>1. Blank \in Sent
    BY <1>0 DEF Blank, Sent, Kind
  <2>2. ASSUME NEW r \in Request, NEW k \in Kind, NEW c \in 0..Len(conversations), NEW v \in 0..policy, Send(r, k, c, v)
        PROVE  req' \in [Request -> Sent']
    <3>1. [kind |-> k, session |-> cookie, conv |-> c, version |-> v] \in Sent
      BY DEF Sent, RequestsTyped
    <3>. QED
      BY <1>1, <2>2, <3>1 DEF Send, RequestsTyped
  <2>3. ASSUME NEW r \in Request, Receive(r)
        PROVE  req' \in [Request -> Sent']
    BY <1>1, <2>1, <2>3 DEF Receive, RequestsTyped
  <2>4. ASSUME NEW r \in Request, StoreMessage(r)
        PROVE  req' \in [Request -> Sent']
    <3>1. CASE req' = req
      BY <1>1, <3>1 DEF RequestsTyped
    <3>2. CASE req' = [req EXCEPT ![r].conv = Len(conversations')]
      <4>1. req[r] \in Sent' /\ Len(conversations') \in 0..Len(conversations')
        BY <1>0, <1>1 DEF RequestsTyped
      <4>2. [req[r] EXCEPT !.conv = Len(conversations')] \in Sent'
        BY <4>1 DEF Sent
      <4>. QED
        BY <1>1, <3>2, <4>2 DEF RequestsTyped
    <3>. QED
      BY <2>4, <3>1, <3>2 DEF StoreMessage
  <2>5. ASSUME NEW r \in Request, CommitRotation(r)
        PROVE  req' \in [Request -> Sent']
    <3>1. req[r] \in Sent' /\ minted + 1 \in 1..minted'
      BY <1>0, <1>1, <2>5 DEF CommitRotation, RequestsTyped
    <3>2. [req[r] EXCEPT !.session = minted + 1] \in Sent'
      BY <3>1 DEF Sent
    <3>. QED
      BY <1>1, <2>5, <3>2 DEF CommitRotation, RequestsTyped
  <2>6. CASE UNCHANGED req
    BY <1>1, <2>6 DEF RequestsTyped
  <2>7. /\ shown \in 0..Len(conversations) /\ 0 \in 0..Len(conversations) /\ 0 \in 0..policy
        /\ 1..policy \subseteq 0..policy
    BY <1>0 DEF RequestsTyped
  <2>. QED
    BY <2>2, <2>3, <2>4, <2>5, <2>6, <2>7 DEF Next, Step, Acquire, LoseLock, CheckConsent, Recheck,
       PublishTurn, ReadTerms, InsertRecord, Withdraw, PublishPolicy, MatchCode, RotationFails, AllDone, vars, Kind
<1>5. carried' \in [Request -> Carried']
  <2>1. ASSUME NEW r \in Request, MatchCode(r)
        PROVE  carried' \in [Request -> Carried']
    <3>. DEFINE s == req[r].session
                new == [conversations |-> {c \in DOMAIN conversations : conversations[c].owner = s},
                        consents |-> {i \in DOMAIN consents : consents[i].session = s}]
    <3>1. new \in Carried
      BY DEF Carried, TablesTyped
    <3>. QED
      BY <1>1, <2>1, <3>1 DEF MatchCode, RequestsTyped
  <2>2. ASSUME NEW r \in Request, CommitRotation(r) \/ RotationFails(r)
        PROVE  carried' \in [Request -> Carried']
    <3>1. Nothing \in Carried
      BY DEF Nothing, Carried
    <3>2. carried' = [carried EXCEPT ![r] = Nothing]
      BY <2>2 DEF CommitRotation, RotationFails
    <3>. QED
      BY <1>1, <3>1, <3>2 DEF RequestsTyped
  <2>3. CASE UNCHANGED carried
    BY <1>1, <2>3 DEF RequestsTyped
  <2>. QED
    BY <2>1, <2>2, <2>3 DEF Next, Step, Send, Receive, Acquire, LoseLock, CheckConsent, Recheck,
       StoreMessage, PublishTurn, ReadTerms, InsertRecord, Withdraw, PublishPolicy, AllDone, vars
<1>6. cookie' \in 1..minted' /\ shown' \in 0..Len(conversations')
  <2>1. ASSUME NEW r \in Request, Receive(r)
        PROVE  cookie' \in 1..minted /\ shown' \in 0..Len(conversations)
    <3>1. req[r] \in Sent
      BY DEF RequestsTyped
    <3>. QED
      BY <2>1, <3>1 DEF Receive, RequestsTyped, Sent
  <2>2. (~ \E r \in Request : Receive(r)) => UNCHANGED <<cookie, shown>>
    BY DEF Next, Step, Send, Acquire, LoseLock, CheckConsent, Recheck,
       StoreMessage, PublishTurn, ReadTerms, InsertRecord, Withdraw, PublishPolicy, MatchCode, RotationFails,
       CommitRotation, AllDone, vars, browser
  <2>. QED
    BY <1>0, <2>1, <2>2 DEF RequestsTyped
<1>. QED
  BY <1>1, <1>2, <1>3, <1>4, <1>5, <1>6 DEF RequestsTyped

LEMMA HistoryStep ==
  ASSUME TypeInv, [Next]_vars
  PROVE  HistoryTyped' /\ MintedOnce'
<1>. /\ TablesTyped /\ RequestsTyped /\ HistoryTyped /\ MintedOnce
     /\ minted \in Nat /\ minted' \in Nat /\ minted' >= minted
  BY TablesStep, SessionRange DEF TypeInv, TablesTyped, Session
<1>0. \A r \in Request : req[r].session \in 1..minted
  BY DEF RequestsTyped, Sent
<1>1. retired' \subseteq 1..minted' /\ lapsed' \subseteq 1..minted'
  <2>1. ASSUME NEW r \in Request, CommitRotation(r) \/ RotationFails(r) \/ InsertRecord(r)
        PROVE  /\ retired' \subseteq retired \cup {req[r].session}
               /\ lapsed' \subseteq lapsed \cup {req[r].session}
    BY <2>1 DEF CommitRotation, RotationFails, InsertRecord
  <2>2. ASSUME NEW r \in Request, Step(r), ~(CommitRotation(r) \/ RotationFails(r) \/ InsertRecord(r))
        PROVE  UNCHANGED <<retired, lapsed>>
    BY <2>2 DEF Step, Receive, Acquire, CheckConsent, Recheck, StoreMessage, PublishTurn, ReadTerms,
                Withdraw, MatchCode, history
  <2>3. (~ \E r \in Request : Step(r)) => UNCHANGED <<retired, lapsed>>
    BY NextCases DEF Send, LoseLock, PublishPolicy, vars, history
  <2>4. /\ retired \subseteq 1..minted' /\ lapsed \subseteq 1..minted'
        /\ \A r \in Request : {req[r].session} \subseteq 1..minted'
    <3>1. 1..minted \subseteq 1..minted'
      OBVIOUS
    <3>. QED
      BY <1>0, <3>1 DEF HistoryTyped
  <2>5. ASSUME NEW r \in Request, Step(r)
        PROVE  retired' \subseteq 1..minted' /\ lapsed' \subseteq 1..minted'
    <3>1. CASE CommitRotation(r) \/ RotationFails(r) \/ InsertRecord(r)
      BY <2>1, <2>4, <3>1
    <3>2. CASE ~(CommitRotation(r) \/ RotationFails(r) \/ InsertRecord(r))
      BY <2>2, <2>4, <2>5, <3>2
    <3>. QED
      BY <3>1, <3>2
  <2>. QED
    BY <2>3, <2>4, <2>5
<1>2. plain' \subseteq Request /\ against' \subseteq Request
  BY DEF HistoryTyped, Next, Step, Send, Receive, Acquire, LoseLock, CheckConsent, Recheck,
       StoreMessage, PublishTurn, ReadTerms, InsertRecord, Withdraw, PublishPolicy, MatchCode, RotationFails,
       CommitRotation, AllDone, vars, history
<1>3. crossed' \in BOOLEAN /\ refusing' \in BOOLEAN /\ astray' \in BOOLEAN
  <2>. USE DEF HistoryTyped
  <2>1. ASSUME NEW r \in Request, NEW k, NEW c, NEW v, Send(r, k, c, v)
        PROVE  crossed' \in BOOLEAN /\ refusing' \in BOOLEAN /\ astray' \in BOOLEAN
    BY <2>1 DEF Send
  <2>2. ASSUME NEW r \in Request, Receive(r) \/ StoreMessage(r) \/ Withdraw(r)
        PROVE  crossed' \in BOOLEAN /\ refusing' \in BOOLEAN /\ astray' \in BOOLEAN
    BY <2>2 DEF Receive, StoreMessage, Withdraw
  <2>3. ASSUME NEW r \in Request, Step(r), ~(Receive(r) \/ StoreMessage(r) \/ Withdraw(r))
        PROVE  UNCHANGED <<crossed, refusing, astray>>
    BY <2>3 DEF Step, Acquire, CheckConsent, Recheck, PublishTurn, ReadTerms, InsertRecord,
                MatchCode, RotationFails, CommitRotation, history
  <2>4. (\E s \in Session : LoseLock(s)) \/ PublishPolicy \/ UNCHANGED vars
        => UNCHANGED <<crossed, refusing, astray>>
    BY DEF LoseLock, PublishPolicy, vars, history
  <2>. QED
    BY <2>1, <2>2, <2>3, <2>4, NextCases
<1>4. MintedOnce'
  <2>1. ASSUME NEW r \in Request, CommitRotation(r)
        PROVE  MintedOnce'
    BY <2>1, RoomToMint DEF CommitRotation, Answer, Goto, MintedOnce
  <2>2. CASE minted' = minted
    <3>1. Ended \subseteq Ended'
      <4>. USE DEF Ended, RequestsTyped, Goto, Answer
      <4>1. ASSUME NEW r \in Request, NEW k, NEW c, NEW v, Send(r, k, c, v)
            PROVE  Ended \subseteq Ended'
        BY <4>1 DEF Send
      <4>2. ASSUME NEW r \in Request, Receive(r) \/ StoreMessage(r) \/ InsertRecord(r) \/ CommitRotation(r)
            PROVE  Ended \subseteq Ended'
        BY <4>2 DEF Receive, StoreMessage, InsertRecord, CommitRotation
      <4>3. ASSUME NEW r \in Request, Acquire(r) \/ CheckConsent(r) \/ Recheck(r) \/ PublishTurn(r)
            PROVE  Ended \subseteq Ended'
        BY <4>3 DEF Acquire, CheckConsent, Recheck, PublishTurn
      <4>4. ASSUME NEW r \in Request, ReadTerms(r) \/ Withdraw(r) \/ MatchCode(r) \/ RotationFails(r)
            PROVE  Ended \subseteq Ended'
        BY <4>4 DEF ReadTerms, Withdraw, MatchCode, RotationFails
      <4>5. CASE UNCHANGED pc
        BY <4>5
      <4>. QED
        BY <4>1, <4>2, <4>3, <4>4, <4>5, NextCases DEF Step, LoseLock, PublishPolicy, vars
    <3>2. IsFiniteSet(Ended') /\ IsFiniteSet(Ended)
      BY FiniteRequests, FS_Subset DEF Ended
    <3>3. /\ Cardinality(Ended) <= Cardinality(Ended')
          /\ Cardinality(Ended) \in Nat /\ Cardinality(Ended') \in Nat
      BY <3>1, <3>2, FS_Subset, FS_CardinalityType
    <3>. QED
      BY <2>2, <3>3 DEF MintedOnce
  <2>. QED
    BY <2>1, <2>2, NextTables DEF TableSteps, InsertRecord, Withdraw, StoreMessage
<1>. QED
  BY <1>1, <1>2, <1>3, <1>4 DEF HistoryTyped

LEMMA KindStep ==
  ASSUME TypeInv, [Next]_vars
  PROVE  KindInv'
<1>. TablesTyped /\ RequestsTyped /\ KindInv
  BY DEF TypeInv
<1>. USE DEF RequestsTyped, KindInv, Goto, Answer
<1>1. ASSUME NEW r \in Request, NEW k \in Kind, NEW c, NEW v, k = "consent" => v >= 1, Send(r, k, c, v)
      PROVE  KindInv'
  BY <1>1 DEF Send, First, Kind
<1>2. ASSUME NEW r \in Request, Receive(r)
      PROVE  KindInv'
  BY <1>2 DEF Receive, Blank
<1>3. ASSUME NEW r \in Request, StoreMessage(r)
      PROVE  KindInv'
  BY <1>3 DEF StoreMessage, Sent
<1>4. ASSUME NEW r \in Request, CommitRotation(r)
      PROVE  KindInv'
  BY <1>4 DEF CommitRotation, Sent
<1>5. ASSUME NEW r \in Request, Acquire(r) \/ CheckConsent(r) \/ Recheck(r) \/ PublishTurn(r)
      PROVE  KindInv'
  BY <1>5 DEF Acquire, CheckConsent, Recheck, PublishTurn
<1>6. ASSUME NEW r \in Request, ReadTerms(r) \/ InsertRecord(r) \/ Withdraw(r) \/ MatchCode(r) \/ RotationFails(r)
      PROVE  KindInv'
  BY <1>6 DEF ReadTerms, InsertRecord, Withdraw, MatchCode, RotationFails
<1>7. CASE UNCHANGED <<pc, req, told>>
  BY <1>7
<1>8. "chat" \in Kind /\ "withdraw" \in Kind /\ "consent" \in Kind /\ "code" \in Kind
  BY DEF Kind
<1>9. \A v \in 1..policy : v >= 1
  BY DEF TablesTyped
<1>. QED
  BY <1>1, <1>2, <1>3, <1>4, <1>5, <1>6, <1>7, <1>8, <1>9
     DEF Next, Step, LoseLock, PublishPolicy, AllDone, vars

LEMMA ShortSequences ==
  ASSUME NEW S, NEW x \in S
  PROVE  <<>> \in Seq(S) /\ <<x>> \in Seq(S)
OBVIOUS

LEMMA TypeInvariant == Spec => []TypeInv
<1>1. Init => TypeInv
  <2>. SUFFICES ASSUME Init PROVE TypeInv
    OBVIOUS
  <2>1. TablesTyped
    <3>1. policy = 1 /\ policy \in 1..MaxPolicy /\ minted = 1 /\ minted \in Session
      BY SessionRange, RotationBoundsAreNat DEF Init
    <3>2. /\ [session |-> 1, version |-> 1, withdrawn |-> FALSE] \in Record
          /\ [owner |-> 1, linked |-> FALSE] \in Row
      BY <3>1 DEF Record, Row
    <3>. DEFINE record == [session |-> 1, version |-> 1, withdrawn |-> FALSE]
                row    == [owner |-> 1, linked |-> FALSE]
    <3>3. consents \in {<<>>, <<record>>} /\ record \in Record
      BY <3>2 DEF Init
    <3>4. conversations \in {<<>>, <<row>>} /\ row \in Row
      BY <3>2 DEF Init
    <3>. HIDE DEF record, row
    <3>5. consents \in Seq(Record) /\ conversations \in Seq(Row)
      BY <3>3, <3>4, ShortSequences
    <3>. QED
      BY <3>1, <3>5 DEF TablesTyped
  <2>2. RequestsTyped
    <3>1. Blank \in Sent /\ Nothing \in Carried
      BY <2>1 DEF Init, Blank, Sent, Kind, Nothing, Carried, TablesTyped
    <3>2. lock \in [Session -> Request \cup {None}] /\ losses \in 0..MaxLoss
      BY RotationBoundsAreNat DEF Init
    <3>3. cookie \in 1..minted /\ shown \in 0..Len(conversations)
      BY DEF Init
    <3>. QED
      BY <3>1, <3>2, <3>3 DEF Init, RequestsTyped, Place, Answers
  <2>3. HistoryTyped /\ KindInv
    BY DEF Init, HistoryTyped, KindInv, Blank
  <2>4. MintedOnce
    <3>1. Cardinality(Ended) \in Nat
      BY FiniteRequests, FS_Subset, FS_CardinalityType DEF Ended
    <3>. QED
      BY <3>1 DEF Init, MintedOnce
  <2>. QED
    BY <2>1, <2>2, <2>3, <2>4 DEF TypeInv
<1>2. TypeInv /\ [Next]_vars => TypeInv'
  BY TablesStep, RequestsStep, HistoryStep, KindStep DEF TypeInv
<1>. QED
  BY <1>1, <1>2, PTL DEF Spec

\* Every table and every request keeps its type, and there is an id to mint
\* for every rotation that may still commit.
THEOREM RotationTypeCorrect == Spec => []TypeOK
<1>1. TypeInv => TypeOK
  <2>. SUFFICES ASSUME TypeInv PROVE TypeOK
    OBVIOUS
  <2>0. /\ minted \in Session /\ 1..minted \subseteq Session
        /\ policy \in 1..MaxPolicy /\ 0..policy \subseteq Nat /\ 1..policy \subseteq 1..MaxPolicy
    BY SessionRange, RotationBoundsAreNat DEF TypeInv, TablesTyped
  <2>1. consents \in Seq([session : Session, version : 1..MaxPolicy, withdrawn : BOOLEAN])
    <3>. DEFINE Rows == [session : Session, version : 1..MaxPolicy, withdrawn : BOOLEAN]
    <3>1. Record \subseteq Rows /\ consents \in Seq(Record)
      BY <2>0 DEF Record, TypeInv, TablesTyped
    <3>. HIDE DEF Rows
    <3>2. consents \in Seq(Rows)
      BY <3>1
    <3>. QED
      BY <3>2 DEF Rows
  <2>2. conversations \in Seq([owner : Session, linked : BOOLEAN])
    <3>. DEFINE Rows == [owner : Session, linked : BOOLEAN]
    <3>1. Row \subseteq Rows /\ conversations \in Seq(Row)
      BY <2>0 DEF Row, TypeInv, TablesTyped
    <3>. HIDE DEF Rows
    <3>2. conversations \in Seq(Rows)
      BY <3>1
    <3>. QED
      BY <3>2 DEF Rows
  <2>3. req \in [Request -> [kind : Kind, session : Session, conv : Nat, version : Nat]]
    <3>1. Len(conversations) \in Nat
      BY DEF TypeInv, TablesTyped
    <3>2. Sent \subseteq [kind : Kind, session : Session, conv : Nat, version : Nat]
      BY <2>0, <3>1 DEF Sent
    <3>. QED
      BY <3>2 DEF TypeInv, RequestsTyped
  <2>4. \A r \in Request : /\ carried[r].conversations \subseteq DOMAIN conversations
                           /\ carried[r].consents \subseteq DOMAIN consents
    BY DEF TypeInv, TablesTyped, RequestsTyped, Carried
  <2>. QED
    BY <2>0, <2>1, <2>2, <2>3, <2>4 DEF TypeOK, TypeInv, RequestsTyped, Answers
<1>. QED
  BY <1>1, TypeInvariant, PTL

(***************************************************************************)
(* The tables by themselves: links and withdrawals.                        *)
(***************************************************************************)

\* An invite code's link and the move to the verified session commit together.
THEOREM LinksMoveWithTheirOwner == Spec => []LinkMovesWithOwner
<1>1. Init => LinkMovesWithOwner
  BY DEF Init, LinkMovesWithOwner
<1>2. TypeInv /\ LinkMovesWithOwner /\ [Next]_vars => LinkMovesWithOwner'
  <2>. SUFFICES ASSUME TypeInv, LinkMovesWithOwner, [Next]_vars
                PROVE  LinkMovesWithOwner'
    OBVIOUS
  <2>0. /\ minted \in Nat /\ minted >= 1
        /\ Len(conversations) \in Nat /\ DOMAIN conversations = 1..Len(conversations)
        /\ TablesTyped
    BY SessionRange DEF TypeInv, TablesTyped
  <2>1. ASSUME NEW r \in Request, StoreMessage(r), conversations' # conversations
        PROVE  LinkMovesWithOwner'
    <3>1. conversations' = Append(conversations, [owner |-> req[r].session, linked |-> Verified(req[r].session)])
      BY <2>1 DEF StoreMessage
    <3>2. /\ DOMAIN conversations' = 1..(Len(conversations) + 1)
          /\ \A c \in 1..Len(conversations) : conversations'[c] = conversations[c]
          /\ conversations'[Len(conversations) + 1] =
               [owner |-> req[r].session, linked |-> Verified(req[r].session)]
      BY <2>0, <3>1 DEF TablesTyped
    <3>. QED
      BY <2>0, <3>2 DEF LinkMovesWithOwner
  <2>2. ASSUME NEW r \in Request, CommitRotation(r)
        PROVE  LinkMovesWithOwner'
    <3>. DEFINE new == minted + 1
    <3>1. conversations' = MoveConversations(r, new)
      BY <2>2 DEF CommitRotation
    <3>2. new \in Nat /\ new >= minted /\ new > 1
      BY <2>0
    <3>. HIDE DEF new
    <3>3. /\ DOMAIN conversations' = 1..Len(conversations)
          /\ \A c \in 1..Len(conversations) : conversations'[c] =
               IF c \in carried[r].conversations
               THEN [owner |-> new, linked |-> conversations[c].linked \/ c = req[r].conv]
               ELSE conversations[c]
      BY <2>0, <3>1, <3>2, MoveConversationsType
    <3>. QED
      BY <2>0, <3>2, <3>3 DEF LinkMovesWithOwner, Verified
  <2>3. CASE UNCHANGED conversations
    BY <2>3 DEF LinkMovesWithOwner, Verified
  <2>. QED
    BY <2>1, <2>2, <2>3, NextTables DEF TableSteps, InsertRecord, Withdraw
<1>. QED
  BY <1>1, <1>2, TypeInvariant, PTL DEF Spec

LEMMA WithdrawnKept ==
  ASSUME TypeInv, [Next]_vars, NEW i \in DOMAIN consents
  PROVE  /\ i \in DOMAIN consents' /\ consents'[i].version = consents[i].version
         /\ consents[i].withdrawn => consents'[i].withdrawn
<1>0. /\ minted \in Nat /\ minted >= 1
      /\ Len(consents) \in Nat /\ DOMAIN consents = 1..Len(consents)
      /\ TablesTyped /\ consents[i] \in Record
  BY SessionRange DEF TypeInv, TablesTyped
<1>1. ASSUME NEW r \in Request, InsertRecord(r)
      PROVE  i \in DOMAIN consents' /\ consents'[i] = consents[i]
  BY <1>0, <1>1 DEF InsertRecord, TablesTyped
<1>2. ASSUME NEW r \in Request, Withdraw(r)
      PROVE  /\ i \in DOMAIN consents'
             /\ consents'[i] = [consents[i] EXCEPT !.withdrawn = @ \/ consents[i].session = req[r].session]
  BY <1>0, <1>2, WithdrawnType DEF Withdraw
<1>3. ASSUME NEW r \in Request, CommitRotation(r)
      PROVE  /\ i \in DOMAIN consents'
             /\ consents'[i] \in {consents[i], [consents[i] EXCEPT !.session = minted + 1]}
  <2>. DEFINE new == minted + 1
  <2>1. consents' = MoveConsents(r, new) /\ new \in Nat /\ new >= minted
    BY <1>0, <1>3 DEF CommitRotation
  <2>. HIDE DEF new
  <2>2. i \in DOMAIN consents' /\ consents'[i] \in {consents[i], [consents[i] EXCEPT !.session = new]}
    BY <1>0, <2>1, MoveConsentsType
  <2>. QED
    BY <2>2 DEF new
<1>4. CASE UNCHANGED consents
  BY <1>0, <1>4
<1>. QED
  BY <1>0, <1>1, <1>2, <1>3, <1>4, NextTables DEF TableSteps, StoreMessage, Record

\* The consent_record table is an audit trail: no rotation, whatever it read
\* before a withdrawal and writes after it, gives a row its agreement back.
THEOREM WithdrawalsAreKept == Spec => WithdrawnStays
<1>1. TypeInv /\ [Next]_vars =>
        [\A i \in DOMAIN consents :
           /\ i \in DOMAIN consents' /\ consents'[i].version = consents[i].version
           /\ consents[i].withdrawn => consents'[i].withdrawn]_vars
  BY WithdrawnKept DEF TypeInv, TablesTyped
<1>. QED
  BY <1>1, TypeInvariant, PTL DEF Spec, WithdrawnStays

(***************************************************************************)
(* What the steps of one request leave alone, and what they do to the      *)
(* tables row by row.                                                      *)
(***************************************************************************)

LEMMA OthersKeep ==
  ASSUME TypeInv, NEW r \in Request, NEW q \in Request, q # r,
         Step(r) \/ \E k, c, v : Send(r, k, c, v)
  PROVE  pc'[q] = pc[q] /\ req'[q] = req[q] /\ told'[q] = told[q] /\ carried'[q] = carried[q]
<1>. USE DEF TypeInv, RequestsTyped, Goto, Answer
<1>1. CASE \E k, c, v : Send(r, k, c, v)
  BY <1>1 DEF Send
<1>2. CASE Receive(r) \/ CommitRotation(r) \/ StoreMessage(r) \/ InsertRecord(r)
  BY <1>2 DEF Receive, CommitRotation, StoreMessage, InsertRecord
<1>3. CASE Acquire(r) \/ CheckConsent(r) \/ Recheck(r) \/ PublishTurn(r)
  BY <1>3 DEF Acquire, CheckConsent, Recheck, PublishTurn
<1>4. CASE ReadTerms(r) \/ Withdraw(r) \/ MatchCode(r) \/ RotationFails(r)
  BY <1>4 DEF ReadTerms, Withdraw, MatchCode, RotationFails
<1>. QED
  BY <1>1, <1>2, <1>3, <1>4 DEF Step

LEMMA TableSizes ==
  ASSUME TypeInv
  PROVE  /\ minted \in Nat /\ minted >= 1 /\ minted \in Session /\ policy \in Nat /\ policy >= 1
         /\ Len(consents) \in Nat /\ DOMAIN consents = 1..Len(consents)
         /\ Len(conversations) \in Nat /\ DOMAIN conversations = 1..Len(conversations)
         /\ \A i \in 1..Len(consents) : consents[i] \in Record
         /\ \A c \in 1..Len(conversations) : conversations[c] \in Row
         /\ \A r \in Request : req[r] \in Sent /\ req[r].session \in 1..minted /\ req[r].session \in Session
BY SessionRange DEF TypeInv, TablesTyped, RequestsTyped, Sent

LEMMA InsertEffect ==
  ASSUME TypeInv, NEW r \in Request, InsertRecord(r), consents' # consents
  PROVE  /\ Len(consents') = Len(consents) + 1
         /\ \A i \in 1..Len(consents) : consents'[i] = consents[i]
         /\ consents'[Len(consents) + 1] =
              [session |-> req[r].session, version |-> req[r].version, withdrawn |-> FALSE]
         /\ lapsed' = IF req[r].session \in retired \/ \E q \in Request : pc[q] = "rotate" /\ req[q].session = req[r].session
                      THEN lapsed \cup {req[r].session} ELSE lapsed
BY TableSizes DEF InsertRecord, TypeInv, TablesTyped

LEMMA StoreEffect ==
  ASSUME TypeInv, NEW r \in Request, StoreMessage(r), ~Owns(req[r].session, req[r].conv)
  PROVE  /\ Len(conversations') = Len(conversations) + 1
         /\ \A c \in 1..Len(conversations) : conversations'[c] = conversations[c]
         /\ conversations'[Len(conversations) + 1].owner = req[r].session
         /\ req'[r] = [req[r] EXCEPT !.conv = Len(conversations) + 1]
<1>1. /\ conversations' = Append(conversations, [owner |-> req[r].session, linked |-> Verified(req[r].session)])
      /\ req' = [req EXCEPT ![r].conv = Len(conversations')]
  BY DEF StoreMessage
<1>. QED
  BY <1>1, TableSizes DEF TypeInv, TablesTyped, RequestsTyped

LEMMA CommitEffect ==
  ASSUME TypeInv, NEW r \in Request, CommitRotation(r)
  PROVE  /\ Len(consents') = Len(consents) /\ Len(conversations') = Len(conversations)
         /\ minted' = minted + 1
         /\ \A i \in 1..Len(consents) :
              consents'[i] = IF i \in carried[r].consents
                             THEN [consents[i] EXCEPT !.session = minted + 1] ELSE consents[i]
         /\ \A c \in 1..Len(conversations) :
              conversations'[c].owner = IF c \in carried[r].conversations
                                        THEN minted + 1 ELSE conversations[c].owner
<1>. DEFINE new == minted + 1
<1>1. consents' = MoveConsents(r, new) /\ conversations' = MoveConversations(r, new) /\ minted' = new
  BY DEF CommitRotation
<1>2. new \in Nat /\ new >= minted /\ TablesTyped
  BY TableSizes DEF TypeInv
<1>. HIDE DEF new
<1>3. /\ Len(consents') = Len(consents)
      /\ \A i \in 1..Len(consents) :
           consents'[i] = IF i \in carried[r].consents
                          THEN [consents[i] EXCEPT !.session = new] ELSE consents[i]
  BY <1>1, <1>2, MoveConsentsType
<1>4. /\ Len(conversations') = Len(conversations)
      /\ \A c \in 1..Len(conversations) :
           conversations'[c] = IF c \in carried[r].conversations
                               THEN [owner |-> new, linked |-> conversations[c].linked \/ c = req[r].conv]
                               ELSE conversations[c]
  BY <1>1, <1>2, MoveConversationsType
<1>5. \A c \in 1..Len(conversations) :
        conversations'[c].owner = IF c \in carried[r].conversations THEN new ELSE conversations[c].owner
  <2>. TAKE c \in 1..Len(conversations)
  <2>1. \A x : [owner |-> new, linked |-> x].owner = new
    OBVIOUS
  <2>. QED
    BY <1>4, <2>1
<1>. QED
  BY <1>1, <1>3, <1>4, <1>5 DEF new

LEMMA WithdrawEffect ==
  ASSUME TypeInv, NEW r \in Request, Withdraw(r)
  PROVE  /\ Len(consents') = Len(consents)
         /\ \A i \in 1..Len(consents) :
              /\ consents'[i].session = consents[i].session /\ consents'[i].version = consents[i].version
              /\ consents'[i].withdrawn = (consents[i].withdrawn \/ consents[i].session = req[r].session)
<1>1. TablesTyped /\ consents' = Withdrawn(req[r].session)
  BY DEF Withdraw, TypeInv
<1>2. /\ Len(consents') = Len(consents)
      /\ \A i \in 1..Len(consents) :
           consents'[i] = [consents[i] EXCEPT !.withdrawn = @ \/ consents[i].session = req[r].session]
  BY <1>1, WithdrawnType
<1>. QED
  BY <1>2, TableSizes DEF Record

(***************************************************************************)
(* The lock of a session: a turn that works and a rotation that moves      *)
(* exclude one another, as long as no lock was lost.                       *)
(***************************************************************************)

\* Between Acquire and the answer, a request holds its session's lock.
Held == {"recheck", "store", "publish", "match", "rotate"}
HoldersHold == \A r \in Request : pc[r] \in Held => lock[req[r].session] = r

\* What a rotation has read is still all its session has, agreements that
\* were recorded meanwhile apart.
CarriedWhole == \A q \in Request : pc[q] = "rotate" =>
  /\ \A c \in 1..Len(conversations) :
       conversations[c].owner = req[q].session <=> c \in carried[q].conversations
  /\ \A i \in carried[q].consents : consents[i].session = req[q].session
  /\ \A i \in 1..Len(consents) :
       consents[i].session = req[q].session => i \in carried[q].consents \/ req[q].session \in lapsed

\* A turn about to store runs in a session that was not rotated away.
StoresInSession == \A r \in Request : pc[r] = "store" => req[r].session \notin retired \ lapsed

TurnOwns == \A r \in Request : pc[r] = "publish" => Owns(req[r].session, req[r].conv)

RetiredEmpty == \A s \in retired \ lapsed :
  /\ \A c \in 1..Len(conversations) : conversations[c].owner # s
  /\ \A i \in 1..Len(consents) : consents[i].session # s

LockedInv == HoldersHold /\ CarriedWhole /\ StoresInSession /\ TurnOwns /\ RetiredEmpty
LockedWhileKept == losses = 0 => LockedInv

LEMMA SoleHolder ==
  ASSUME TypeInv, HoldersHold, NEW r \in Request, NEW q \in Request, q # r,
         pc[r] \in Held, pc[q] \in Held
  PROVE  req[q].session # req[r].session
BY DEF HoldersHold

LEMMA HoldersStep ==
  ASSUME TypeInv, HoldersHold, [Next]_vars, losses' = losses
  PROVE  HoldersHold'
<1>0. lock \in [Session -> Request \cup {None}] /\ None \notin Request
  BY FiniteRequests DEF TypeInv, RequestsTyped
<1>. USE DEF TypeInv, RequestsTyped, Goto, Answer
<1>1. ASSUME NEW r \in Request, Acquire(r)
      PROVE  HoldersHold'
  BY <1>0, <1>1, TableSizes DEF Acquire, HoldersHold, Held
<1>2. ASSUME NEW r \in Request, Unlock(r), pc'[r] = "answer", Step(r)
      PROVE  HoldersHold'
  <2>1. \A q \in Request \ {r} : pc'[q] = pc[q] /\ req'[q] = req[q]
    BY <1>2, OthersKeep
  <2>2. \A s \in Session : lock'[s] = IF lock[s] = r THEN None ELSE lock[s]
    BY <1>2 DEF Unlock
  <2>. QED
    BY <1>2, <2>1, <2>2, TableSizes DEF HoldersHold, Held
<1>3. ASSUME NEW r \in Request, UNCHANGED lock, Step(r),
             pc'[r] \in Held => pc[r] \in Held /\ req'[r].session = req[r].session
      PROVE  HoldersHold'
  <2>1. \A q \in Request \ {r} : pc'[q] = pc[q] /\ req'[q] = req[q]
    BY <1>3, OthersKeep
  <2>. QED
    BY <1>3, <2>1 DEF HoldersHold
<1>4. ASSUME NEW r \in Request, Step(r)
      PROVE  \/ Acquire(r)
             \/ Unlock(r) /\ pc'[r] = "answer"
             \/ UNCHANGED lock /\ (pc'[r] \in Held => pc[r] \in Held /\ req'[r].session = req[r].session)
  <2>1. CASE Receive(r) \/ InsertRecord(r) \/ CheckConsent(r) \/ ReadTerms(r) \/ Withdraw(r)
    BY <2>1 DEF Receive, InsertRecord, CheckConsent, ReadTerms, Withdraw, Held
  <2>2. CASE CommitRotation(r) \/ Recheck(r) \/ PublishTurn(r)
    BY <2>2 DEF CommitRotation, Recheck, PublishTurn, Held
  <2>3. CASE MatchCode(r) \/ RotationFails(r)
    BY <2>3 DEF MatchCode, RotationFails, Held
  <2>4. CASE StoreMessage(r)
    <3>1. pc[r] = "store" /\ UNCHANGED lock
      BY <2>4 DEF StoreMessage
    <3>2. req'[r].session = req[r].session
      BY <2>4, TableSizes DEF StoreMessage, Sent
    <3>. QED
      BY <3>1, <3>2 DEF Held
  <2>. QED
    BY <1>4, <2>1, <2>2, <2>3, <2>4 DEF Step
<1>5. ASSUME NEW r \in Request, NEW k, NEW c, NEW v, Sendable(k, c, v), Send(r, k, c, v)
      PROVE  HoldersHold'
  BY <1>5 DEF Send, HoldersHold, Held, Sendable, Kind, First
<1>6. ASSUME NEW s \in Session, LoseLock(s)
      PROVE  HoldersHold'
  BY <1>6 DEF LoseLock
<1>7. CASE UNCHANGED <<pc, req, lock>>
  BY <1>7 DEF HoldersHold
<1>. QED
  BY <1>1, <1>2, <1>3, <1>4, <1>5, <1>6, <1>7, NextCases DEF PublishPolicy, vars

\* Where a rotating request comes from.
LEMMA RotatingBefore ==
  ASSUME TypeInv, [Next]_vars, NEW q \in Request, pc'[q] = "rotate"
  PROVE  \/ MatchCode(q) /\ pc[q] = "match"
         \/ pc[q] = "rotate" /\ req'[q] = req[q] /\ carried'[q] = carried[q]
<1>. USE DEF TypeInv, RequestsTyped, Goto, Answer
<1>1. ASSUME NEW r \in Request, r # q, Step(r) \/ \E k, c, v : Send(r, k, c, v)
      PROVE  pc[q] = "rotate" /\ req'[q] = req[q] /\ carried'[q] = carried[q]
  BY <1>1, OthersKeep
<1>2. ASSUME NEW k, NEW c, NEW v, Sendable(k, c, v), Send(q, k, c, v)
      PROVE  FALSE
  BY <1>2 DEF Send, Sendable, Kind, First
<1>3. CASE Step(q)
  <2>1. ~(Receive(q) \/ CommitRotation(q) \/ RotationFails(q) \/ StoreMessage(q) \/ InsertRecord(q) \/ Acquire(q))
    BY DEF Receive, CommitRotation, RotationFails, StoreMessage, InsertRecord, Acquire
  <2>2. ~(CheckConsent(q) \/ Recheck(q) \/ PublishTurn(q) \/ ReadTerms(q) \/ Withdraw(q))
    BY DEF CheckConsent, Recheck, PublishTurn, ReadTerms, Withdraw
  <2>. QED
    BY <1>3, <2>1, <2>2 DEF Step, MatchCode, RotationFails
<1>4. CASE UNCHANGED <<pc, req, carried>>
  BY <1>4
<1>. QED
  BY <1>1, <1>2, <1>3, <1>4, NextCases DEF LoseLock, PublishPolicy, vars

\* A rotation that fails is over.
LEMMA RotationAnswers ==
  ASSUME TypeInv, NEW r \in Request, RotationFails(r)
  PROVE  pc'[r] = "answer"
BY DEF RotationFails, Answer, Goto, TypeInv, RequestsTyped

LEMMA CarriedStep ==
  ASSUME TypeInv, HoldersHold, CarriedWhole, [Next]_vars
  PROVE  CarriedWhole'
<1>. SUFFICES ASSUME NEW q \in Request, pc'[q] = "rotate"
              PROVE  /\ \A c \in 1..Len(conversations') :
                          conversations'[c].owner = req'[q].session <=> c \in carried'[q].conversations
                     /\ \A i \in carried'[q].consents : consents'[i].session = req'[q].session
                     /\ \A i \in 1..Len(consents') : consents'[i].session = req'[q].session
                          => i \in carried'[q].consents \/ req'[q].session \in lapsed'
  BY DEF CarriedWhole
<1>1. CASE MatchCode(q) /\ pc[q] = "match"
  <2>1. /\ carried' = [carried EXCEPT ![q] =
             [conversations |-> {c \in DOMAIN conversations : conversations[c].owner = req[q].session},
              consents      |-> {i \in DOMAIN consents : consents[i].session = req[q].session}]]
        /\ UNCHANGED <<req, conversations, consents>>
    BY <1>1 DEF MatchCode, Answer, Goto, tables, TypeInv, RequestsTyped
  <2>2. carried'[q] =
             [conversations |-> {c \in DOMAIN conversations : conversations[c].owner = req[q].session},
              consents      |-> {i \in DOMAIN consents : consents[i].session = req[q].session}]
    BY <2>1 DEF TypeInv, RequestsTyped
  <2>. QED
    BY <2>1, <2>2, TableSizes
<1>2. CASE pc[q] = "rotate" /\ req'[q] = req[q] /\ carried'[q] = carried[q]
  <2>. DEFINE s == req[q].session
  <2>1. /\ \A c \in 1..Len(conversations) : conversations[c].owner = s <=> c \in carried[q].conversations
        /\ \A i \in carried[q].consents : consents[i].session = s
        /\ \A i \in 1..Len(consents) : consents[i].session = s => i \in carried[q].consents \/ s \in lapsed
        /\ carried[q].consents \subseteq 1..Len(consents)
        /\ carried[q].conversations \subseteq 1..Len(conversations)
    BY <1>2 DEF CarriedWhole, TypeInv, RequestsTyped, Carried
  <2>2. ASSUME NEW r \in Request, InsertRecord(r)
        PROVE  /\ UNCHANGED conversations
               /\ \A i \in carried[q].consents : consents'[i].session = s
               /\ \A i \in 1..Len(consents') :
                    consents'[i].session = s => i \in carried[q].consents \/ s \in lapsed'
    <3>1. lapsed \subseteq lapsed' /\ UNCHANGED conversations
      BY <2>2 DEF InsertRecord
    <3>2. CASE consents' = consents
      BY <2>1, <3>1, <3>2
    <3>3. CASE consents' # consents
      <4>. DEFINE last == Len(consents) + 1
      <4>1. /\ \A i \in 1..Len(consents') : i \in 1..Len(consents) \/ i = last
            /\ \A i \in 1..Len(consents) : consents'[i] = consents[i]
            /\ consents'[last] =
                 [session |-> req[r].session, version |-> req[r].version, withdrawn |-> FALSE]
        BY <2>2, <3>3, InsertEffect, TableSizes
      <4>2. consents'[last].session = s => s \in lapsed'
        BY <1>2, <2>2, <3>3, <4>1, InsertEffect
      <4>. HIDE DEF last
      <4>. QED
        BY <2>1, <3>1, <4>1, <4>2
    <3>. QED
      BY <3>1, <3>2, <3>3
  <2>3. ASSUME NEW r \in Request, Withdraw(r)
        PROVE  /\ UNCHANGED <<conversations, lapsed>>
               /\ \A i \in carried[q].consents : consents'[i].session = s
               /\ \A i \in 1..Len(consents') :
                    consents'[i].session = s => i \in carried[q].consents \/ s \in lapsed
    <3>1. UNCHANGED <<conversations, lapsed>>
      BY <2>3 DEF Withdraw
    <3>. QED
      BY <2>1, <2>3, <3>1, WithdrawEffect
  <2>4. ASSUME NEW r \in Request, StoreMessage(r)
        PROVE  /\ UNCHANGED <<consents, lapsed>>
               /\ \A c \in 1..Len(conversations') :
                    conversations'[c].owner = s <=> c \in carried[q].conversations
    <3>1. UNCHANGED <<consents, lapsed>> /\ pc[r] = "store"
      BY <2>4 DEF StoreMessage
    <3>2. req[r].session # s
      BY <1>2, <3>1, SoleHolder DEF Held
    <3>3. CASE Owns(req[r].session, req[r].conv)
      BY <2>1, <2>4, <3>1, <3>3 DEF StoreMessage
    <3>4. CASE ~Owns(req[r].session, req[r].conv)
      <4>. DEFINE last == Len(conversations) + 1
      <4>0. /\ Len(conversations) \in Nat /\ Len(conversations') = last
            /\ \A c \in 1..Len(conversations) : conversations'[c] = conversations[c]
            /\ conversations'[last].owner = req[r].session
        BY <2>4, <3>4, StoreEffect, TableSizes
      <4>1. /\ \A c \in 1..Len(conversations') : c \in 1..Len(conversations) \/ c = last
            /\ last \notin 1..Len(conversations)
        BY <4>0
      <4>. HIDE DEF last
      <4>. QED
        BY <2>1, <3>1, <3>2, <4>0, <4>1
    <3>. QED
      BY <3>1, <3>3, <3>4
  <2>5. ASSUME NEW r \in Request, CommitRotation(r)
        PROVE  /\ UNCHANGED lapsed
               /\ \A c \in 1..Len(conversations') :
                    conversations'[c].owner = s <=> c \in carried[q].conversations
               /\ \A i \in carried[q].consents : consents'[i].session = s
               /\ \A i \in 1..Len(consents') :
                    consents'[i].session = s => i \in carried[q].consents \/ s \in lapsed
    <3>1. UNCHANGED lapsed /\ pc[r] = "rotate" /\ pc'[r] = "answer"
      BY <2>5 DEF CommitRotation, Answer, Goto, TypeInv, RequestsTyped
    <3>2. req[r].session # s /\ minted + 1 # s
      BY <1>2, <3>1, SoleHolder, TableSizes DEF Held
    <3>3. /\ \A c \in carried[r].conversations : conversations[c].owner = req[r].session
          /\ \A i \in carried[r].consents : consents[i].session = req[r].session
      BY <3>1 DEF CarriedWhole, TypeInv, RequestsTyped, Carried
    <3>4. \A i \in 1..Len(consents) : [consents[i] EXCEPT !.session = minted + 1].session = minted + 1
      BY TableSizes DEF Record
    <3>5. /\ Len(consents') = Len(consents) /\ Len(conversations') = Len(conversations)
          /\ \A i \in 1..Len(consents) : consents'[i].session =
               IF i \in carried[r].consents THEN minted + 1 ELSE consents[i].session
          /\ \A c \in 1..Len(conversations) : conversations'[c].owner =
               IF c \in carried[r].conversations THEN minted + 1 ELSE conversations[c].owner
      <4>1. \A i \in 1..Len(consents) : consents'[i].session =
               IF i \in carried[r].consents THEN minted + 1 ELSE consents[i].session
        BY <2>5, <3>4, CommitEffect
      <4>. QED
        BY <2>5, <4>1, CommitEffect
    <3>6. /\ \A i \in 1..Len(consents) : consents'[i].session = s <=> consents[i].session = s
          /\ \A c \in 1..Len(conversations) : conversations'[c].owner = s <=> conversations[c].owner = s
      BY <3>2, <3>3, <3>5
    <3>. QED
      BY <2>1, <3>1, <3>5, <3>6
  <2>6. CASE UNCHANGED <<consents, conversations>>
    <3>1. s \in lapsed => s \in lapsed'
      <4>1. ASSUME NEW r \in Request, RotationFails(r)
            PROVE  s \in lapsed => s \in lapsed'
        <5>1. q # r
          BY <1>2, <4>1, RotationAnswers
        <5>. QED
          BY <1>2, <4>1, <5>1 DEF RotationFails
      <4>2. CASE ~ \E r \in Request : RotationFails(r)
        BY <4>2 DEF Next, Step, Send, Receive, Acquire, LoseLock, CheckConsent, Recheck,
           StoreMessage, PublishTurn, ReadTerms, InsertRecord, Withdraw, PublishPolicy, MatchCode,
           CommitRotation, AllDone, vars, history
      <4>. QED
        BY <4>1, <4>2
    <3>. QED
      BY <1>2, <2>1, <2>6, <3>1
  <2>. QED
    BY <1>2, <2>1, <2>2, <2>3, <2>4, <2>5, <2>6, NextTables DEF TableSteps
<1>. QED
  BY <1>1, <1>2, RotatingBefore

LEMMA RotatedRows ==
  ASSUME TypeInv, CarriedWhole, NEW r \in Request, CommitRotation(r)
  PROVE  /\ Len(consents') = Len(consents) /\ Len(conversations') = Len(conversations)
         /\ \A i \in 1..Len(consents) :
              /\ i \in carried[r].consents => consents[i].session = req[r].session
              /\ consents'[i].session =
                   IF i \in carried[r].consents THEN minted + 1 ELSE consents[i].session
         /\ \A c \in 1..Len(conversations) :
              conversations'[c].owner =
                IF conversations[c].owner = req[r].session THEN minted + 1 ELSE conversations[c].owner
<1>1. pc[r] = "rotate"
  BY DEF CommitRotation
<1>2. \A i \in 1..Len(consents) : [consents[i] EXCEPT !.session = minted + 1].session = minted + 1
  BY TableSizes DEF Record
<1>3. /\ \A i \in 1..Len(consents) :
           i \in carried[r].consents => consents[i].session = req[r].session
      /\ \A i \in 1..Len(consents) : consents'[i].session =
           IF i \in carried[r].consents THEN minted + 1 ELSE consents[i].session
  <2>1. \A i \in 1..Len(consents) :
           i \in carried[r].consents => consents[i].session = req[r].session
    BY <1>1 DEF CarriedWhole
  <2>2. \A i \in 1..Len(consents) : consents'[i].session =
           IF i \in carried[r].consents THEN minted + 1 ELSE consents[i].session
    BY <1>2, CommitEffect
  <2>. QED
    BY <2>1, <2>2
<1>4. \A c \in 1..Len(conversations) :
        conversations'[c].owner =
          IF conversations[c].owner = req[r].session THEN minted + 1 ELSE conversations[c].owner
  BY <1>1, CommitEffect DEF CarriedWhole
<1>. QED
  BY <1>3, <1>4, CommitEffect

LEMMA TurnOwnsStep ==
  ASSUME TypeInv, HoldersHold, CarriedWhole, TurnOwns, [Next]_vars
  PROVE  TurnOwns'
<1>. USE DEF TypeInv, RequestsTyped, Goto, Answer
<1>. SUFFICES ASSUME NEW q \in Request, pc'[q] = "publish"
              PROVE  /\ req'[q].conv \in DOMAIN conversations'
                     /\ conversations'[req'[q].conv].owner = req'[q].session
  BY DEF TurnOwns, Owns
<1>0. \/ StoreMessage(q)
      \/ pc[q] = "publish" /\ req'[q] = req[q]
  <2>1. ASSUME NEW r \in Request, r # q, Step(r) \/ \E k, c, v : Send(r, k, c, v)
        PROVE  pc[q] = "publish" /\ req'[q] = req[q]
    BY <2>1, OthersKeep
  <2>2. ASSUME NEW k, NEW c, NEW v, Sendable(k, c, v), Send(q, k, c, v)
        PROVE  FALSE
    BY <2>2 DEF Send, Sendable, Kind, First
  <2>3. CASE Step(q)
    <3>1. ~(Receive(q) \/ CommitRotation(q) \/ RotationFails(q) \/ MatchCode(q) \/ InsertRecord(q) \/ Acquire(q))
      BY DEF Receive, CommitRotation, RotationFails, MatchCode, InsertRecord, Acquire
    <3>2. ~(CheckConsent(q) \/ Recheck(q) \/ PublishTurn(q) \/ ReadTerms(q) \/ Withdraw(q))
      BY DEF CheckConsent, Recheck, PublishTurn, ReadTerms, Withdraw
    <3>. QED
      BY <2>3, <3>1, <3>2 DEF Step
  <2>4. CASE UNCHANGED <<pc, req>>
    BY <2>4
  <2>. QED
    BY <2>1, <2>2, <2>3, <2>4, NextCases DEF LoseLock, PublishPolicy, vars
<1>1. CASE StoreMessage(q)
  <2>1. CASE Owns(req[q].session, req[q].conv)
    BY <1>1, <2>1 DEF StoreMessage, Owns
  <2>2. CASE ~Owns(req[q].session, req[q].conv)
    <3>1. req'[q].conv = Len(conversations) + 1 /\ req'[q].session = req[q].session
      BY <1>1, <2>2, StoreEffect, TableSizes DEF Sent
    <3>2. DOMAIN conversations' = 1..(Len(conversations) + 1) /\ Len(conversations) \in Nat
      <4>1. Len(conversations') = Len(conversations) + 1
        BY <1>1, <2>2, StoreEffect
      <4>2. DOMAIN conversations' = 1..Len(conversations') /\ Len(conversations) \in Nat
        BY TablesStep, TableSizes DEF TablesTyped
      <4>. QED
        BY <4>1, <4>2
    <3>3. conversations'[Len(conversations) + 1].owner = req[q].session
      BY <1>1, <2>2, StoreEffect
    <3>. QED
      BY <3>1, <3>2, <3>3
  <2>. QED
    BY <2>1, <2>2
<1>2. CASE pc[q] = "publish" /\ req'[q] = req[q]
  <2>. DEFINE d == req[q].conv
  <2>1. d \in 1..Len(conversations) /\ conversations[d].owner = req[q].session
    BY <1>2, TableSizes DEF TurnOwns, Owns
  <2>2. DOMAIN conversations' = 1..Len(conversations') /\ d \in 1..Len(conversations')
    <3>1. DOMAIN conversations' = 1..Len(conversations') /\ Len(conversations') \in Nat
      BY TablesStep DEF TablesTyped
    <3>. QED
      BY <2>1, <3>1, TablesStep, TableSizes
  <2>3. ASSUME NEW r \in Request, CommitRotation(r)
        PROVE  conversations'[d].owner = conversations[d].owner
    <3>1. pc[r] = "rotate"
      BY <2>3 DEF CommitRotation
    <3>2. req[r].session # req[q].session
      BY <1>2, <3>1, SoleHolder DEF Held
    <3>. QED
      BY <2>1, <2>3, <3>2, RotatedRows
  <2>4. ASSUME NEW r \in Request, StoreMessage(r)
        PROVE  conversations'[d].owner = conversations[d].owner
    BY <2>1, <2>4, StoreEffect DEF StoreMessage
  <2>5. CASE UNCHANGED conversations
    BY <1>2, <2>1, <2>2, <2>5
  <2>. QED
    BY <1>2, <2>1, <2>2, <2>3, <2>4, <2>5, NextTables DEF TableSteps, InsertRecord, Withdraw
<1>. QED
  BY <1>0, <1>1, <1>2

LEMMA RetiredStep ==
  ASSUME TypeInv, HoldersHold, CarriedWhole, StoresInSession, RetiredEmpty, [Next]_vars
  PROVE  StoresInSession' /\ RetiredEmpty'
<1>. USE DEF TypeInv, RequestsTyped, Goto, Answer
<1>0. retired \subseteq 1..minted
  BY DEF HistoryTyped
<1>1. ASSUME NEW r \in Request, CommitRotation(r)
      PROVE  StoresInSession' /\ RetiredEmpty'
  <2>1. /\ pc[r] = "rotate" /\ pc'[r] = "answer"
        /\ retired' = retired \cup {req[r].session} /\ lapsed' = lapsed
    BY <1>1 DEF CommitRotation
  <2>2. StoresInSession'
    <3>. SUFFICES ASSUME NEW q \in Request, pc'[q] = "store"
                  PROVE  req'[q].session \notin retired' \ lapsed'
      BY DEF StoresInSession
    <3>1. pc[q] = "store" /\ req'[q] = req[q] /\ q # r
      BY <1>1, <2>1, OthersKeep DEF Step
    <3>2. req[r].session # req[q].session
      BY <2>1, <3>1, SoleHolder DEF Held
    <3>. QED
      BY <2>1, <3>1, <3>2 DEF StoresInSession
  <2>3. RetiredEmpty'
    <3>. SUFFICES ASSUME NEW s \in retired' \ lapsed'
                  PROVE  /\ \A c \in 1..Len(conversations') : conversations'[c].owner # s
                         /\ \A i \in 1..Len(consents') : consents'[i].session # s
      BY DEF RetiredEmpty
    <3>1. s # minted + 1 /\ s \notin lapsed /\ (s = req[r].session \/ s \in retired \ lapsed)
      BY <1>0, <2>1, TableSizes
    <3>2. s = req[r].session => \A i \in 1..Len(consents) : consents[i].session = s => i \in carried[r].consents
      BY <2>1, <3>1 DEF CarriedWhole
    <3>. QED
      BY <1>1, <3>1, <3>2, RotatedRows DEF RetiredEmpty
  <2>. QED
    BY <2>2, <2>3
<1>2. ASSUME NEW r \in Request, Recheck(r)
      PROVE  StoresInSession' /\ RetiredEmpty'
  <2>1. UNCHANGED <<req, consents, conversations, retired, lapsed>>
    BY <1>2 DEF Recheck, tables, history
  <2>2. pc'[r] = "store" => req[r].session \notin retired \ lapsed
    BY <1>2, TableSizes DEF Recheck, Consented, Active, RetiredEmpty
  <2>3. \A q \in Request \ {r} : pc'[q] = pc[q]
    BY <1>2 DEF Recheck
  <2>. QED
    BY <2>1, <2>2, <2>3 DEF StoresInSession, RetiredEmpty
<1>3. ASSUME NEW r \in Request, InsertRecord(r)
      PROVE  StoresInSession' /\ RetiredEmpty'
  <2>1. UNCHANGED <<req, conversations, retired>> /\ lapsed \subseteq lapsed' /\ pc'[r] = "answer"
    BY <1>3 DEF InsertRecord
  <2>2. StoresInSession'
    BY <1>3, <2>1, OthersKeep DEF StoresInSession, Step
  <2>3. CASE consents' = consents
    BY <2>1, <2>2, <2>3 DEF RetiredEmpty
  <2>4. CASE consents' # consents
    <3>. DEFINE last == Len(consents) + 1
    <3>0. consents'[last] = [session |-> req[r].session, version |-> req[r].version, withdrawn |-> FALSE]
      BY <1>3, <2>4, InsertEffect
    <3>1. /\ Len(consents) \in Nat /\ Len(consents') = last
          /\ \A i \in 1..Len(consents) : consents'[i] = consents[i]
          /\ consents'[last].session = req[r].session
      BY <1>3, <2>4, <3>0, InsertEffect, TableSizes
    <3>2. \A i \in 1..Len(consents') : i \in 1..Len(consents) \/ i = last
      BY <3>1
    <3>3. req[r].session \in retired => req[r].session \in lapsed'
      BY <1>3, <2>4, InsertEffect
    <3>. HIDE DEF last
    <3>4. \A s \in retired' \ lapsed' : s \in retired \ lapsed /\ s # req[r].session
      BY <2>1, <3>3
    <3>. QED
      BY <2>1, <2>2, <3>1, <3>2, <3>4 DEF RetiredEmpty
  <2>. QED
    BY <2>3, <2>4
<1>4. ASSUME NEW r \in Request, StoreMessage(r)
      PROVE  StoresInSession' /\ RetiredEmpty'
  <2>1. UNCHANGED <<consents, retired, lapsed>> /\ pc[r] = "store" /\ pc'[r] = "publish"
    BY <1>4 DEF StoreMessage
  <2>2. StoresInSession'
    BY <1>4, <2>1, OthersKeep DEF StoresInSession, Step
  <2>3. CASE Owns(req[r].session, req[r].conv)
    BY <1>4, <2>1, <2>2, <2>3 DEF RetiredEmpty, StoreMessage
  <2>4. CASE ~Owns(req[r].session, req[r].conv)
    <3>. DEFINE last == Len(conversations) + 1
    <3>1. /\ Len(conversations) \in Nat /\ Len(conversations') = last
          /\ \A c \in 1..Len(conversations) : conversations'[c] = conversations[c]
          /\ conversations'[last].owner = req[r].session
      BY <1>4, <2>4, StoreEffect, TableSizes
    <3>2. \A c \in 1..Len(conversations') : c \in 1..Len(conversations) \/ c = last
      BY <3>1
    <3>. HIDE DEF last
    <3>. QED
      BY <2>1, <2>2, <3>1, <3>2 DEF RetiredEmpty, StoresInSession
  <2>. QED
    BY <2>3, <2>4
<1>5. ASSUME NEW r \in Request, Withdraw(r)
      PROVE  StoresInSession' /\ RetiredEmpty'
  <2>1. UNCHANGED <<req, conversations, retired, lapsed>> /\ pc'[r] = "answer"
    BY <1>5 DEF Withdraw
  <2>. QED
    BY <1>5, <2>1, OthersKeep, WithdrawEffect DEF StoresInSession, RetiredEmpty, Step
<1>6. ASSUME UNCHANGED <<consents, conversations>>, retired' \ lapsed' = retired \ lapsed,
             \A q \in Request : pc'[q] = "store" => pc[q] = "store" /\ req'[q] = req[q]
      PROVE  StoresInSession' /\ RetiredEmpty'
  BY <1>6 DEF StoresInSession, RetiredEmpty
<1>7. ASSUME NEW r \in Request,
             \/ Acquire(r) \/ CheckConsent(r) \/ PublishTurn(r) \/ ReadTerms(r) \/ MatchCode(r)
             \/ RotationFails(r) \/ Receive(r)
             \/ \E k, c, v : Sendable(k, c, v) /\ Send(r, k, c, v)
      PROVE  /\ UNCHANGED <<consents, conversations>> /\ retired' \ lapsed' = retired \ lapsed
             /\ \A q \in Request : pc'[q] = "store" => pc[q] = "store" /\ req'[q] = req[q]
  <2>1. /\ UNCHANGED <<consents, conversations>> /\ retired' \ lapsed' = retired \ lapsed
        /\ pc'[r] # "store"
    <3>1. CASE Acquire(r) \/ CheckConsent(r) \/ PublishTurn(r)
      BY <3>1 DEF Acquire, CheckConsent, PublishTurn, tables, history
    <3>2. CASE ReadTerms(r) \/ MatchCode(r) \/ Receive(r)
      BY <3>2 DEF ReadTerms, MatchCode, Receive, tables, history
    <3>3. CASE RotationFails(r)
      BY <3>3 DEF RotationFails, tables
    <3>4. CASE \E k, c, v : Sendable(k, c, v) /\ Send(r, k, c, v)
      BY <3>4 DEF Send, Sendable, Kind, First, tables
    <3>. QED
      BY <1>7, <3>1, <3>2, <3>3, <3>4
  <2>2. \A q \in Request \ {r} : pc'[q] = pc[q] /\ req'[q] = req[q]
    BY <1>7, OthersKeep DEF Step
  <2>. QED
    BY <2>1, <2>2
<1>8. CASE (\E s \in Session : LoseLock(s)) \/ PublishPolicy \/ UNCHANGED vars
  BY <1>6, <1>8 DEF LoseLock, PublishPolicy, vars, tables, history
<1>. QED
  BY <1>1, <1>2, <1>3, <1>4, <1>5, <1>6, <1>7, <1>8, NextCases DEF Step

LEMMA LockedInvariant == Spec => []LockedWhileKept
<1>1. Init => LockedWhileKept
  BY DEF Init, LockedWhileKept, LockedInv, HoldersHold, CarriedWhole, StoresInSession, TurnOwns, RetiredEmpty, Held
<1>2. TypeInv /\ LockedWhileKept /\ [Next]_vars => LockedWhileKept'
  <2>. SUFFICES ASSUME TypeInv, losses = 0 => LockedInv, [Next]_vars, losses' = 0
                PROVE  LockedInv'
    BY DEF LockedWhileKept
  <2>1. losses = 0 /\ losses' = losses
    <3>1. ASSUME NEW s \in Session, LoseLock(s)
          PROVE  FALSE
      BY <3>1 DEF LoseLock, TypeInv, RequestsTyped
    <3>2. ASSUME NEW r \in Request, Step(r)
          PROVE  losses' = losses
      BY <3>2 DEF Step, Receive, Acquire, CheckConsent, Recheck, StoreMessage, PublishTurn,
                  ReadTerms, InsertRecord, Withdraw, MatchCode, RotationFails, CommitRotation
    <3>. QED
      BY <3>1, <3>2, NextCases DEF Send, PublishPolicy, vars
  <2>. QED
    BY <2>1, HoldersStep, CarriedStep, TurnOwnsStep, RetiredStep DEF LockedInv
<1>. QED
  BY <1>1, <1>2, TypeInvariant, PTL DEF Spec

\* While no lock is lost, a turn publishes in a conversation of its session's:
\* verify_code takes session_work before it moves ownership.
THEOREM TurnsKeepTheirOwner == Spec => []TurnKeepsOwner
<1>1. LockedWhileKept => TurnKeepsOwner
  BY DEF TurnKeepsOwner, LockedWhileKept, LockedInv, TurnOwns
<1>. QED
  BY <1>1, LockedInvariant, PTL

\* While no lock is lost, a rotation leaves nothing at the old id but what is
\* agreed to during or after it.
THEOREM RetiredSessionsKeepNothing == Spec => []RetiredKeepsNothing
<1>1. TypeInv /\ LockedWhileKept => RetiredKeepsNothing
  BY TableSizes DEF RetiredKeepsNothing, LockedWhileKept, LockedInv, RetiredEmpty
<1>. QED
  BY <1>1, TypeInvariant, LockedInvariant, PTL

(***************************************************************************)
(* Withdrawal. From the moment it is carried out in the browser's own      *)
(* session, every session the browser can come to use is without consent:  *)
(* its own, the ones whose rotation is under way, and the ones a committed *)
(* rotation is about to announce.                                          *)
(***************************************************************************)

Dead(s) == \A i \in DOMAIN consents : consents[i].session = s => consents[i].withdrawn

\* The visitor was told, or is being told, that consent ended.
Refused == refusing \/ against # {} \/ \E r \in plain : told[r] = "withdrawn"

\* A session whose rotation was committed is new to everybody until the
\* browser hears of it.
FreshAnswers == \A p \in Request : told[p] = "verified" =>
  /\ req[p].session > 1 /\ req[p].session # cookie
  /\ \A q \in Request \ {p} : req[q].session # req[p].session

\* Submitting consent ends what a withdrawal began.
NoAgreement == plain # {} \/ refusing \/ against # {} => ~Agreeing

\* The browser has, or is about to have, another session than s.
Superseded(s) == cookie # s \/ \E p \in Request : told[p] = "verified" /\ req[p].session # s

\* A row another rotation took away was moved on.
RowsFollow == \A q \in Request : pc[q] = "rotate" => \A i \in carried[q].consents :
  consents[i].session = req[q].session \/ Superseded(req[q].session)

DeadCodes == \A q \in Request :
  pc[q] \in {"verify", "match"} \/ told[q] = "verified" => Dead(req[q].session)
DeadCarried == \A q \in Request :
  pc[q] = "rotate" => \A i \in carried[q].consents : consents[i].withdrawn
AgainstWait == \A q \in against : pc[q] \in {"gate", "answer"} /\ Dead(req[q].session)

RefusalHolds == ~crossed /\ Refused => Dead(cookie) /\ DeadCodes /\ DeadCarried /\ AgainstWait

LEMMA CookieStep ==
  ASSUME TypeInv, [Next]_vars
  PROVE  cookie' = cookie \/ \E p \in Request : Receive(p) /\ told[p] = "verified" /\ cookie' = req[p].session
<1>1. ASSUME NEW r \in Request, Step(r), ~Receive(r)
      PROVE  cookie' = cookie
  BY <1>1 DEF Step, Acquire, CheckConsent, Recheck, StoreMessage, PublishTurn, ReadTerms,
              InsertRecord, Withdraw, MatchCode, RotationFails, CommitRotation, browser
<1>2. ASSUME NEW r \in Request, Receive(r)
      PROVE  \/ cookie' = cookie
             \/ told[r] = "verified" /\ cookie' = req[r].session
  <2>1. cookie' = IF told[r] = "verified" THEN req[r].session ELSE cookie
    BY <1>2 DEF Receive
  <2>. QED
    BY <2>1
<1>. QED
  BY <1>1, <1>2, NextCases DEF Send, LoseLock, PublishPolicy, vars, browser

\* Where a request that will give, or has given, the browser a session comes from.
LEMMA CodeBefore ==
  ASSUME TypeInv, [Next]_vars, NEW q \in Request,
         pc'[q] \in {"verify", "match"} \/ told'[q] = "verified"
  PROVE  \/ (pc[q] \in {"verify", "match"} \/ told[q] = "verified") /\ req'[q] = req[q] /\ told'[q] = told[q]
         \/ req'[q].session = cookie /\ told'[q] # "verified"
         \/ CommitRotation(q) /\ req'[q].session = minted + 1
<1>. USE DEF TypeInv, RequestsTyped, Goto, Answer
<1>1. ASSUME NEW r \in Request, r # q, Step(r) \/ \E k, c, v : Send(r, k, c, v)
      PROVE  (pc[q] \in {"verify", "match"} \/ told[q] = "verified") /\ req'[q] = req[q] /\ told'[q] = told[q]
  BY <1>1, OthersKeep
<1>2. ASSUME NEW k, NEW c, NEW v, Send(q, k, c, v)
      PROVE  req'[q].session = cookie /\ told'[q] # "verified"
  BY <1>2 DEF Send, KindInv
<1>3. CASE Step(q) /\ ~CommitRotation(q) /\ ~Acquire(q)
  <2>1. CASE Receive(q) \/ StoreMessage(q) \/ InsertRecord(q) \/ CheckConsent(q) \/ Recheck(q)
    BY <2>1 DEF Receive, StoreMessage, InsertRecord, CheckConsent, Recheck, KindInv
  <2>2. CASE PublishTurn(q) \/ ReadTerms(q) \/ Withdraw(q) \/ MatchCode(q) \/ RotationFails(q)
    BY <2>2 DEF PublishTurn, ReadTerms, Withdraw, MatchCode, RotationFails, KindInv
  <2>. QED
    BY <1>3, <2>1, <2>2 DEF Step
<1>4. CASE Acquire(q)
  BY <1>4 DEF Acquire, KindInv
<1>5. ASSUME CommitRotation(q)
      PROVE  req'[q].session = minted + 1
  BY <1>5, TableSizes DEF CommitRotation, Sent
<1>6. CASE UNCHANGED <<pc, req, told>>
  BY <1>6
<1>. QED
  BY <1>1, <1>2, <1>3, <1>4, <1>5, <1>6, NextCases DEF LoseLock, PublishPolicy, vars

\* The session of a request, wherever it is.
LEMMA SessionBefore ==
  ASSUME TypeInv, [Next]_vars, NEW q \in Request
  PROVE  \/ req'[q].session = req[q].session
         \/ req'[q].session = cookie /\ told'[q] # "verified"
         \/ req'[q].session = 1 /\ told'[q] # "verified"
         \/ CommitRotation(q) /\ req'[q].session = minted + 1
<1>. USE DEF TypeInv, RequestsTyped, Goto, Answer
<1>1. ASSUME NEW r \in Request, r # q, Step(r) \/ \E k, c, v : Send(r, k, c, v)
      PROVE  req'[q].session = req[q].session
  BY <1>1, OthersKeep
<1>2. ASSUME NEW k, NEW c, NEW v, Send(q, k, c, v)
      PROVE  req'[q].session = cookie /\ told'[q] # "verified"
  BY <1>2 DEF Send, KindInv
<1>3. ASSUME Receive(q)
      PROVE  req'[q].session = 1 /\ told'[q] # "verified"
  BY <1>3 DEF Receive, Blank
<1>4. ASSUME StoreMessage(q)
      PROVE  req'[q].session = req[q].session
  BY <1>4, TableSizes DEF StoreMessage, Sent
<1>5. ASSUME CommitRotation(q)
      PROVE  req'[q].session = minted + 1
  BY <1>5, TableSizes DEF CommitRotation, Sent
<1>6. ASSUME Step(q), ~(Receive(q) \/ StoreMessage(q) \/ CommitRotation(q))
      PROVE  req'[q] = req[q]
  BY <1>6 DEF Step, InsertRecord, CheckConsent, Recheck, PublishTurn, ReadTerms, Withdraw,
              MatchCode, RotationFails, Acquire
<1>7. CASE UNCHANGED req
  BY <1>7
<1>. QED
  BY <1>1, <1>2, <1>3, <1>4, <1>5, <1>6, <1>7, NextCases DEF LoseLock, PublishPolicy, vars

LEMMA FreshStep ==
  ASSUME TypeInv, FreshAnswers, [Next]_vars
  PROVE  FreshAnswers'
<1>. SUFFICES ASSUME NEW p \in Request, told'[p] = "verified"
              PROVE  /\ req'[p].session > 1 /\ req'[p].session # cookie'
                     /\ \A q \in Request \ {p} : req'[q].session # req'[p].session
  BY DEF FreshAnswers
<1>0. /\ cookie \in 1..minted /\ minted \in Nat /\ minted >= 1
      /\ \A q \in Request : req[q].session \in 1..minted
  BY TableSizes DEF TypeInv, RequestsTyped
<1>1. ASSUME NEW q \in Request, NEW r \in Request, q # r, CommitRotation(r)
      PROVE  req'[q] = req[q] /\ cookie' = cookie
  BY <1>1, OthersKeep DEF Step, CommitRotation, browser
<1>2. CASE CommitRotation(p)
  <2>1. req'[p].session = minted + 1
    BY <1>2, TableSizes DEF CommitRotation, TypeInv, RequestsTyped, Sent
  <2>2. cookie' = cookie
    BY <1>2 DEF CommitRotation, browser
  <2>. QED
    BY <1>0, <1>1, <1>2, <2>1, <2>2
<1>3. CASE told[p] = "verified" /\ req'[p] = req[p] /\ told'[p] = told[p]
  <2>. DEFINE s == req[p].session
  <2>1. s > 1 /\ s # cookie /\ \A q \in Request \ {p} : req[q].session # s
    BY <1>3 DEF FreshAnswers
  <2>2. cookie' # s
    <3>1. ASSUME NEW r \in Request, Receive(r), told[r] = "verified", cookie' = req[r].session
          PROVE  cookie' # s
      <4>1. r # p
        BY <1>3, <3>1 DEF Receive, TypeInv, RequestsTyped
      <4>. QED
        BY <2>1, <3>1, <4>1
    <3>. QED
      BY <2>1, <3>1, CookieStep
  <2>3. \A q \in Request \ {p} : req'[q].session # s
    BY <1>0, <2>1, SessionBefore
  <2>. QED
    BY <1>3, <2>1, <2>2, <2>3
<1>. QED
  BY <1>2, <1>3, CodeBefore

\* Only sending a consent form makes the browser agree.
LEMMA AgreementStep ==
  ASSUME TypeInv, NoAgreement, [Next]_vars
  PROVE  NoAgreement'
<1>. USE DEF TypeInv, RequestsTyped, Goto, Answer
<1>1. ASSUME NEW r \in Request, NEW k, NEW c, NEW v, Sendable(k, c, v), Send(r, k, c, v)
      PROVE  NoAgreement'
  <2>1. CASE k = "consent"
    BY <1>1, <2>1 DEF Send, NoAgreement
  <2>2. CASE k # "consent"
    <3>1. (plain' # {} \/ refusing' \/ against' # {}) => ~Agreeing
      BY <1>1, <2>2 DEF Send, NoAgreement, HistoryTyped
    <3>2. ~Agreeing => ~Agreeing'
      BY <1>1, <2>2 DEF Send, Agreeing
    <3>. QED
      BY <3>1, <3>2 DEF NoAgreement
  <2>. QED
    BY <2>1, <2>2
<1>2. ASSUME NEW r \in Request, Step(r)
      PROVE  NoAgreement'
  <2>1. ~Agreeing => ~Agreeing'
    <3>1. \A q \in Request \ {r} : pc'[q] = pc[q] /\ req'[q] = req[q]
      BY <1>2, OthersKeep
    <3>2. pc[r] \notin {"idle", "done"}
      <4>1. CASE Receive(r) \/ StoreMessage(r) \/ InsertRecord(r) \/ CheckConsent(r) \/ Recheck(r)
        BY <4>1 DEF Receive, StoreMessage, InsertRecord, CheckConsent, Recheck
      <4>2. CASE PublishTurn(r) \/ ReadTerms(r) \/ Withdraw(r) \/ MatchCode(r) \/ RotationFails(r) \/ Acquire(r) \/ CommitRotation(r)
        BY <4>2 DEF PublishTurn, ReadTerms, Withdraw, MatchCode, RotationFails, Acquire, CommitRotation
      <4>. QED
        BY <1>2, <4>1, <4>2 DEF Step
    <3>3. req'[r].kind = req[r].kind \/ pc'[r] = "done"
      <4>1. CASE Receive(r)
        BY <4>1 DEF Receive
      <4>2. CASE StoreMessage(r)
        BY <4>2, TableSizes DEF StoreMessage, Sent
      <4>3. CASE CommitRotation(r)
        BY <4>3, TableSizes DEF CommitRotation, Sent
      <4>4. CASE ~(Receive(r) \/ StoreMessage(r) \/ CommitRotation(r))
        BY <1>2, <4>4 DEF Step, InsertRecord, CheckConsent, Recheck, PublishTurn, ReadTerms, Withdraw,
                          MatchCode, RotationFails, Acquire
      <4>. QED
        BY <4>1, <4>2, <4>3, <4>4
    <3>. QED
      BY <3>1, <3>2, <3>3 DEF Agreeing
  <2>2. (plain' # {} \/ refusing' \/ against' # {}) => (plain # {} \/ refusing \/ against # {})
    <3>1. CASE Receive(r)
      BY <3>1 DEF Receive
    <3>2. CASE ~Receive(r)
      BY <1>2, <3>2 DEF Step, InsertRecord, CheckConsent, Recheck, PublishTurn, ReadTerms, Withdraw,
                        MatchCode, RotationFails, Acquire, StoreMessage, CommitRotation, history
    <3>. QED
      BY <3>1, <3>2
  <2>. QED
    BY <2>1, <2>2 DEF NoAgreement
<1>3. CASE UNCHANGED <<pc, req, plain, refusing, against>>
  BY <1>3 DEF NoAgreement, Agreeing
<1>. QED
  BY <1>1, <1>2, <1>3, NextCases DEF LoseLock, PublishPolicy, vars, history

\* Once superseded, a session that somebody else still uses stays so.
LEMMA SupersededStays ==
  ASSUME TypeInv, FreshAnswers, [Next]_vars, NEW q \in Request, Superseded(req[q].session),
         told[q] # "verified"
  PROVE  \/ cookie' # req[q].session
         \/ \E p \in Request : told'[p] = "verified" /\ req'[p].session # req[q].session
<1>. DEFINE s == req[q].session
<1>1. CASE cookie # s
  <2>1. \A p \in Request : told[p] = "verified" => req[p].session # s
    BY DEF FreshAnswers
  <2>. QED
    BY <1>1, <2>1, CookieStep
<1>2. ASSUME NEW p \in Request, told[p] = "verified", req[p].session # s
      PROVE  \/ cookie' # s
             \/ told'[p] = "verified" /\ req'[p].session # s
  <2>1. pc[p] = "answer"
    BY <1>2 DEF TypeInv, KindInv
  <2>2. CASE Receive(p)
    BY <1>2, <2>2 DEF Receive
  <2>3. CASE ~Receive(p)
    <3>1. ~Step(p) /\ ~ \E k, c, v : Send(p, k, c, v)
      <4>1. ~(StoreMessage(p) \/ InsertRecord(p) \/ CheckConsent(p) \/ Recheck(p) \/ PublishTurn(p) \/ ReadTerms(p))
        BY <2>1 DEF StoreMessage, InsertRecord, CheckConsent, Recheck, PublishTurn, ReadTerms
      <4>2. ~(Withdraw(p) \/ MatchCode(p) \/ Acquire(p) \/ CommitRotation(p) \/ RotationFails(p) \/ \E k, c, v : Send(p, k, c, v))
        BY <2>1 DEF Withdraw, MatchCode, Acquire, CommitRotation, RotationFails, Send
      <4>. QED
        BY <2>3, <4>1, <4>2 DEF Step
    <3>2. ASSUME NEW r \in Request, Step(r) \/ \E k, c, v : Send(r, k, c, v)
          PROVE  told'[p] = told[p] /\ req'[p] = req[p]
      BY <3>1, <3>2, OthersKeep
    <3>3. CASE UNCHANGED <<told, req>>
      BY <1>2, <3>3
    <3>. QED
      BY <1>2, <3>2, <3>3, NextCases DEF LoseLock, PublishPolicy, vars
  <2>. QED
    BY <2>2, <2>3
<1>. QED
  BY <1>1, <1>2 DEF Superseded

LEMMA RowsStep ==
  ASSUME TypeInv, FreshAnswers, RowsFollow, [Next]_vars
  PROVE  RowsFollow'
<1>. SUFFICES ASSUME NEW q \in Request, pc'[q] = "rotate", NEW i \in carried'[q].consents,
                     consents'[i].session # req'[q].session
              PROVE  \/ cookie' # req'[q].session
                     \/ \E p \in Request : told'[p] = "verified" /\ req'[p].session # req'[q].session
  BY DEF RowsFollow, Superseded
<1>1. CASE MatchCode(q) /\ pc[q] = "match"
  <2>1. UNCHANGED <<req, consents>>
    BY <1>1 DEF MatchCode, tables
  <2>2. pc'[q] # "answer"
    OBVIOUS
  <2>3. carried'[q].consents = {j \in DOMAIN consents : consents[j].session = req[q].session}
    BY <1>1, <2>2 DEF MatchCode, Answer, Goto, TypeInv, RequestsTyped
  <2>. QED
    BY <2>1, <2>3
<1>2. CASE pc[q] = "rotate" /\ req'[q] = req[q] /\ carried'[q] = carried[q]
  <2>0. /\ i \in carried[q].consents /\ i \in 1..Len(consents)
        /\ told[q] # "verified" /\ req[q].session \in 1..minted /\ minted \in Nat
    BY <1>2, TableSizes DEF TypeInv, RequestsTyped, Carried, KindInv
  <2>1. CASE consents[i].session # req[q].session
    <3>1. Superseded(req[q].session)
      BY <1>2, <2>0, <2>1 DEF RowsFollow
    <3>. QED
      BY <1>2, <2>0, <3>1, SupersededStays
  <2>2. CASE consents[i].session = req[q].session
    <3>1. \E r \in Request : CommitRotation(r)
      <4>1. ASSUME NEW r \in Request, InsertRecord(r)
            PROVE  consents'[i] = consents[i]
        BY <2>0, <4>1, InsertEffect
      <4>2. ASSUME NEW r \in Request, Withdraw(r)
            PROVE  consents'[i].session = consents[i].session
        BY <2>0, <4>2, WithdrawEffect
      <4>. QED
        BY <1>2, <2>2, <4>1, <4>2, NextTables DEF TableSteps, StoreMessage
    <3>2. PICK r \in Request : CommitRotation(r)
      BY <3>1
    <3>3. told'[r] = "verified" /\ req'[r].session = minted + 1
      BY <3>2, TableSizes DEF CommitRotation, Answer, TypeInv, RequestsTyped, Sent
    <3>. QED
      BY <1>2, <2>0, <3>3
  <2>. QED
    BY <2>1, <2>2
<1>. QED
  BY <1>1, <1>2, RotatingBefore

\* A session without consent gets none while the visitor refuses: nobody
\* submits a consent form, and no rotation carries an agreement in force.
LEMMA DeadStep ==
  ASSUME TypeInv, ~Agreeing, DeadCarried, [Next]_vars, NEW s, Dead(s) \/ s = minted + 1
  PROVE  Dead(s)'
<1>0. /\ Len(consents) \in Nat /\ DOMAIN consents = 1..Len(consents) /\ minted \in Nat
      /\ DOMAIN consents' = 1..Len(consents')
      /\ \A i \in 1..Len(consents) : consents[i].session \in 1..minted /\ consents[i].withdrawn \in BOOLEAN
  BY TableSizes, TablesStep DEF TablesTyped, Record
<1>1. \A i \in 1..Len(consents) : consents[i].session = s => consents[i].withdrawn
  BY <1>0 DEF Dead
<1>2. ASSUME NEW r \in Request, InsertRecord(r)
      PROVE  FALSE
  BY <1>2 DEF InsertRecord, TypeInv, KindInv, Agreeing
<1>3. ASSUME NEW r \in Request, Withdraw(r)
      PROVE  Dead(s)'
  BY <1>0, <1>1, <1>3, WithdrawEffect DEF Dead
<1>4. ASSUME NEW r \in Request, CommitRotation(r)
      PROVE  Dead(s)'
  <2>1. \A i \in carried[r].consents : consents[i].withdrawn
    BY <1>4 DEF CommitRotation, DeadCarried
  <2>2. \A i \in 1..Len(consents) : consents[i] \in Record
    BY TableSizes
  <2>3. \A i \in 1..Len(consents) : [consents[i] EXCEPT !.session = minted + 1].withdrawn = consents[i].withdrawn
    BY <2>2 DEF Record
  <2>4. /\ Len(consents') = Len(consents)
        /\ \A i \in 1..Len(consents) : i \in carried[r].consents => consents'[i].withdrawn = consents[i].withdrawn
        /\ \A i \in 1..Len(consents) : i \notin carried[r].consents => consents'[i] = consents[i]
    BY <1>4, <2>3, CommitEffect
  <2>. QED
    BY <1>0, <1>1, <2>1, <2>4 DEF Dead
<1>5. CASE UNCHANGED consents
  BY <1>0, <1>1, <1>5 DEF Dead
<1>. QED
  BY <1>2, <1>3, <1>4, <1>5, NextTables DEF TableSteps, StoreMessage

\* The visitor begins to refuse when a withdrawal is carried out.
LEMMA RefusedBefore ==
  ASSUME TypeInv, [Next]_vars, Refused'
  PROVE  Refused \/ \E r \in plain : Withdraw(r)
<1>. USE DEF TypeInv, RequestsTyped, HistoryTyped, Goto, Answer
<1>0. plain \subseteq Request /\ told \in [Request -> Answers]
  OBVIOUS
<1>1. ASSUME NEW r \in Request, NEW k, NEW c, NEW v, Sendable(k, c, v), Send(r, k, c, v)
      PROVE  Refused
  <2>1. UNCHANGED told /\ told[r] = "nothing"
    BY <1>1 DEF Send, KindInv
  <2>2. refusing' => refusing
    BY <1>1 DEF Send
  <2>3. against' # {} => refusing \/ against # {}
    BY <1>1 DEF Send, Sendable, Kind
  <2>4. plain' \subseteq plain \cup {r}
    BY <1>1 DEF Send, Sendable, Kind
  <2>. QED
    BY <2>1, <2>2, <2>3, <2>4 DEF Refused
<1>2. ASSUME NEW r \in Request, Receive(r)
      PROVE  Refused
  <2>1. refusing' => \/ refusing
                     \/ told[r] = "withdrawn" /\ r \in plain
    BY <1>2 DEF Receive
  <2>2. plain' = plain \ {r} /\ against' \subseteq against
    BY <1>2 DEF Receive
  <2>3. \A q \in plain' : told'[q] = told[q]
    BY <1>0, <1>2, <2>2 DEF Receive
  <2>. QED
    BY <2>1, <2>2, <2>3 DEF Refused
<1>3. ASSUME NEW r \in Request, Withdraw(r)
      PROVE  Refused \/ r \in plain
  <2>1. UNCHANGED <<plain, refusing, against>> /\ \A q \in Request \ {r} : told'[q] = told[q]
    BY <1>3 DEF Withdraw
  <2>. QED
    BY <1>0, <2>1 DEF Refused
<1>4. ASSUME NEW r \in Request, Step(r), ~Receive(r), ~Withdraw(r)
      PROVE  UNCHANGED <<plain, refusing, against>> /\ told'[r] # "withdrawn"
  <2>1. CASE Acquire(r) \/ CheckConsent(r) \/ Recheck(r) \/ StoreMessage(r) \/ PublishTurn(r)
    BY <2>1 DEF Acquire, CheckConsent, Recheck, StoreMessage, PublishTurn, KindInv, history
  <2>2. CASE ReadTerms(r) \/ InsertRecord(r) \/ MatchCode(r) \/ RotationFails(r) \/ CommitRotation(r)
    BY <2>2 DEF ReadTerms, InsertRecord, MatchCode, RotationFails, CommitRotation, KindInv, history
  <2>. QED
    BY <1>4, <2>1, <2>2 DEF Step
<1>5. ASSUME NEW r \in Request, Step(r), ~Receive(r), ~Withdraw(r)
      PROVE  Refused
  <2>1. \A q \in Request \ {r} : told'[q] = told[q]
    BY <1>5, OthersKeep
  <2>. QED
    BY <1>0, <1>4, <1>5, <2>1 DEF Refused
<1>6. CASE UNCHANGED <<told, plain, refusing, against>>
  BY <1>6 DEF Refused
<1>. QED
  BY <1>1, <1>2, <1>3, <1>5, <1>6, NextCases DEF LoseLock, PublishPolicy, vars, history

\* What a withdrawal finds when it begins the refusal.
LEMMA RefusalBegins ==
  ASSUME TypeInv, FreshAnswers, RowsFollow, NEW r \in plain, Withdraw(r), ~crossed', ~Refused
  PROVE  Dead(cookie)' /\ DeadCodes' /\ DeadCarried' /\ AgainstWait'
<1>. USE DEF TypeInv, RequestsTyped, HistoryTyped, Goto, Answer
<1>0. r \in Request
  OBVIOUS
<1>1. /\ req[r].session = cookie /\ ~RotatesElsewhere(cookie)
      /\ UNCHANGED <<req, cookie, carried, against>> /\ pc[r] = "withdraw"
      /\ pc' = [pc EXCEPT ![r] = "answer"] /\ told' = [told EXCEPT ![r] = "withdrawn"]
  BY DEF Withdraw, browser
<1>2. /\ Len(consents') = Len(consents) /\ DOMAIN consents' = 1..Len(consents)
      /\ \A i \in 1..Len(consents) :
           /\ consents'[i].session = consents[i].session
           /\ consents[i].session = cookie => consents'[i].withdrawn
  <2>1. DOMAIN consents' = 1..Len(consents')
    BY <1>0, TablesStep DEF TablesTyped, Next, Step
  <2>. QED
    BY <1>0, <1>1, <2>1, WithdrawEffect
<1>3. Dead(cookie)'
  BY <1>1, <1>2 DEF Dead
<1>4. \A q \in Request : pc[q] \in {"verify", "match", "rotate"} \/ told[q] = "verified" => req[q].session = cookie
  BY <1>1 DEF RotatesElsewhere, KindInv
<1>5. DeadCodes'
  BY <1>0, <1>1, <1>3, <1>4 DEF DeadCodes, Dead
<1>6. DeadCarried'
  <2>. SUFFICES ASSUME NEW q \in Request, pc'[q] = "rotate", NEW i \in carried[q].consents
                PROVE  consents'[i].withdrawn
    BY <1>1 DEF DeadCarried
  <2>1. pc[q] = "rotate" /\ req[q].session = cookie /\ i \in 1..Len(consents)
    BY <1>0, <1>1, <1>4 DEF Carried
  <2>2. ~Superseded(cookie)
    BY <1>4 DEF Superseded
  <2>. QED
    BY <1>2, <2>1, <2>2 DEF RowsFollow
<1>7. AgainstWait'
  BY <1>1 DEF AgainstWait, Refused
<1>. QED
  BY <1>3, <1>5, <1>6, <1>7

\* What the refusal keeps from then on.
LEMMA RefusalGoesOn ==
  ASSUME TypeInv, NoAgreement, Refused, Refused', [Next]_vars,
         Dead(cookie), DeadCodes, DeadCarried, AgainstWait
  PROVE  Dead(cookie)' /\ DeadCodes' /\ DeadCarried' /\ AgainstWait'
<1>. USE DEF TypeInv, RequestsTyped, HistoryTyped, Goto, Answer
<1>. DEFINE DeadNext(s) == \A i \in DOMAIN consents' : consents'[i].session = s => consents'[i].withdrawn
<1>0. ~Agreeing /\ plain \subseteq Request /\ against \subseteq Request
  BY DEF NoAgreement, Refused
<1>1. \A s : Dead(s) \/ s = minted + 1 => DeadNext(s)
  BY <1>0, DeadStep DEF Dead
<1>2. Dead(cookie)'
  <2>1. Dead(cookie')
    <3>1. ASSUME NEW p \in Request, told[p] = "verified", cookie' = req[p].session
          PROVE  Dead(cookie')
      BY <3>1 DEF DeadCodes
    <3>. QED
      BY <3>1, CookieStep
  <2>2. DeadNext(cookie')
    BY <1>1, <2>1
  <2>. QED
    BY <2>2 DEF Dead
<1>3. DeadCodes'
  <2>. SUFFICES ASSUME NEW q \in Request, pc'[q] \in {"verify", "match"} \/ told'[q] = "verified"
                PROVE  DeadNext(req'[q].session)
    BY DEF DeadCodes, Dead
  <2>1. Dead(req'[q].session) \/ req'[q].session = minted + 1
    BY CodeBefore DEF DeadCodes
  <2>. QED
    BY <1>1, <2>1
<1>4. DeadCarried'
  <2>. SUFFICES ASSUME NEW q \in Request, pc'[q] = "rotate", NEW i \in carried'[q].consents
                PROVE  consents'[i].withdrawn
    BY DEF DeadCarried
  <2>1. CASE MatchCode(q) /\ pc[q] = "match"
    <3>1. carried'[q].consents = {j \in DOMAIN consents : consents[j].session = req[q].session}
          /\ UNCHANGED consents
      BY <2>1 DEF MatchCode, tables
    <3>2. Dead(req[q].session)
      BY <2>1 DEF DeadCodes
    <3>. QED
      BY <3>1, <3>2 DEF Dead
  <2>2. CASE pc[q] = "rotate" /\ carried'[q] = carried[q]
    <3>1. consents[i].withdrawn /\ i \in DOMAIN consents
      BY <2>2 DEF DeadCarried, Carried, TablesTyped
    <3>. QED
      BY <3>1, WithdrawnKept
  <2>. QED
    BY <2>1, <2>2, RotatingBefore
<1>5. AgainstWait'
  <2>. SUFFICES ASSUME NEW q \in against'
                PROVE  pc'[q] \in {"gate", "answer"} /\ DeadNext(req'[q].session)
    BY DEF AgainstWait, Dead
  <2>1. \/ q \in against
        \/ q \in Request /\ \E c, v : Send(q, "chat", c, v)
    <3>1. ASSUME NEW r \in Request, Step(r)
          PROVE  against' \subseteq against
      BY <3>1 DEF Step, Receive, Acquire, CheckConsent, Recheck, StoreMessage, PublishTurn,
                  ReadTerms, InsertRecord, Withdraw, MatchCode, RotationFails, CommitRotation, history
    <3>2. ASSUME NEW r \in Request, NEW k, NEW c, NEW v, Sendable(k, c, v), Send(r, k, c, v)
          PROVE  \/ against' \subseteq against
                 \/ k = "chat" /\ against' \subseteq against \cup {r}
      BY <3>2 DEF Send, Sendable, Kind
    <3>3. CASE UNCHANGED against
      BY <3>3
    <3>. QED
      BY <3>1, <3>2, <3>3, NextCases DEF LoseLock, PublishPolicy, vars, history
  <2>2. CASE q \in Request /\ \E c, v : Send(q, "chat", c, v)
    <3>0. q \in Request
      BY <2>2
    <3>1. ASSUME NEW c, NEW v, Send(q, "chat", c, v)
          PROVE  pc'[q] = "gate" /\ req'[q].session = cookie
      BY <3>0, <3>1 DEF Send, First
    <3>2. pc'[q] = "gate" /\ req'[q].session = cookie
      BY <2>2, <3>1
    <3>. QED
      BY <1>1, <3>2
  <2>3. CASE q \in against
    <3>1. pc[q] \in {"gate", "answer"} /\ Dead(req[q].session) /\ q \in Request
      BY <1>0, <2>3 DEF AgainstWait
    <3>2. ASSUME NEW r \in Request, r # q, Step(r) \/ \E k, c, v : Send(r, k, c, v)
          PROVE  pc'[q] = pc[q] /\ req'[q] = req[q]
      BY <3>1, <3>2, OthersKeep
    <3>3. ASSUME Step(q)
          PROVE  pc'[q] \in {"gate", "answer"} /\ req'[q] = req[q]
      <4>1. ~Consented(req[q].session)
        BY <3>1 DEF Consented, Active, Dead
      <4>2. ~Receive(q)
        <5>1. Receive(q) => against' = against \ {q}
          BY DEF Receive
        <5>. QED
          BY <5>1
      <4>3. ~(StoreMessage(q) \/ InsertRecord(q) \/ Recheck(q) \/ PublishTurn(q) \/ ReadTerms(q))
        BY <3>1 DEF StoreMessage, InsertRecord, Recheck, PublishTurn, ReadTerms
      <4>4. ~(Withdraw(q) \/ MatchCode(q) \/ Acquire(q) \/ CommitRotation(q) \/ RotationFails(q))
        BY <3>1 DEF Withdraw, MatchCode, Acquire, CommitRotation, RotationFails
      <4>5. CheckConsent(q)
        BY <3>3, <4>2, <4>3, <4>4 DEF Step
      <4>. QED
        BY <3>1, <4>1, <4>5 DEF CheckConsent
    <3>4. ASSUME NEW k, NEW c, NEW v, Send(q, k, c, v)
          PROVE  FALSE
      BY <3>1, <3>4 DEF Send
    <3>5. CASE UNCHANGED <<pc, req>>
      BY <1>1, <3>1, <3>5
    <3>. QED
      BY <1>1, <3>1, <3>2, <3>3, <3>4, <3>5, NextCases DEF LoseLock, PublishPolicy, vars
  <2>. QED
    BY <2>1, <2>2, <2>3
<1>. QED
  BY <1>2, <1>3, <1>4, <1>5

RefusalInv == /\ FreshAnswers /\ NoAgreement /\ RowsFollow /\ RefusalHolds
              /\ WithdrawalLostOnlyToRotation

LEMMA RefusalInvariant == Spec => []RefusalInv
<1>1. Init => RefusalInv
  BY DEF Init, RefusalInv, FreshAnswers, NoAgreement, RowsFollow, RefusalHolds, Refused,
         WithdrawalLostOnlyToRotation
<1>2. TypeInv /\ RefusalInv /\ [Next]_vars => RefusalInv'
  <2>. SUFFICES ASSUME TypeInv, RefusalInv, [Next]_vars
                PROVE  RefusalInv'
    OBVIOUS
  <2>1. FreshAnswers' /\ NoAgreement' /\ RowsFollow'
    BY FreshStep, AgreementStep, RowsStep DEF RefusalInv
  <2>2. crossed => crossed'
    BY DEF Next, Step, Send, Receive, Acquire, LoseLock, CheckConsent, Recheck,
       StoreMessage, PublishTurn, ReadTerms, InsertRecord, Withdraw, PublishPolicy, MatchCode, RotationFails,
       CommitRotation, AllDone, vars, history
  <2>3. RefusalHolds'
    <3>. SUFFICES ASSUME ~crossed', Refused'
                  PROVE  Dead(cookie)' /\ DeadCodes' /\ DeadCarried' /\ AgainstWait'
      BY DEF RefusalHolds
    <3>1. CASE Refused
      BY <2>2, <3>1, RefusalGoesOn DEF RefusalInv, RefusalHolds
    <3>2. CASE ~Refused
      <4>1. \E r \in plain : Withdraw(r)
        BY <3>2, RefusedBefore
      <4>. QED
        BY <3>2, <4>1, RefusalBegins DEF RefusalInv
    <3>. QED
      BY <3>1, <3>2
  <2>4. WithdrawalLostOnlyToRotation'
    <3>. SUFFICES ASSUME astray', ~crossed'
                  PROVE  FALSE
      BY DEF WithdrawalLostOnlyToRotation
    <3>1. ~astray /\ ~crossed
      BY <2>2 DEF RefusalInv, WithdrawalLostOnlyToRotation
    <3>2. \E r \in Request : StoreMessage(r)
      BY <3>1 DEF Next, Step, Send, Receive, Acquire, LoseLock, CheckConsent, Recheck,
         PublishTurn, ReadTerms, InsertRecord, Withdraw, PublishPolicy, MatchCode, RotationFails,
         CommitRotation, AllDone, vars, history
    <3>3. PICK r \in Request : StoreMessage(r)
      BY <3>2
    <3>4. r \in against /\ pc[r] = "store"
      <4>1. astray' = (astray \/ r \in against) /\ pc[r] = "store"
        BY <3>3 DEF StoreMessage
      <4>. QED
        BY <3>1, <4>1
    <3>. QED
      BY <3>1, <3>4 DEF RefusalInv, RefusalHolds, Refused, AgainstWait
  <2>. QED
    BY <2>1, <2>3, <2>4 DEF RefusalInv
<1>. QED
  BY <1>1, <1>2, TypeInvariant, PTL DEF Spec

\* After a withdrawal no message is stored until the visitor agrees again,
\* locks lost or not, except across a change of the browser's session.
THEOREM WithdrawalsLastUntilRotation == Spec => []WithdrawalLostOnlyToRotation
BY RefusalInvariant, PTL DEF RefusalInv
=============================================================================
