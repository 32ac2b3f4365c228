-------------------------- MODULE RateControlProofs --------------------------
(***************************************************************************)
(* Proofs about RateControl, for every number of requests, sessions and    *)
(* addresses and for all limits.                                           *)
(***************************************************************************)
EXTENDS RateControl, BasicLemmas

(***************************************************************************)
(* Type correctness.                                                       *)
(***************************************************************************)

TypeInv == TypeOK /\ pending \in [Session -> Nat]

LEMMA IntervalRange ==
  /\ \A t \in Tier : Interval[t] \in Nat /\ Interval[t] <= Longest
  /\ Longest \in Nat
BY LimitsAreNat DEF Tier, Longest

LEMMA ReleaseType ==
  ASSUME TypeInv, NEW r \in Request, ReleaseSlot(r)
  PROVE  /\ pending' \in [Session -> Nat]
         /\ \A s \in Session : \E t \in Tier : pending'[s] <= Cap[t]
         /\ cursor' \in [Session -> Nat \cup {None}]
         /\ lockOf' \in [Session -> Request \cup {None}]
         /\ since' \in [Session -> 0..Longest \cup {None}]
<1>. DEFINE s == who[r].session
<1>1. s \in Session /\ Cap \in [Tier -> Nat]
  BY LimitsAreNat DEF TypeInv, TypeOK
<1>2. /\ pending' \in [Session -> Nat]
      /\ \A z \in Session : pending'[z] <= pending[z]
  BY <1>1 DEF TypeInv, ReleaseSlot
<1>3. \A z \in Session : \E t \in Tier : pending'[z] <= Cap[t]
  BY <1>1, <1>2 DEF TypeInv, TypeOK
<1>. QED
  BY <1>1, <1>2, <1>3 DEF TypeInv, TypeOK, ReleaseSlot

LEMMA ReleaseIpType ==
  ASSUME TypeInv, NEW r \in Request, ReleaseIpSlot(r)
  PROVE  ipPending' \in [Ip -> 0..IpCap]
<1>1. who[r].ip \in Ip /\ IpCap \in Nat
  BY LimitsAreNat DEF TypeInv, TypeOK
<1>. QED
  BY <1>1 DEF TypeInv, TypeOK, ReleaseIpSlot

Place == KeepsSlot \cup {"idle", "done", "refused"}

LEMMA PaceType ==
  ASSUME TypeInv, NEW r \in Request, Pace(r)
  PROVE  /\ pc' \in [Request -> Place]
         /\ cursor' \in [Session -> Nat \cup {None}] /\ wait' \in [Request -> Nat]
         /\ since' \in [Session -> 0..Longest \cup {None}] /\ gap' \in [Session -> Nat]
<1>. DEFINE s    == who[r].session
            rest == IF cursor[s] = None THEN 0 ELSE cursor[s]
            i    == Interval[who[r].tier]
<1>1. s \in Session /\ who[r].tier \in Tier /\ rest \in Nat /\ i \in Nat /\ Longest \in Nat
  BY IntervalRange DEF TypeInv, TypeOK
<1>2. /\ cursor' = [cursor EXCEPT ![s] = rest + i]
      /\ wait' = [wait EXCEPT ![r] = rest]
      /\ pc' \in {[pc EXCEPT ![r] = "sleeping"], [pc EXCEPT ![r] = "inside"]}
      /\ since' \in {since, [since EXCEPT ![s] = 0]}
      /\ gap' \in {gap, [gap EXCEPT ![s] = i]}
  BY DEF Pace, Goto, history
<1>. HIDE DEF s, rest, i
<1>3. pc' \in [Request -> Place]
  BY <1>2 DEF TypeInv, TypeOK, Place, HoldsSlot, KeepsSlot
<1>4. cursor' \in [Session -> Nat \cup {None}] /\ wait' \in [Request -> Nat]
  BY <1>1, <1>2 DEF TypeInv, TypeOK
<1>5. since' \in [Session -> 0..Longest \cup {None}] /\ gap' \in [Session -> Nat]
  <2>. DEFINE Count == 0..Longest \cup {None}
  <2>1. 0 \in Count /\ since \in [Session -> Count]
    BY <1>1 DEF TypeInv, TypeOK
  <2>. HIDE DEF Count
  <2>2. since' \in [Session -> Count]
    BY <1>1, <1>2, <2>1
  <2>3. gap' \in [Session -> Nat]
    BY <1>1, <1>2 DEF TypeInv, TypeOK
  <2>. QED
    BY <2>2, <2>3 DEF Count
<1>. QED
  BY <1>3, <1>4, <1>5

LEMMA LeaveLockType ==
  ASSUME TypeInv, NEW r \in Request, LeaveLock(r)
  PROVE  owner' \in [Request -> Request \cup {None}] /\ waiters' \in [Request -> Seq(Request)]
<1>1. \A l \in Request : RemoveFirst(waiters[l], r) \in Seq(Request)
  BY RemoveFirstType DEF TypeInv, TypeOK
<1>. QED
  BY <1>1 DEF TypeInv, TypeOK, LeaveLock

LEMMA RefusedType ==
  ASSUME TypeInv, NEW r \in Request, NEW withIp, Refused(r, withIp),
         used' \in [Session -> Nat], ipUsed' \in [Ip -> Nat], faults' \in 0..MaxFault
  PROVE  TypeInv'
<1>1. pc' \in [Request -> Place]
  BY DEF Refused, Goto, TypeInv, TypeOK, Place
<1>2. ipPending' \in [Ip -> 0..IpCap]
  BY ReleaseIpType DEF Refused, TypeInv, TypeOK
<1>3. ReleaseSlot(r) /\ UNCHANGED <<owner, waiters, mine, who, wait, gap>>
  BY DEF Refused
<1>. QED
  BY <1>1, <1>2, <1>3, ReleaseType DEF TypeInv, TypeOK, Place, Longest

LEMMA EndTurnType ==
  ASSUME TypeInv, NEW r \in Request, EndTurn(r), faults' \in 0..MaxFault
  PROVE  TypeInv'
<1>1. pc' \in [Request -> Place]
  BY DEF EndTurn, Goto, TypeInv, TypeOK, Place
<1>2. ipPending' \in [Ip -> 0..IpCap]
  BY ReleaseIpType DEF EndTurn, TypeInv, TypeOK
<1>3. ReleaseSlot(r) /\ LeaveLock(r) /\ UNCHANGED <<who, mine, wait, used, ipUsed, gap>>
  BY DEF EndTurn, counts
<1>. QED
  BY <1>1, <1>2, <1>3, ReleaseType, LeaveLockType DEF TypeInv, TypeOK, Place, Longest

LEMMA TypeStep ==
  ASSUME TypeInv, [Next]_vars
  PROVE  TypeInv'
<1>0. /\ \A r \in Request : /\ who[r].session \in Session /\ who[r].ip \in Ip /\ who[r].tier \in Tier
                            /\ who[r] \in [session : Session, ip : Ip, tier : Tier, kind : {"message", "continue"}]
      /\ MaxFault \in Nat /\ Cap \in [Tier -> Nat] /\ IpCap \in Nat /\ Longest' = Longest
  BY LimitsAreNat DEF TypeInv, TypeOK, Longest
<1>1. ASSUME NEW r \in Request, Reserve(r)
      PROVE  TypeInv'
  <2>1. PICK s \in Session, i \in Ip, t \in Tier, k \in {"message", "continue"} :
          /\ who' = [who EXCEPT ![r] = [session |-> s, ip |-> i, tier |-> t, kind |-> k]]
          /\ IF pending[s] >= Cap[t]
             THEN Goto(r, "refused") /\ UNCHANGED pending
             ELSE /\ pending' = [pending EXCEPT ![s] = @ + 1]
                  /\ Goto(r, IF k = "continue" THEN "ready" ELSE "session_quota")
    BY <1>1 DEF Reserve
  <2>2. pc' \in [Request -> Place] /\ UNCHANGED <<ipPending, lock, pacing, counts, history, faults>>
    BY <1>1, <2>1 DEF Reserve, Goto, TypeInv, TypeOK, Place, HoldsSlot, KeepsSlot
  <2>3. who' \in [Request -> [session : Session, ip : Ip, tier : Tier, kind : {"message", "continue"}]]
    BY <2>1 DEF TypeInv, TypeOK
  <2>4. /\ pending' \in [Session -> Nat]
        /\ \A z \in Session : \E u \in Tier : pending'[z] <= Cap[u]
    <3>1. CASE pending[s] >= Cap[t]
      BY <2>1, <3>1 DEF TypeInv, TypeOK
    <3>2. CASE ~(pending[s] >= Cap[t])
      <4>1. pending' = [pending EXCEPT ![s] = @ + 1]
        BY <2>1, <3>2
      <4>2. pending[s] \in Nat /\ Cap[t] \in Nat /\ pending'[s] = pending[s] + 1
        BY <1>0, <4>1 DEF TypeInv
      <4>3. pending'[s] <= Cap[t] /\ \A z \in Session \ {s} : pending'[z] = pending[z]
        BY <3>2, <4>1, <4>2 DEF TypeInv
      <4>4. \A z \in Session : \E u \in Tier : pending'[z] <= Cap[u]
        BY <4>3 DEF TypeInv, TypeOK
      <4>. QED
        BY <4>1, <4>2, <4>4 DEF TypeInv
    <3>. QED
      BY <3>1, <3>2
  <2>. QED
    BY <1>0, <2>2, <2>3, <2>4 DEF TypeInv, TypeOK, Place, lock, pacing, counts, history
<1>2. ASSUME NEW r \in Request, SpendSession(r)
      PROVE  TypeInv'
  <2>1. used' \in [Session -> Nat] /\ ipUsed' \in [Ip -> Nat] /\ faults' \in 0..MaxFault
    BY <1>0, <1>2 DEF SpendSession, TypeInv, TypeOK
  <2>2. CASE Refused(r, FALSE)
    BY <2>1, <2>2, RefusedType
  <2>3. CASE /\ ~IpFull(r)
             /\ IF GuestMessage(r)
                THEN /\ ipPending' = [ipPending EXCEPT ![who[r].ip] = @ + 1]
                     /\ Goto(r, "ip_quota")
                ELSE Goto(r, "ready") /\ UNCHANGED ipPending
             /\ UNCHANGED <<who, pending, lock, pacing, history>>
    <3>1. pc' \in [Request -> Place]
      BY <2>3 DEF Goto, TypeInv, TypeOK, Place, HoldsSlot, KeepsSlot
    <3>2. ipPending' \in [Ip -> 0..IpCap]
      <4>1. CASE GuestMessage(r)
        <5>1. ipPending[who[r].ip] \in 0..IpCap /\ ~(ipPending[who[r].ip] >= IpCap)
          BY <1>0, <2>3, <4>1 DEF IpFull, TypeInv, TypeOK
        <5>2. ipPending[who[r].ip] + 1 \in 0..IpCap
          BY <1>0, <5>1
        <5>. QED
          BY <2>3, <4>1, <5>2 DEF TypeInv, TypeOK
      <4>2. CASE ~GuestMessage(r)
        BY <2>3, <4>2 DEF TypeInv, TypeOK
      <4>. QED
        BY <4>1, <4>2
    <3>. QED
      BY <1>0, <2>1, <2>3, <3>1, <3>2 DEF TypeInv, TypeOK, Place, lock, pacing, history
  <2>. QED
    BY <1>2, <2>2, <2>3 DEF SpendSession
<1>3. ASSUME NEW r \in Request, SpendIp(r)
      PROVE  TypeInv'
  <2>1. used' \in [Session -> Nat] /\ ipUsed' \in [Ip -> Nat] /\ faults' \in 0..MaxFault
    BY <1>0, <1>3 DEF SpendIp, TypeInv, TypeOK
  <2>2. CASE Refused(r, TRUE)
    BY <2>1, <2>2, RefusedType
  <2>3. CASE Goto(r, "ready") /\ UNCHANGED <<who, slots, lock, pacing, history>>
    <3>1. pc' \in [Request -> Place]
      BY <2>3 DEF Goto, TypeInv, TypeOK, Place, HoldsSlot, KeepsSlot
    <3>. QED
      BY <1>0, <2>1, <2>3, <3>1 DEF TypeInv, TypeOK, Place, slots, lock, pacing, history
  <2>. QED
    BY <1>3, <2>2, <2>3 DEF SpendIp
<1>4. ASSUME NEW r \in Request, SpendFails(r)
      PROVE  TypeInv'
  <2>1. used' \in [Session -> Nat] /\ ipUsed' \in [Ip -> Nat]
    <3>1. \/ used' = used \/ used' = [used EXCEPT ![who[r].session] = @ + 1]
      BY <1>4 DEF SpendFails
    <3>2. \/ ipUsed' = ipUsed \/ ipUsed' = [ipUsed EXCEPT ![who[r].ip] = @ + 1]
      BY <1>4 DEF SpendFails
    <3>. DEFINE s == who[r].session
                i == who[r].ip
    <3>0. /\ used[s] + 1 \in Nat /\ used \in [Session -> Nat]
          /\ ipUsed[i] + 1 \in Nat /\ ipUsed \in [Ip -> Nat]
      BY <1>0 DEF TypeInv, TypeOK
    <3>. HIDE DEF s, i
    <3>3. used' \in [Session -> Nat]
      BY <3>0, <3>1 DEF s
    <3>4. ipUsed' \in [Ip -> Nat]
      BY <3>0, <3>2 DEF i
    <3>. QED
      BY <3>3, <3>4
  <2>2. faults' \in 0..MaxFault
    BY <1>0, <1>4 DEF SpendFails, Fault, TypeInv, TypeOK
  <2>. QED
    BY <1>4, <2>1, <2>2, RefusedType DEF SpendFails
<1>5. ASSUME NEW r \in Request, AskTurn(r)
      PROVE  TypeInv'
  <2>. DEFINE s == who[r].session
              l == IF lockOf[s] = None THEN r ELSE lockOf[s]
  <2>1. s \in Session /\ l \in Request
    BY <1>0 DEF TypeInv, TypeOK
  <2>2. /\ lockOf' = [lockOf EXCEPT ![s] = l] /\ mine' = [mine EXCEPT ![r] = l]
        /\ \/ owner' = [owner EXCEPT ![l] = r] /\ Pace(r) /\ UNCHANGED waiters
           \/ /\ waiters' = [waiters EXCEPT ![l] = Append(@, r)]
              /\ Goto(r, "waiting") /\ UNCHANGED <<owner, pacing, history>>
        /\ UNCHANGED <<who, slots, counts, faults>>
    BY <1>5 DEF AskTurn
  <2>. HIDE DEF s, l
  <2>3. lockOf' \in [Session -> Request \cup {None}] /\ mine' \in [Request -> Request \cup {None}]
    BY <2>1, <2>2 DEF TypeInv, TypeOK
  <2>4. owner' \in [Request -> Request \cup {None}] /\ waiters' \in [Request -> Seq(Request)]
    <3>1. /\ waiters \in [Request -> Seq(Request)] /\ owner \in [Request -> Request \cup {None}]
      BY DEF TypeInv, TypeOK
    <3>0. Append(waiters[l], r) \in Seq(Request)
      BY <2>1, <3>1
    <3>2. owner' = owner \/ owner' = [owner EXCEPT ![l] = r]
      BY <2>2
    <3>3. waiters' = waiters \/ waiters' = [waiters EXCEPT ![l] = Append(@, r)]
      BY <2>2
    <3>4. owner' \in [Request -> Request \cup {None}]
      BY <3>1, <3>2
    <3>5. waiters' \in [Request -> Seq(Request)]
      BY <3>0, <3>1, <3>3
    <3>. QED
      BY <3>4, <3>5
  <2>5. /\ pc' \in [Request -> Place]
        /\ cursor' \in [Session -> Nat \cup {None}] /\ wait' \in [Request -> Nat]
        /\ since' \in [Session -> 0..Longest \cup {None}] /\ gap' \in [Session -> Nat]
    <3>1. CASE Pace(r)
      BY <3>1, PaceType
    <3>2. CASE Goto(r, "waiting") /\ UNCHANGED <<owner, pacing, history>>
      BY <3>2 DEF Goto, pacing, history, TypeInv, TypeOK, Place, HoldsSlot, KeepsSlot
    <3>. QED
      BY <2>2, <3>1, <3>2
  <2>. QED
    BY <1>0, <2>2, <2>3, <2>4, <2>5 DEF TypeInv, TypeOK, Place, slots, counts
<1>6. ASSUME NEW r \in Request, Resume(r)
      PROVE  TypeInv'
  <2>1. Pace(r) /\ UNCHANGED <<who, slots, lockOf, mine, counts, faults>>
    BY <1>6 DEF Resume
  <2>2. owner' \in [Request -> Request \cup {None}]
    BY <1>6 DEF Resume, TypeInv, TypeOK
  <2>3. waiters' \in [Request -> Seq(Request)]
    <3>. DEFINE l == mine[r]
    <3>1. waiters' = [waiters EXCEPT ![l] = Tail(@)]
      BY <1>6 DEF Resume
    <3>2. CASE l \in Request /\ waiters[l] # <<>>
      BY <3>1, <3>2 DEF TypeInv, TypeOK
    <3>3. CASE l \notin Request
      BY <3>1, <3>3 DEF TypeInv, TypeOK
    <3>4. CASE l \in Request /\ waiters[l] = <<>>
      <4>1. Tail(waiters[l]) \in Seq(Request)
        BY <3>4
      <4>. QED
        BY <3>1, <3>4, <4>1 DEF TypeInv, TypeOK
    <3>. QED
      BY <3>2, <3>3, <3>4
  <2>. QED
    BY <1>0, <2>1, <2>2, <2>3, PaceType DEF TypeInv, TypeOK, Place, slots, counts
<1>7. ASSUME NEW r \in Request, Wake(r)
      PROVE  TypeInv'
  <2>1. pc' \in [Request -> Place]
    BY <1>7 DEF Wake, Goto, TypeInv, TypeOK, Place, HoldsSlot, KeepsSlot
  <2>2. since' \in [Session -> 0..Longest \cup {None}] /\ gap' \in [Session -> Nat]
    BY <1>0, <1>7, IntervalRange DEF Wake, TypeInv, TypeOK
  <2>. QED
    BY <1>0, <1>7, <2>1, <2>2 DEF Wake, TypeInv, TypeOK, Place, slots, lock, pacing, counts
<1>8. ASSUME NEW r \in Request, Leave(r)
      PROVE  TypeInv'
  BY <1>8, EndTurnType DEF Leave, TypeInv, TypeOK
<1>9. ASSUME NEW r \in Request, CutShort(r)
      PROVE  TypeInv'
  <2>1. faults' \in 0..MaxFault
    BY <1>0, <1>9 DEF CutShort, Fault, TypeInv, TypeOK
  <2>. QED
    BY <1>9, <2>1, EndTurnType DEF CutShort
<1>12. ASSUME NEW r \in Request, SpendCancelled(r)
       PROVE  TypeInv'
  <2>1. used' \in [Session -> Nat] /\ ipUsed' \in [Ip -> Nat]
    <3>. DEFINE s == who[r].session
                i == who[r].ip
    <3>1. /\ used' = used \/ used' = [used EXCEPT ![s] = @ + 1]
          /\ ipUsed' = ipUsed \/ ipUsed' = [ipUsed EXCEPT ![i] = @ + 1]
      BY <1>12 DEF SpendCancelled
    <3>2. /\ used[s] + 1 \in Nat /\ used \in [Session -> Nat]
          /\ ipUsed[i] + 1 \in Nat /\ ipUsed \in [Ip -> Nat]
      BY <1>0 DEF TypeInv, TypeOK
    <3>. HIDE DEF s, i
    <3>3. used' \in [Session -> Nat]
      BY <3>1, <3>2
    <3>4. ipUsed' \in [Ip -> Nat]
      BY <3>1, <3>2
    <3>. QED
      BY <3>3, <3>4
  <2>2. faults' \in 0..MaxFault
    BY <1>0, <1>12 DEF SpendCancelled, Fault, TypeInv, TypeOK
  <2>3. pc' \in [Request -> Place]
    BY <1>12 DEF SpendCancelled, Goto, TypeInv, TypeOK, Place, KeepsSlot, Cut
  <2>4. UNCHANGED <<who, slots, lock, pacing, history>>
    BY <1>12 DEF SpendCancelled
  <2>. QED
    BY <1>0, <2>1, <2>2, <2>3, <2>4 DEF TypeInv, TypeOK, Place, slots, lock, pacing, history
<1>10. CASE Tick
  <2>0. /\ wait \in [Request -> Nat] /\ cursor \in [Session -> Nat \cup {None}]
        /\ wait' = [r \in Request |-> IF wait[r] > 0 THEN wait[r] - 1 ELSE 0]
        /\ cursor' = [s \in Session |->
             IF cursor[s] \in {None, 0} THEN cursor[s] ELSE cursor[s] - 1]
    BY <1>10 DEF Tick, TypeInv, TypeOK
  <2>1. wait' \in [Request -> Nat] /\ cursor' \in [Session -> Nat \cup {None}]
    <3>1. \A r \in Request : (IF wait[r] > 0 THEN wait[r] - 1 ELSE 0) \in Nat
      BY <2>0
    <3>2. ASSUME NEW s \in Session
          PROVE  (IF cursor[s] \in {None, 0} THEN cursor[s] ELSE cursor[s] - 1) \in Nat \cup {None}
      <4>1. cursor[s] \in Nat \cup {None}
        BY <2>0
      <4>. QED
        BY <4>1
    <3>. QED
      BY <2>0, <3>1, <3>2
  <2>2. since' \in [Session -> 0..Longest \cup {None}]
    BY <1>10, NoneIsNothingElse, IntervalRange DEF Tick, TypeInv, TypeOK
  <2>. QED
    BY <1>0, <1>10, <2>1, <2>2 DEF Tick, TypeInv, TypeOK, slots, lock, counts
<1>11. CASE UNCHANGED vars
  BY <1>0, <1>11 DEF vars, slots, lock, pacing, counts, history, TypeInv, TypeOK
<1>. QED
  BY <1>1, <1>2, <1>3, <1>4, <1>5, <1>6, <1>7, <1>8, <1>9, <1>10, <1>11, <1>12
     DEF Next, Advance, AllDone

LEMMA TypeInvariant == Spec => []TypeInv
<1>1. Init => TypeInv
  <2>. SUFFICES ASSUME Init PROVE TypeInv
    OBVIOUS
  <2>1. who \in [Request -> [session : Session, ip : Ip, tier : Tier, kind : {"message", "continue"}]]
    <3>1. (CHOOSE s \in Session : TRUE) \in Session /\ (CHOOSE i \in Ip : TRUE) \in Ip
      BY SomebodyMayCall
    <3>. QED
      BY <3>1 DEF Init, Tier
  <2>2. /\ pending \in [Session -> Nat]
        /\ \A s \in Session : pending[s] \in Nat /\ \E t \in Tier : pending[s] <= Cap[t]
    <3>1. 0 <= Cap["guest"] /\ "guest" \in Tier
      BY LimitsAreNat DEF Tier
    <3>. QED
      BY <3>1 DEF Init
  <2>3. waiters \in [Request -> Seq(Request)]
    BY DEF Init
  <2>4. ipPending \in [Ip -> 0..IpCap] /\ faults \in 0..MaxFault
    BY LimitsAreNat DEF Init
  <2>. QED
    BY <2>1, <2>2, <2>3, <2>4 DEF Init, TypeInv, TypeOK
<1>. QED
  BY <1>1, TypeStep, PTL DEF Spec

\* The counters stay natural numbers within their caps, the clocks within
\* their bounds, and every lock belongs to a request or to nobody.
THEOREM RateControlTypeCorrect == Spec => []TypeOK
<1>1. TypeInv => TypeOK
  BY DEF TypeInv
<1>. QED
  BY <1>1, TypeInvariant, PTL

(***************************************************************************)
(* A step of one request.                                                  *)
(***************************************************************************)

RequestStep(r) == Reserve(r) \/ Advance(r) \/ SpendFails(r) \/ SpendCancelled(r) \/ CutShort(r)

\* It got its slot in this step, it keeps it, it gives it back, or it is
\* cancelled and takes it along (SpendCancelled).
Enters(r) ==
  /\ pc[r] = "idle" /\ UNCHANGED <<ipPending, lock, pacing, counts, history>>
  /\ pc'[r] \in {"refused", "ready", "session_quota"}
  /\ who'[r].kind = "message" => pc'[r] # "ready"
  /\ who'[r].kind = "continue" => pc'[r] # "session_quota"
  /\ \A s \in Session :
       pending'[s] = IF pc'[r] # "refused" /\ who'[r].session = s THEN pending[s] + 1 ELSE pending[s]

Stays(r) ==
  /\ pc[r] \in HoldsSlot /\ pc'[r] \in HoldsSlot /\ UNCHANGED <<who, pending>>
  /\ pc'[r] = "ip_quota" => pc[r] = "session_quota" /\ GuestMessage(r)
  /\ pc[r] # "ready" => pc'[r] # "waiting"
  /\ pc[r] = "session_quota" => pc'[r] \in {"ip_quota", "ready"}
  /\ pc'[r] # "session_quota"
  /\ ipPending' = IF pc[r] = "session_quota" /\ GuestMessage(r)
                  THEN [ipPending EXCEPT ![who[r].ip] = @ + 1] ELSE ipPending
  /\ pc[r] = "session_quota" => (pc'[r] = "ip_quota" <=> GuestMessage(r))

GivesBack(r) ==
  /\ pc[r] \in HoldsSlot /\ pc'[r] \in {"refused", "done"} /\ ReleaseSlot(r) /\ UNCHANGED <<who, mine, wait, gap>>
  /\ \/ /\ Refused(r, pc[r] = "ip_quota") /\ pc[r] \in {"session_quota", "ip_quota"}
        /\ pc'[r] = "refused"
     \/ /\ EndTurn(r) /\ pc[r] \in {"ready", "waiting", "sleeping", "inside"}
        /\ pc'[r] = "done" /\ UNCHANGED <<used, ipUsed>>

LEMMA PacePlace ==
  ASSUME TypeInv, NEW r \in Request, Pace(r)
  PROVE  /\ pc'[r] \in {"sleeping", "inside"}
         /\ \A q \in Request \ {r} : pc'[q] = pc[q] /\ wait'[q] = wait[q]
BY DEF Pace, Goto, TypeInv, TypeOK

LEMMA CancelEffect ==
  ASSUME TypeInv, NEW r \in Request, SpendCancelled(r)
  PROVE  /\ \/ pc[r] = "session_quota" /\ pc'[r] = "session_cut"
            \/ pc[r] = "ip_quota" /\ pc'[r] = "ip_cut"
         /\ \A q \in Request \ {r} : pc'[q] = pc[q]
         /\ UNCHANGED <<who, pending, ipPending, lock, pacing, history>>
         /\ \A s \in Session : used'[s] >= used[s]
         /\ \A i \in Ip : ipUsed'[i] >= ipUsed[i]
<1>1. /\ pc \in [Request -> Place] /\ used \in [Session -> Nat] /\ ipUsed \in [Ip -> Nat]
      /\ who[r].session \in Session /\ who[r].ip \in Ip
  BY DEF TypeInv, TypeOK, Place
<1>2. /\ used' = used \/ used' = [used EXCEPT ![who[r].session] = @ + 1]
      /\ ipUsed' = ipUsed \/ ipUsed' = [ipUsed EXCEPT ![who[r].ip] = @ + 1]
  BY DEF SpendCancelled
<1>3. \A s \in Session : used'[s] >= used[s]
  BY <1>1, <1>2
<1>4. \A i \in Ip : ipUsed'[i] >= ipUsed[i]
  BY <1>1, <1>2
<1>. QED
  BY <1>1, <1>3, <1>4 DEF SpendCancelled, Goto, slots

LEMMA StepKinds ==
  ASSUME TypeInv, NEW r \in Request, RequestStep(r)
  PROVE  Enters(r) \/ Stays(r) \/ GivesBack(r) \/ SpendCancelled(r)
<1>0. pc \in [Request -> Place] /\ r \in Request
  BY DEF TypeInv, TypeOK, Place
<1>1. CASE Reserve(r)
  <2>1. PICK s \in Session, i \in Ip, t \in Tier, k \in {"message", "continue"} :
          /\ who' = [who EXCEPT ![r] = [session |-> s, ip |-> i, tier |-> t, kind |-> k]]
          /\ IF pending[s] >= Cap[t]
             THEN Goto(r, "refused") /\ UNCHANGED pending
             ELSE /\ pending' = [pending EXCEPT ![s] = @ + 1]
                  /\ Goto(r, IF k = "continue" THEN "ready" ELSE "session_quota")
    BY <1>1 DEF Reserve
  <2>2. who'[r].kind = k /\ who'[r].session = s
    BY <2>1 DEF TypeInv, TypeOK
  <2>. QED
    BY <1>0, <1>1, <2>1, <2>2 DEF Reserve, Enters, Goto, TypeInv
<1>2. CASE SpendSession(r)
  <2>1. CASE Refused(r, FALSE)
    BY <1>0, <1>2, <2>1 DEF SpendSession, Refused, GivesBack, Goto, HoldsSlot
  <2>2. CASE /\ IF GuestMessage(r)
                THEN /\ ipPending' = [ipPending EXCEPT ![who[r].ip] = @ + 1]
                     /\ Goto(r, "ip_quota")
                ELSE Goto(r, "ready") /\ UNCHANGED ipPending
             /\ UNCHANGED <<who, pending, lock, pacing, history>>
    BY <1>0, <1>2, <2>2 DEF SpendSession, Stays, Goto, HoldsSlot
  <2>. QED
    BY <1>2, <2>1, <2>2 DEF SpendSession
<1>3. CASE SpendIp(r)
  <2>1. CASE Refused(r, TRUE)
    BY <1>0, <1>3, <2>1 DEF SpendIp, Refused, GivesBack, Goto, HoldsSlot
  <2>2. CASE Goto(r, "ready") /\ UNCHANGED <<who, slots, lock, pacing, history>>
    BY <1>0, <1>3, <2>2 DEF SpendIp, Stays, Goto, HoldsSlot, slots
  <2>. QED
    BY <1>3, <2>1, <2>2 DEF SpendIp
<1>4. CASE SpendFails(r)
  BY <1>0, <1>4 DEF SpendFails, Refused, GivesBack, Goto, HoldsSlot
<1>5. CASE AskTurn(r)
  <2>1. pc'[r] \in {"waiting", "sleeping", "inside"}
    <3>1. CASE Pace(r)
      BY <3>1, PacePlace
    <3>2. CASE Goto(r, "waiting")
      BY <1>0, <3>2 DEF Goto
    <3>. QED
      BY <1>5, <3>1, <3>2 DEF AskTurn
  <2>2. pc[r] = "ready" /\ UNCHANGED <<who, pending, ipPending>>
    BY <1>5 DEF AskTurn, slots
  <2>. QED
    BY <2>1, <2>2 DEF Stays, HoldsSlot
<1>6. CASE Resume(r)
  BY <1>6, PacePlace DEF Resume, Stays, HoldsSlot, slots
<1>7. CASE Wake(r)
  BY <1>0, <1>7 DEF Wake, Goto, Stays, HoldsSlot, slots
<1>8. CASE Leave(r)
  BY <1>0, <1>8 DEF Leave, EndTurn, GivesBack, Goto, HoldsSlot, counts
<1>9. CASE CutShort(r)
  BY <1>0, <1>9 DEF CutShort, EndTurn, GivesBack, Goto, HoldsSlot, counts
<1>. QED
  BY <1>1, <1>2, <1>3, <1>4, <1>5, <1>6, <1>7, <1>8, <1>9 DEF RequestStep, Advance

LEMMA OthersKeep ==
  ASSUME TypeInv, NEW r \in Request, RequestStep(r), NEW q \in Request, q # r
  PROVE  pc'[q] = pc[q] /\ who'[q] = who[q] /\ mine'[q] = mine[q] /\ wait'[q] = wait[q]
<1>. USE DEF TypeInv, TypeOK, Goto
<1>1. CASE Reserve(r)
  BY <1>1 DEF Reserve, lock, pacing
<1>2. CASE SpendSession(r) \/ SpendIp(r) \/ SpendFails(r)
  <2>1. ASSUME NEW withIp, Refused(r, withIp)
        PROVE  pc'[q] = pc[q] /\ who'[q] = who[q] /\ mine'[q] = mine[q] /\ wait'[q] = wait[q]
    BY <2>1 DEF Refused
  <2>2. CASE (Goto(r, "ready") \/ Goto(r, "ip_quota")) /\ UNCHANGED <<who, lock, pacing>>
    BY <2>2 DEF lock, pacing
  <2>. QED
    BY <1>2, <2>1, <2>2 DEF SpendSession, SpendIp, SpendFails
<1>3. CASE AskTurn(r)
  <2>1. who' = who /\ mine'[q] = mine[q]
    BY <1>3 DEF AskTurn
  <2>2. CASE Pace(r)
    BY <2>1, <2>2, PacePlace
  <2>3. CASE Goto(r, "waiting") /\ UNCHANGED pacing
    BY <2>1, <2>3 DEF pacing
  <2>. QED
    BY <1>3, <2>2, <2>3 DEF AskTurn
<1>4. CASE Resume(r)
  BY <1>4, PacePlace DEF Resume
<1>5. CASE Wake(r)
  BY <1>5 DEF Wake, lock, pacing
<1>6. CASE Leave(r) \/ CutShort(r)
  BY <1>6 DEF Leave, CutShort, EndTurn
<1>7. CASE SpendCancelled(r)
  BY <1>7 DEF SpendCancelled, lock, pacing
<1>. QED
  BY <1>1, <1>2, <1>3, <1>4, <1>5, <1>6, <1>7 DEF RequestStep, Advance

(***************************************************************************)
(* The counts are the requests in flight, and those cancelled with a slot. *)
(***************************************************************************)

InFlight(s) == {r \in Request : pc[r] \in KeepsSlot /\ who[r].session = s}
IpFlight(i) == {r \in Request : pc[r] \in KeepsIp /\ who[r].ip = i /\ GuestMessage(r)}

CountsInv ==
  /\ \A s \in Session : IsFiniteSet(InFlight(s)) /\ pending[s] = Cardinality(InFlight(s))
  /\ \A i \in Ip : IsFiniteSet(IpFlight(i)) /\ ipPending[i] = Cardinality(IpFlight(i))

\* Only messages are counted against a quota, only guests' against an IP's.
QuotaKinds == \A r \in Request :
  /\ pc[r] = "session_quota" => who[r].kind = "message"
  /\ pc[r] = "ip_quota" => GuestMessage(r)

\* While a request has a slot, the last one out is alone in its session.
LEMMA LastIsAlone ==
  ASSUME CountsInv, NEW s \in Session, NEW r \in InFlight(s), pending[s] <= 1
  PROVE  \A q \in InFlight(s) : q = r
<1>1. IsFiniteSet(InFlight(s)) /\ pending[s] = Cardinality(InFlight(s))
  BY DEF CountsInv
<1>2. IsFiniteSet(InFlight(s) \ {r}) /\ Cardinality(InFlight(s) \ {r}) = Cardinality(InFlight(s)) - 1
  BY <1>1, FS_RemoveElement
<1>3. Cardinality(InFlight(s) \ {r}) \in Nat
  BY <1>2, FS_CardinalityType
<1>4. Cardinality(InFlight(s)) \in Nat
  BY <1>1, FS_CardinalityType
<1>5. Cardinality(InFlight(s) \ {r}) = 0
  BY <1>1, <1>2, <1>3, <1>4
<1>6. InFlight(s) \ {r} = {}
  BY <1>2, <1>5, FS_EmptySet
<1>. QED
  BY <1>6

LEMMA QuotaKindsStep ==
  ASSUME TypeInv, QuotaKinds, [Next]_vars
  PROVE  QuotaKinds'
<1>1. ASSUME NEW r \in Request, RequestStep(r)
      PROVE  QuotaKinds'
  <2>1. \A q \in Request \ {r} : pc'[q] = pc[q] /\ who'[q] = who[q]
    BY <1>1, OthersKeep
  <2>2. who'[r].kind \in {"message", "continue"}
    BY TypeStep DEF TypeInv, TypeOK
  <2>3. CASE Enters(r)
    <3>1. pc'[r] = "session_quota" => who'[r].kind = "message"
      BY <2>2, <2>3 DEF Enters
    <3>. QED
      BY <2>1, <2>3, <3>1 DEF QuotaKinds, Enters, GuestMessage
  <2>4. CASE Stays(r)
    BY <2>1, <2>4 DEF QuotaKinds, Stays, GuestMessage
  <2>5. CASE GivesBack(r)
    BY <2>1, <2>5 DEF QuotaKinds, GivesBack, GuestMessage
  <2>6. CASE SpendCancelled(r)
    BY <2>1, <2>6, CancelEffect DEF QuotaKinds, GuestMessage
  <2>. QED
    BY <1>1, <2>3, <2>4, <2>5, <2>6, StepKinds
<1>2. CASE UNCHANGED <<pc, who>>
  BY <1>2 DEF QuotaKinds, GuestMessage
<1>. QED
  BY <1>1, <1>2 DEF Next, RequestStep, Tick, AllDone, vars

LEMMA CountsStep ==
  ASSUME TypeInv, QuotaKinds, CountsInv, [Next]_vars
  PROVE  CountsInv'
<1>0. /\ \A q \in Request : who[q].session \in Session /\ who[q].ip \in Ip
      /\ pc \in [Request -> Place] /\ pending \in [Session -> Nat] /\ ipPending \in [Ip -> 0..IpCap] /\ IpCap \in Nat
      /\ "idle" \notin KeepsSlot /\ "refused" \notin KeepsSlot /\ "done" \notin KeepsSlot
      /\ HoldsSlot \subseteq KeepsSlot /\ KeepsIp \subseteq KeepsSlot
      /\ \A p \in HoldsSlot : p \in KeepsIp <=> p # "session_quota"
      /\ "session_quota" \in KeepsSlot /\ "session_cut" \in KeepsSlot /\ "ip_quota" \in KeepsIp
      /\ "ip_cut" \in KeepsIp /\ "session_quota" \notin KeepsIp /\ "session_cut" \notin KeepsIp
  BY LimitsAreNat DEF TypeInv, TypeOK, Place, HoldsSlot, HoldsIp, KeepsSlot, KeepsIp, Cut
<1>1. ASSUME NEW r \in Request, RequestStep(r)
      PROVE  CountsInv'
  <2>. DEFINE A(s)  == InFlight(s)
              B(s)  == {q \in Request : pc'[q] \in KeepsSlot /\ who'[q].session = s}
              C(i)  == IpFlight(i)
              D(i)  == {q \in Request : pc'[q] \in KeepsIp /\ who'[q].ip = i
                                        /\ who'[q].tier = "guest" /\ who'[q].kind = "message"}
  <2>1. \A q \in Request : q # r => pc'[q] = pc[q] /\ who'[q] = who[q]
    BY <1>1, OthersKeep
  <2>2. \A s \in Session : IsFiniteSet(A(s)) /\ pending[s] = Cardinality(A(s))
                           /\ \A q : q # r => (q \in A(s) <=> q \in B(s))
    BY <2>1 DEF CountsInv, InFlight
  <2>3. \A i \in Ip : IsFiniteSet(C(i)) /\ ipPending[i] = Cardinality(C(i))
                      /\ \A q : q # r => (q \in C(i) <=> q \in D(i))
    BY <2>1 DEF CountsInv, IpFlight, GuestMessage
  <2>4. /\ \A s : r \in A(s) <=> pc[r] \in KeepsSlot /\ who[r].session = s
        /\ \A s : r \in B(s) <=> pc'[r] \in KeepsSlot /\ who'[r].session = s
        /\ \A i : r \in C(i) <=> pc[r] \in KeepsIp /\ who[r].ip = i /\ GuestMessage(r)
        /\ \A i : r \in D(i) <=> pc'[r] \in KeepsIp /\ who'[r].ip = i
                                 /\ who'[r].tier = "guest" /\ who'[r].kind = "message"
    BY DEF InFlight, IpFlight
  <2>5. (\A s \in Session : InFlight(s)' = B(s)) /\ (\A i \in Ip : IpFlight(i)' = D(i))
    BY DEF InFlight, IpFlight, GuestMessage
  <2>. HIDE DEF A, B, C, D
  <2>6. \A s \in Session :
          /\ IsFiniteSet(B(s)) /\ Cardinality(A(s)) \in Nat /\ Cardinality(B(s)) \in Nat
          /\ r \in A(s) => Cardinality(A(s)) >= 1
          /\ r \in A(s) /\ r \in B(s) => Cardinality(B(s)) = Cardinality(A(s))
          /\ r \notin A(s) /\ r \notin B(s) => Cardinality(B(s)) = Cardinality(A(s))
          /\ r \in A(s) /\ r \notin B(s) => Cardinality(B(s)) = Cardinality(A(s)) - 1
          /\ r \notin A(s) /\ r \in B(s) => Cardinality(B(s)) = Cardinality(A(s)) + 1
    BY <2>2, CountMoves
  <2>7. \A i \in Ip :
          /\ IsFiniteSet(D(i)) /\ Cardinality(C(i)) \in Nat /\ Cardinality(D(i)) \in Nat
          /\ r \in C(i) => Cardinality(C(i)) >= 1
          /\ r \in C(i) /\ r \in D(i) => Cardinality(D(i)) = Cardinality(C(i))
          /\ r \notin C(i) /\ r \notin D(i) => Cardinality(D(i)) = Cardinality(C(i))
          /\ r \in C(i) /\ r \notin D(i) => Cardinality(D(i)) = Cardinality(C(i)) - 1
          /\ r \notin C(i) /\ r \in D(i) => Cardinality(D(i)) = Cardinality(C(i)) + 1
    BY <2>3, CountMoves
  <2>8. ASSUME NEW s \in Session
        PROVE  pending'[s] = Cardinality(B(s))
    <3>1. CASE Enters(r)
      BY <1>0, <2>2, <2>4, <2>6, <3>1 DEF Enters, HoldsSlot, KeepsSlot
    <3>2. CASE Stays(r)
      BY <1>0, <2>2, <2>4, <2>6, <3>2 DEF Stays
    <3>3. CASE GivesBack(r)
      <4>1. r \notin B(s) /\ (r \in A(s) <=> who[r].session = s)
        BY <1>0, <2>4, <3>3 DEF GivesBack
      <4>2. CASE who[r].session = s
        <5>1. pending[s] >= 1 /\ pending[s] \in Nat
          BY <2>2, <2>6, <4>1, <4>2
        <5>2. pending'[s] = IF pending[s] <= 1 THEN 0 ELSE pending[s] - 1
          BY <1>0, <3>3, <4>2 DEF GivesBack, ReleaseSlot
        <5>. QED
          BY <2>2, <2>6, <4>1, <4>2, <5>1, <5>2
      <4>3. CASE who[r].session # s
        <5>1. pending'[s] = pending[s]
          BY <1>0, <3>3, <4>3 DEF GivesBack, ReleaseSlot
        <5>. QED
          BY <2>2, <2>6, <4>1, <4>3, <5>1
      <4>. QED
        BY <4>2, <4>3
    <3>4. CASE SpendCancelled(r)
      <4>1. pending' = pending /\ (r \in A(s) <=> r \in B(s))
        BY <1>0, <2>4, <3>4, CancelEffect
      <4>. QED
        BY <2>2, <2>6, <4>1
    <3>. QED
      BY <1>1, <3>1, <3>2, <3>3, <3>4, StepKinds
  <2>9. ASSUME NEW i \in Ip
        PROVE  ipPending'[i] = Cardinality(D(i))
    <3>1. CASE Enters(r)
      <4>1. r \notin C(i)
        BY <1>0, <2>4, <3>1 DEF Enters
      <4>2. r \notin D(i)
        BY <1>0, <2>4, <3>1 DEF Enters
      <4>. QED
        BY <2>3, <2>7, <3>1, <4>1, <4>2 DEF Enters
    <3>2. CASE Stays(r)
      <4>1. who' = who /\ (r \in D(i) <=> pc'[r] # "session_quota" /\ who[r].ip = i /\ GuestMessage(r))
        BY <1>0, <2>4, <3>2 DEF Stays, GuestMessage
      <4>2. r \in C(i) <=> pc[r] # "session_quota" /\ who[r].ip = i /\ GuestMessage(r)
        BY <1>0, <2>4, <3>2 DEF Stays
      <4>3. pc'[r] # "session_quota"
        BY <3>2 DEF Stays
      <4>4. CASE pc[r] = "session_quota" /\ GuestMessage(r) /\ who[r].ip = i
        <5>1. ipPending'[i] = ipPending[i] + 1
          BY <1>0, <3>2, <4>4 DEF Stays
        <5>. QED
          BY <2>3, <2>7, <4>1, <4>2, <4>3, <4>4, <5>1
      <4>5. CASE ~(pc[r] = "session_quota" /\ GuestMessage(r) /\ who[r].ip = i)
        <5>1. ipPending'[i] = ipPending[i]
          BY <1>0, <3>2, <4>5 DEF Stays
        <5>. QED
          BY <2>3, <2>7, <4>1, <4>2, <4>3, <4>5, <5>1
      <4>. QED
        BY <4>4, <4>5
    <3>3. CASE GivesBack(r)
      <4>1. r \notin D(i)
        BY <1>0, <2>4, <3>3 DEF GivesBack
      <4>2. ReleaseIpSlot(r) \/ UNCHANGED ipPending
        BY <3>3 DEF GivesBack, Refused, EndTurn
      <4>3. GuestMessage(r) /\ pc[r] \in KeepsIp => ReleaseIpSlot(r)
        BY <3>3 DEF GivesBack, Refused, EndTurn, HoldsIp, KeepsIp
      <4>4. ~(GuestMessage(r) /\ pc[r] \in KeepsIp) => UNCHANGED ipPending
        <5>1. CASE Refused(r, pc[r] = "ip_quota") /\ pc[r] \in {"session_quota", "ip_quota"}
          BY <5>1 DEF Refused, QuotaKinds, HoldsIp, HoldsSlot, KeepsIp
        <5>2. CASE EndTurn(r) /\ pc[r] \in {"ready", "waiting", "sleeping", "inside"}
          BY <5>2 DEF EndTurn, HoldsIp, HoldsSlot, KeepsIp
        <5>. QED
          BY <3>3, <5>1, <5>2 DEF GivesBack
      <4>5. CASE r \in C(i)
        <5>1. ReleaseIpSlot(r) /\ who[r].ip = i
          BY <2>4, <4>3, <4>5
        <5>2. ipPending[i] \in Nat /\ ipPending[i] >= 1
          BY <2>3, <2>7, <4>5
        <5>3. ipPending'[i] = ipPending[i] - 1
          BY <1>0, <5>1, <5>2 DEF ReleaseIpSlot
        <5>. QED
          BY <2>3, <2>7, <4>1, <4>5, <5>3
      <4>6. CASE r \notin C(i)
        <5>1. ipPending'[i] = ipPending[i]
          BY <1>0, <2>4, <4>2, <4>4, <4>6 DEF ReleaseIpSlot
        <5>. QED
          BY <2>3, <2>7, <4>1, <4>6, <5>1
      <4>. QED
        BY <4>5, <4>6
    <3>4. CASE SpendCancelled(r)
      <4>1. ipPending' = ipPending /\ (r \in C(i) <=> r \in D(i))
        BY <1>0, <2>4, <3>4, CancelEffect DEF GuestMessage
      <4>. QED
        BY <2>3, <2>7, <4>1
    <3>. QED
      BY <1>1, <3>1, <3>2, <3>3, <3>4, StepKinds
  <2>10. (\A s \in Session : IsFiniteSet(InFlight(s)') /\ pending'[s] = Cardinality(InFlight(s)'))
         /\ (\A i \in Ip : IsFiniteSet(IpFlight(i)') /\ ipPending'[i] = Cardinality(IpFlight(i)'))
    BY <2>5, <2>6, <2>7, <2>8, <2>9
  <2>. QED
    BY <2>10 DEF CountsInv
<1>2. CASE UNCHANGED <<pc, who, pending, ipPending>>
  BY <1>2 DEF CountsInv, InFlight, IpFlight, GuestMessage
<1>. QED
  BY <1>1, <1>2 DEF Next, RequestStep, Tick, AllDone, vars, slots

LEMMA CountsInvariant == Spec => [](QuotaKinds /\ CountsInv)
<1>1. Init => QuotaKinds /\ CountsInv
  <2>. SUFFICES ASSUME Init PROVE QuotaKinds /\ CountsInv
    OBVIOUS
  <2>1. \A r \in Request : pc[r] = "idle"
    BY DEF Init
  <2>2. (\A s : InFlight(s) = {}) /\ (\A i : IpFlight(i) = {})
    BY <2>1 DEF InFlight, IpFlight, HoldsSlot, HoldsIp, KeepsSlot, KeepsIp, Cut
  <2>. QED
    BY <2>1, <2>2, FS_EmptySet DEF Init, QuotaKinds, CountsInv
<1>2. TypeInv /\ (QuotaKinds /\ CountsInv) /\ [Next]_vars => (QuotaKinds /\ CountsInv)'
  BY QuotaKindsStep, CountsStep
<1>. QED
  BY <1>1, <1>2, TypeInvariant, PTL DEF Spec

\* Whichever limit refuses and wherever a request fails, a slot is given back
\* once, or it is kept by a request cancelled while its daily unit was being
\* counted: the counts are these requests and those in flight.
THEOREM SlotsAreCountedExactly == Spec => []CountsExact
<1>1. CountsInv => CountsExact
  BY DEF CountsInv, CountsExact, InFlight, IpFlight
<1>. QED
  BY <1>1, CountsInvariant, PTL

(***************************************************************************)
(* The lock of a session. It is named after the request that made it, who  *)
(* asks for a turn once; holder, queue and dictionary agree on it.         *)
(***************************************************************************)

Asked == {"waiting", "sleeping", "inside", "done"}

HoldersHold == \A r \in Request : pc[r] \in HasLock =>
  mine[r] \in Request /\ lockOf[who[r].session] = mine[r] /\ owner[mine[r]] = r

WaitersWait == \A r \in Request : pc[r] = "waiting" =>
  mine[r] \in Request /\ lockOf[who[r].session] = mine[r] /\ Contains(waiters[mine[r]], r)

OwnersHold == \A l \in Request :
  owner[l] # None => pc[owner[l]] \in HasLock /\ mine[owner[l]] = l

QueuesWait == \A l \in Request :
  /\ Distinct(waiters[l])
  /\ \A r : Contains(waiters[l], r) => r \in Request /\ pc[r] = "waiting" /\ mine[r] = l

LocksNamed == \A s \in Session : lockOf[s] # None =>
  who[lockOf[s]].session = s /\ pc[lockOf[s]] \in Asked

LockInv == HoldersHold /\ WaitersWait /\ OwnersHold /\ QueuesWait /\ LocksNamed

\* The first of a queue is called.
LEMMA TailOfQueue ==
  ASSUME NEW S, NEW q \in Seq(S), q # <<>>, Distinct(q)
  PROVE  /\ Tail(q) \in Seq(S) /\ Distinct(Tail(q)) /\ q = <<Head(q)>> \o Tail(q)
         /\ \A x : Contains(Tail(q), x) <=> Contains(q, x) /\ x # Head(q)
<1>1. /\ Len(q) \in Nat /\ Len(q) >= 1 /\ Head(q) = q[1]
      /\ Tail(q) \in Seq(S) /\ Len(Tail(q)) = Len(q) - 1
      /\ \A i \in 1..(Len(q) - 1) : Tail(q)[i] = q[i + 1]
  OBVIOUS
<1>2. Distinct(Tail(q))
  BY <1>1 DEF Distinct
<1>3. ASSUME NEW x, Contains(Tail(q), x)
      PROVE  Contains(q, x) /\ x # Head(q)
  <2>1. PICK i \in 1..Len(Tail(q)) : Tail(q)[i] = x
    BY <1>3 DEF Contains
  <2>2. i + 1 \in 1..Len(q) /\ q[i + 1] = x /\ 1 \in 1..Len(q) /\ i + 1 # 1
    BY <1>1, <2>1
  <2>. QED
    BY <1>1, <2>2 DEF Contains, Distinct
<1>4. ASSUME NEW x, Contains(q, x), x # Head(q)
      PROVE  Contains(Tail(q), x)
  <2>1. PICK i \in 1..Len(q) : q[i] = x
    BY <1>4 DEF Contains
  <2>2. i - 1 \in 1..Len(Tail(q)) /\ Tail(q)[i - 1] = x
    BY <1>1, <1>4, <2>1
  <2>. QED
    BY <2>2 DEF Contains
<1>5. q = <<Head(q)>> \o Tail(q)
  <2>. DEFINE w == <<Head(q)>> \o Tail(q)
  <2>1. /\ Head(q) \in S /\ w \in Seq(S) /\ Len(w) = Len(q) /\ w[1] = q[1]
        /\ \A i \in 2..Len(q) : w[i] = Tail(q)[i - 1]
    BY <1>1
  <2>2. \A i \in 1..Len(q) : i = 1 \/ (i \in 2..Len(q) /\ i - 1 \in 1..(Len(q) - 1) /\ (i - 1) + 1 = i)
    BY <1>1
  <2>. HIDE DEF w
  <2>3. \A i \in 1..Len(q) : w[i] = q[i]
    BY <1>1, <2>1, <2>2
  <2>4. w = q
    BY <2>1, <2>3, SeqEqual
  <2>. QED
    BY <2>4 DEF w
<1>. QED
  BY <1>1, <1>2, <1>3, <1>4, <1>5

LEMMA LastOfQueue ==
  ASSUME NEW S, NEW q \in Seq(S), Distinct(q), NEW r \in S, ~Contains(q, r)
  PROVE  /\ Append(q, r) \in Seq(S) /\ Distinct(Append(q, r))
         /\ \A x : Contains(Append(q, r), x) <=> Contains(q, x) \/ x = r
<1>. DEFINE w == Append(q, r)
<1>1. /\ w \in Seq(S) /\ Len(q) \in Nat /\ Len(w) = Len(q) + 1 /\ w[Len(w)] = r
      /\ \A i \in 1..Len(q) : w[i] = q[i]
  OBVIOUS
<1>. HIDE DEF w
<1>2. \A i \in 1..Len(w) : i = Len(w) \/ i \in 1..Len(q)
  BY <1>1
<1>3. Distinct(w)
  BY <1>1, <1>2 DEF Distinct, Contains
<1>4. \A x : Contains(w, x) <=> Contains(q, x) \/ x = r
  <2>1. ASSUME NEW x, Contains(w, x) PROVE Contains(q, x) \/ x = r
    BY <1>1, <1>2, <2>1 DEF Contains
  <2>2. ASSUME NEW x, Contains(q, x) \/ x = r PROVE Contains(w, x)
    <3>1. Len(w) \in 1..Len(w) /\ 1..Len(q) \subseteq 1..Len(w)
      BY <1>1
    <3>. QED
      BY <1>1, <2>2, <3>1 DEF Contains
  <2>. QED
    BY <2>1, <2>2
<1>. QED
  BY <1>1, <1>3, <1>4 DEF w

\* A request that has not asked for its turn has no part in any lock.
LEMMA NewcomerIsFree ==
  ASSUME TypeInv, LockInv, NEW r \in Request, pc[r] \notin Asked
  PROVE  /\ owner[r] = None /\ waiters[r] = <<>>
         /\ \A s \in Session : lockOf[s] # r
         /\ \A l \in Request : owner[l] # r /\ ~Contains(waiters[l], r)
<1>0. /\ owner \in [Request -> Request \cup {None}] /\ waiters \in [Request -> Seq(Request)]
      /\ lockOf \in [Session -> Request \cup {None}] /\ None \notin Request
      /\ \A q \in Request : who[q].session \in Session
  BY NoneIsNothingElse DEF TypeInv, TypeOK
<1>1. \A s \in Session : lockOf[s] # r
  BY <1>0 DEF LockInv, LocksNamed
<1>2. owner[r] = None
  <2>. SUFFICES ASSUME owner[r] # None PROVE FALSE
    OBVIOUS
  <2>1. owner[r] \in Request /\ pc[owner[r]] \in HasLock /\ mine[owner[r]] = r
    BY <1>0 DEF LockInv, OwnersHold
  <2>2. lockOf[who[owner[r]].session] = r
    BY <2>1 DEF LockInv, HoldersHold
  <2>. QED
    BY <1>0, <1>1, <2>1, <2>2
<1>3. waiters[r] = <<>>
  <2>. SUFFICES ASSUME waiters[r] # <<>> PROVE FALSE
    OBVIOUS
  <2>1. Contains(waiters[r], waiters[r][1])
    <3>1. 1 \in 1..Len(waiters[r])
      BY <1>0
    <3>. QED
      BY <3>1 DEF Contains
  <2>2. PICK x \in Request : pc[x] = "waiting" /\ mine[x] = r
    BY <2>1 DEF LockInv, QueuesWait
  <2>3. lockOf[who[x].session] = r
    BY <2>2 DEF LockInv, WaitersWait
  <2>. QED
    BY <1>0, <1>1, <2>2, <2>3
<1>4. \A l \in Request : owner[l] # r /\ ~Contains(waiters[l], r)
  BY <1>0 DEF LockInv, OwnersHold, QueuesWait, Asked, HasLock
<1>. QED
  BY <1>1, <1>2, <1>3, <1>4

\* A request that gives its slot back leaves the lock and its queue, and takes
\* the session's lock away only if nobody else of the session is in flight.
LEMMA LeaveEffect ==
  ASSUME TypeInv, LockInv, NEW r \in Request, GivesBack(r)
  PROVE  /\ \A l \in Request : owner'[l] = IF owner[l] = r THEN None ELSE owner[l]
         /\ \A l \in Request :
              /\ Distinct(waiters'[l])
              /\ \A x : Contains(waiters'[l], x) <=> Contains(waiters[l], x) /\ x # r
<1>0. /\ owner \in [Request -> Request \cup {None}] /\ waiters \in [Request -> Seq(Request)]
      /\ None \notin Request
  BY NoneIsNothingElse DEF TypeInv, TypeOK
<1>1. /\ \A l \in Request : owner[l] = r => pc[r] \in HasLock /\ mine[r] = l
      /\ \A l \in Request : Contains(waiters[l], r) => pc[r] = "waiting" /\ mine[r] = l
      /\ \A l \in Request : Distinct(waiters[l])
  BY <1>0 DEF LockInv, OwnersHold, QueuesWait
<1>2. CASE pc[r] \notin HasLock /\ pc[r] # "waiting"
  <2>1. UNCHANGED <<owner, waiters>>
    BY <1>2 DEF GivesBack, Refused, EndTurn, LeaveLock
  <2>. QED
    BY <1>1, <1>2, <2>1
<1>3. CASE pc[r] \in HasLock
  <2>1. owner' = [owner EXCEPT ![mine[r]] = None] /\ waiters' = waiters
    BY <1>3 DEF GivesBack, EndTurn, LeaveLock, HasLock
  <2>2. mine[r] \in Request /\ owner[mine[r]] = r
    BY <1>3 DEF LockInv, HoldersHold
  <2>3. pc[r] # "waiting"
    BY <1>3 DEF HasLock
  <2>. QED
    BY <1>0, <1>1, <2>1, <2>2, <2>3
<1>4. CASE pc[r] = "waiting"
  <2>1. owner' = owner /\ waiters' = [waiters EXCEPT ![mine[r]] = RemoveFirst(@, r)]
    BY <1>4 DEF GivesBack, EndTurn, LeaveLock, HasLock
  <2>2. mine[r] \in Request /\ pc[r] \notin HasLock
    BY <1>4 DEF LockInv, WaitersWait, HasLock
  <2>3. \A l \in Request :
          waiters'[l] = IF l = mine[r] THEN RemoveFirst(waiters[l], r) ELSE waiters[l]
    BY <1>0, <2>1
  <2>4. \A l \in Request : /\ Distinct(RemoveFirst(waiters[l], r))
                           /\ \A x : Contains(RemoveFirst(waiters[l], r), x) <=> Contains(waiters[l], x) /\ x # r
    BY <1>0, <1>1, RemoveFromQueue
  <2>5. \A l \in Request : l # mine[r] => ~Contains(waiters[l], r)
    BY <1>1
  <2>. QED
    BY <1>1, <2>1, <2>2, <2>3, <2>4, <2>5
<1>. QED
  BY <1>2, <1>3, <1>4

LEMMA DropEffect ==
  ASSUME TypeInv, CountsInv, NEW r \in Request, GivesBack(r), NEW s \in Session
  PROVE  \/ lockOf'[s] = lockOf[s]
         \/ /\ s = who[r].session /\ lockOf'[s] = None
            /\ lockOf[s] # None /\ owner'[lockOf[s]] = None
            /\ \A q \in Request : pc[q] \in KeepsSlot /\ who[q].session = s => q = r
<1>1. /\ lockOf \in [Session -> Request \cup {None}] /\ who[r].session \in Session
      /\ pc[r] \in KeepsSlot /\ ReleaseSlot(r)
  BY DEF TypeInv, TypeOK, GivesBack, KeepsSlot
<1>2. CASE s = who[r].session /\ pending[s] <= 1
  <2>1. \A q \in InFlight(s) : q = r
    <3>1. r \in InFlight(s)
      BY <1>1, <1>2 DEF InFlight
    <3>. QED
      BY <1>2, <3>1, LastIsAlone
  <2>. QED
    BY <1>1, <1>2, <2>1 DEF ReleaseSlot, InFlight
<1>3. CASE ~(s = who[r].session /\ pending[s] <= 1)
  BY <1>1, <1>3 DEF ReleaseSlot
<1>. QED
  BY <1>2, <1>3

\* Nothing about a lock changes while a request has not asked, or sleeps on.
LEMMA LockKept ==
  ASSUME TypeInv, LockInv, NEW r \in Request, UNCHANGED lock,
         \A q \in Request \ {r} : pc'[q] = pc[q] /\ who'[q] = who[q],
         \/ pc[r] \notin Asked /\ pc'[r] \notin Asked
         \/ pc[r] \in HasLock /\ pc'[r] \in HasLock /\ who'[r] = who[r]
  PROVE  LockInv'
<1>0. /\ owner \in [Request -> Request \cup {None}] /\ waiters \in [Request -> Seq(Request)]
      /\ lockOf \in [Session -> Request \cup {None}] /\ None \notin Request
      /\ lockOf' = lockOf /\ owner' = owner /\ waiters' = waiters /\ mine' = mine
      /\ HasLock \subseteq Asked /\ "waiting" \in Asked /\ "waiting" \notin HasLock
  BY NoneIsNothingElse DEF TypeInv, TypeOK, lock, Asked, HasLock
<1>1. CASE pc[r] \notin Asked /\ pc'[r] \notin Asked
  <2>1. /\ \A s \in Session : lockOf[s] # r
        /\ \A l \in Request : owner[l] # r /\ ~Contains(waiters[l], r)
    BY <1>1, NewcomerIsFree
  <2>2. HoldersHold' /\ WaitersWait'
    BY <1>0, <1>1 DEF LockInv, HoldersHold, WaitersWait
  <2>3. OwnersHold'
    <3>1. \A l \in Request : owner[l] # None =>
            /\ owner[l] \in Request \ {r}
            /\ pc[owner[l]] \in HasLock /\ mine[owner[l]] = l
      BY <1>0, <2>1 DEF LockInv, OwnersHold
    <3>. QED
      BY <1>0, <3>1 DEF OwnersHold
  <2>5. QueuesWait'
    <3>1. \A l \in Request : \A q : Contains(waiters[l], q) => q # r
      BY <2>1
    <3>. QED
      BY <1>0, <3>1 DEF LockInv, QueuesWait
  <2>4. LocksNamed'
    BY <1>0, <2>1 DEF LockInv, LocksNamed
  <2>. QED
    BY <2>2, <2>3, <2>4, <2>5 DEF LockInv
<1>2. CASE pc[r] \in HasLock /\ pc'[r] \in HasLock /\ who'[r] = who[r]
  <2>1. \A q \in Request : /\ pc'[q] \in HasLock <=> pc[q] \in HasLock
                           /\ pc'[q] = "waiting" <=> pc[q] = "waiting"
                           /\ pc[q] \in Asked => pc'[q] \in Asked
                           /\ who'[q] = who[q]
    BY <1>0, <1>2
  <2>2. HoldersHold'
    <3>1. \A q \in Request : pc'[q] \in HasLock =>
            mine[q] \in Request /\ lockOf[who[q].session] = mine[q] /\ owner[mine[q]] = q
      BY <2>1 DEF LockInv, HoldersHold
    <3>. QED
      BY <1>0, <2>1, <3>1 DEF HoldersHold
  <2>6. WaitersWait'
    BY <1>0, <2>1 DEF LockInv, WaitersWait
  <2>3. OwnersHold'
    <3>1. \A l \in Request : owner[l] # None =>
            owner[l] \in Request /\ pc[owner[l]] \in HasLock /\ mine[owner[l]] = l
      BY <1>0 DEF LockInv, OwnersHold
    <3>. QED
      BY <1>0, <2>1, <3>1 DEF OwnersHold
  <2>4. QueuesWait'
    BY <1>0, <2>1 DEF LockInv, QueuesWait
  <2>5. LocksNamed'
    <3>1. \A s \in Session : lockOf[s] # None =>
            lockOf[s] \in Request /\ who[lockOf[s]].session = s /\ pc[lockOf[s]] \in Asked
      BY <1>0 DEF LockInv, LocksNamed
    <3>. QED
      BY <1>0, <2>1, <3>1 DEF LocksNamed
  <2>. QED
    BY <2>2, <2>3, <2>4, <2>5, <2>6 DEF LockInv
<1>. QED
  BY <1>1, <1>2

\* The lock a request asks for: its session's, or one named after itself.
LockFor(r) == IF lockOf[who[r].session] = None THEN r ELSE lockOf[who[r].session]

LEMMA AskEffect ==
  ASSUME TypeInv, LockInv, NEW r \in Request, AskTurn(r)
  PROVE  /\ LockFor(r) \in Request /\ pc[r] = "ready" /\ who' = who
         /\ lockOf' = [lockOf EXCEPT ![who[r].session] = LockFor(r)]
         /\ mine' = [mine EXCEPT ![r] = LockFor(r)]
         /\ \/ /\ owner[LockFor(r)] = None /\ waiters[LockFor(r)] = <<>>
               /\ owner' = [owner EXCEPT ![LockFor(r)] = r] /\ waiters' = waiters
               /\ Pace(r) /\ pc'[r] \in HasLock
            \/ /\ ~LockIsFree(LockFor(r)) /\ lockOf[who[r].session] = LockFor(r)
               /\ waiters' = [waiters EXCEPT ![LockFor(r)] = Append(@, r)]
               /\ owner' = owner /\ pc'[r] = "waiting" /\ UNCHANGED <<pacing, history>>
<1>0. /\ owner \in [Request -> Request \cup {None}] /\ pc \in [Request -> Place]
      /\ lockOf \in [Session -> Request \cup {None}] /\ None \notin Request
      /\ who[r].session \in Session
  BY NoneIsNothingElse DEF TypeInv, TypeOK, Place
<1>1. LockFor(r) \in Request /\ pc[r] = "ready" /\ pc[r] \notin Asked
  BY <1>0 DEF LockFor, AskTurn, Asked
<1>2. CASE LockIsFree(LockFor(r))
  BY <1>1, <1>2, PacePlace DEF AskTurn, LockFor, LockIsFree, HasLock
<1>3. CASE ~LockIsFree(LockFor(r))
  <2>1. lockOf[who[r].session] = LockFor(r)
    BY <1>1, <1>3, NewcomerIsFree DEF LockFor, LockIsFree
  <2>. QED
    BY <1>0, <1>1, <1>3, <2>1 DEF AskTurn, LockFor, Goto
<1>. QED
  BY <1>2, <1>3

LEMMA AskKeepsLocks ==
  ASSUME TypeInv, LockInv, NEW r \in Request, AskTurn(r)
  PROVE  LockInv'
<1>. DEFINE l == LockFor(r)
            s == who[r].session
<1>0. /\ owner \in [Request -> Request \cup {None}] /\ waiters \in [Request -> Seq(Request)]
      /\ lockOf \in [Session -> Request \cup {None}] /\ None \notin Request
      /\ mine \in [Request -> Request \cup {None}]
      /\ \A q \in Request : who[q].session \in Session
      /\ HasLock \subseteq Asked /\ "waiting" \in Asked /\ "waiting" \notin HasLock
  BY NoneIsNothingElse DEF TypeInv, TypeOK, Asked, HasLock
<1>1. \A q \in Request \ {r} : pc'[q] = pc[q]
  BY OthersKeep DEF RequestStep, Advance
<1>2. /\ l \in Request /\ pc[r] \notin Asked /\ pc[r] = "ready" /\ who' = who /\ s \in Session
      /\ lockOf' = [lockOf EXCEPT ![s] = l] /\ mine' = [mine EXCEPT ![r] = l]
      /\ lockOf[s] \in {l, None}
  BY <1>0, AskEffect DEF Asked, LockFor
<1>3. /\ owner[r] = None /\ waiters[r] = <<>>
      /\ \A z \in Session : lockOf[z] # r
      /\ \A k \in Request : owner[k] # r /\ ~Contains(waiters[k], r)
  BY <1>2, NewcomerIsFree
<1>4. \/ /\ owner[l] = None /\ waiters[l] = <<>>
         /\ owner' = [owner EXCEPT ![l] = r] /\ waiters' = waiters /\ pc'[r] \in HasLock
      \/ /\ lockOf[s] = l
         /\ waiters' = [waiters EXCEPT ![l] = Append(@, r)]
         /\ owner' = owner /\ pc'[r] = "waiting"
  BY AskEffect
<1>5. l # r => lockOf[s] = l
  BY DEF LockFor
<1>. HIDE DEF l, s
<1>6. LocksNamed'
  <2>1. pc'[r] \in Asked /\ who[r].session = s
    BY <1>0, <1>4 DEF s
  <2>2. ASSUME NEW z \in Session, lockOf'[z] # None
        PROVE  who'[lockOf'[z]].session = z /\ pc'[lockOf'[z]] \in Asked
    <3>1. CASE z = s
      <4>1. lockOf'[z] = l
        BY <1>0, <1>2, <3>1
      <4>2. CASE l = r
        BY <1>2, <2>1, <3>1, <4>1, <4>2
      <4>3. CASE l # r
        <5>1. who[l].session = s /\ pc[l] \in Asked
          BY <1>0, <1>2, <1>5, <4>3 DEF LockInv, LocksNamed
        <5>. QED
          BY <1>1, <1>2, <3>1, <4>1, <4>3, <5>1
      <4>. QED
        BY <4>2, <4>3
    <3>2. CASE z # s
      <4>1. lockOf'[z] = lockOf[z] /\ lockOf[z] # r /\ lockOf[z] \in Request
        BY <1>0, <1>2, <1>3, <2>2, <3>2
      <4>2. who[lockOf[z]].session = z /\ pc[lockOf[z]] \in Asked
        BY <1>0, <4>1 DEF LockInv, LocksNamed
      <4>. QED
        BY <1>1, <1>2, <4>1, <4>2
    <3>. QED
      BY <3>1, <3>2
  <2>. QED
    BY <2>2 DEF LocksNamed
<1>7. CASE /\ owner[l] = None /\ waiters[l] = <<>>
           /\ owner' = [owner EXCEPT ![l] = r] /\ waiters' = waiters /\ pc'[r] \in HasLock
  <2>1. HoldersHold'
    <3>1. ASSUME NEW q \in Request, pc'[q] \in HasLock
          PROVE  mine'[q] \in Request /\ lockOf'[who'[q].session] = mine'[q] /\ owner'[mine'[q]] = q
      <4>1. CASE q = r
        BY <1>0, <1>2, <1>7, <4>1 DEF s
      <4>2. CASE q # r
        <5>1. /\ mine[q] \in Request /\ lockOf[who[q].session] = mine[q] /\ owner[mine[q]] = q
              /\ mine'[q] = mine[q]
          BY <1>0, <1>1, <1>2, <3>1, <4>2 DEF LockInv, HoldersHold
        <5>2. mine[q] # l /\ who[q].session # s
          BY <1>0, <1>2, <1>7, <5>1
        <5>. QED
          BY <1>0, <1>2, <1>7, <5>1, <5>2
      <4>. QED
        BY <4>1, <4>2
    <3>. QED
      BY <3>1 DEF HoldersHold
  <2>2. WaitersWait'
    <3>1. ASSUME NEW q \in Request, pc'[q] = "waiting"
          PROVE  mine'[q] \in Request /\ lockOf'[who'[q].session] = mine'[q] /\ Contains(waiters'[mine'[q]], q)
      <4>1. q # r
        BY <1>0, <1>7, <3>1
      <4>2. /\ mine[q] \in Request /\ lockOf[who[q].session] = mine[q] /\ Contains(waiters[mine[q]], q)
            /\ mine'[q] = mine[q]
        BY <1>0, <1>1, <1>2, <3>1, <4>1 DEF LockInv, WaitersWait
      <4>3. lockOf'[who[q].session] = mine[q]
        BY <1>0, <1>2, <4>2
      <4>. QED
        BY <1>2, <1>7, <4>2, <4>3
    <3>. QED
      BY <3>1 DEF WaitersWait
  <2>3. OwnersHold'
    <3>1. ASSUME NEW k \in Request, owner'[k] # None
          PROVE  pc'[owner'[k]] \in HasLock /\ mine'[owner'[k]] = k
      <4>1. CASE k = l
        BY <1>0, <1>2, <1>7, <4>1
      <4>2. CASE k # l
        <5>1. owner'[k] = owner[k] /\ owner[k] # r /\ owner[k] \in Request
          BY <1>0, <1>3, <1>7, <3>1, <4>2
        <5>. QED
          BY <1>0, <1>1, <1>2, <3>1, <5>1 DEF LockInv, OwnersHold
      <4>. QED
        BY <4>1, <4>2
    <3>. QED
      BY <3>1 DEF OwnersHold
  <2>4. QueuesWait'
    <3>1. \A k \in Request : \A q : Contains(waiters[k], q) => q # r
      BY <1>3
    <3>. QED
      BY <1>0, <1>1, <1>2, <1>7, <3>1 DEF LockInv, QueuesWait
  <2>. QED
    BY <1>6, <2>1, <2>2, <2>3, <2>4 DEF LockInv
<1>8. CASE /\ lockOf[s] = l
           /\ waiters' = [waiters EXCEPT ![l] = Append(@, r)]
           /\ owner' = owner /\ pc'[r] = "waiting"
  <2>0. lockOf' = lockOf
    BY <1>0, <1>2, <1>8
  <2>1. /\ Distinct(waiters'[l])
        /\ \A x : Contains(waiters'[l], x) <=> Contains(waiters[l], x) \/ x = r
    BY <1>0, <1>2, <1>3, <1>8, LastOfQueue DEF LockInv, QueuesWait
  <2>2. \A k \in Request \ {l} : waiters'[k] = waiters[k]
    BY <1>0, <1>8
  <2>3. HoldersHold'
    BY <1>0, <1>1, <1>2, <1>8, <2>0 DEF LockInv, HoldersHold
  <2>4. WaitersWait'
    <3>1. ASSUME NEW q \in Request, pc'[q] = "waiting"
          PROVE  mine'[q] \in Request /\ lockOf'[who'[q].session] = mine'[q] /\ Contains(waiters'[mine'[q]], q)
      <4>1. CASE q = r
        BY <1>0, <1>2, <1>8, <2>0, <2>1, <4>1 DEF s
      <4>2. CASE q # r
        <5>1. /\ mine[q] \in Request /\ lockOf[who[q].session] = mine[q] /\ Contains(waiters[mine[q]], q)
              /\ mine'[q] = mine[q]
          BY <1>0, <1>1, <1>2, <3>1, <4>2 DEF LockInv, WaitersWait
        <5>. QED
          BY <1>2, <2>0, <2>1, <2>2, <5>1
      <4>. QED
        BY <4>1, <4>2
    <3>. QED
      BY <3>1 DEF WaitersWait
  <2>5. OwnersHold'
    <3>1. \A k \in Request : owner[k] # None =>
            /\ owner[k] \in Request \ {r}
            /\ pc[owner[k]] \in HasLock /\ mine[owner[k]] = k
      BY <1>0, <1>3 DEF LockInv, OwnersHold
    <3>. QED
      BY <1>0, <1>1, <1>2, <1>8, <3>1 DEF OwnersHold
  <2>6. QueuesWait'
    <3>1. ASSUME NEW k \in Request
          PROVE  Distinct(waiters'[k])
      BY <2>1, <2>2 DEF LockInv, QueuesWait
    <3>2. ASSUME NEW k \in Request, NEW q, Contains(waiters'[k], q)
          PROVE  q \in Request /\ pc'[q] = "waiting" /\ mine'[q] = k
      <4>1. CASE q = r
        <5>1. k = l
          BY <1>3, <2>2, <3>2, <4>1
        <5>. QED
          BY <1>0, <1>2, <1>8, <4>1, <5>1
      <4>2. CASE q # r
        <5>1. Contains(waiters[k], q)
          BY <2>1, <2>2, <3>2, <4>2
        <5>2. q \in Request /\ pc[q] = "waiting" /\ mine[q] = k
          BY <5>1 DEF LockInv, QueuesWait
        <5>. QED
          BY <1>0, <1>1, <1>2, <4>2, <5>2
      <4>. QED
        BY <4>1, <4>2
    <3>. QED
      BY <3>1, <3>2 DEF QueuesWait
  <2>. QED
    BY <1>6, <2>3, <2>4, <2>5, <2>6 DEF LockInv
<1>. QED
  BY <1>4, <1>7, <1>8

\* The first waiter gets a lock nobody holds.
LEMMA ResumeEffect ==
  ASSUME TypeInv, LockInv, NEW r \in Request, Resume(r)
  PROVE  /\ mine[r] \in Request /\ pc[r] = "waiting" /\ lockOf[who[r].session] = mine[r]
         /\ owner[mine[r]] = None /\ waiters[mine[r]] # <<>> /\ Head(waiters[mine[r]]) = r
         /\ owner' = [owner EXCEPT ![mine[r]] = r]
         /\ waiters' = [waiters EXCEPT ![mine[r]] = Tail(@)]
         /\ Pace(r) /\ pc'[r] \in HasLock /\ UNCHANGED <<who, lockOf, mine>>
         /\ waiters[mine[r]] = <<r>> \o Tail(waiters[mine[r]])
         /\ Distinct(Tail(waiters[mine[r]]))
         /\ \A x : Contains(Tail(waiters[mine[r]]), x) <=> Contains(waiters[mine[r]], x) /\ x # r
<1>1. /\ mine[r] \in Request /\ lockOf[who[r].session] = mine[r] /\ pc[r] = "waiting"
      /\ Contains(waiters[mine[r]], r) /\ Distinct(waiters[mine[r]]) /\ waiters[mine[r]] \in Seq(Request)
  BY DEF Resume, LockInv, WaitersWait, QueuesWait, TypeInv, TypeOK
<1>2. waiters[mine[r]] # <<>>
  BY <1>1 DEF Contains
<1>3. Head(waiters[mine[r]]) = r /\ Pace(r) /\ pc'[r] \in HasLock
  BY PacePlace DEF Resume, HasLock
<1>. QED
  BY <1>1, <1>2, <1>3, TailOfQueue DEF Resume

LEMMA ResumeKeepsLocks ==
  ASSUME TypeInv, LockInv, NEW r \in Request, Resume(r)
  PROVE  LockInv'
<1>. DEFINE l == mine[r]
<1>0. /\ owner \in [Request -> Request \cup {None}] /\ waiters \in [Request -> Seq(Request)]
      /\ lockOf \in [Session -> Request \cup {None}] /\ None \notin Request
      /\ HasLock \subseteq Asked /\ "waiting" \notin HasLock
  BY NoneIsNothingElse DEF TypeInv, TypeOK, Asked, HasLock
<1>1. \A q \in Request \ {r} : pc'[q] = pc[q]
  BY OthersKeep DEF RequestStep, Advance
<1>2. /\ l \in Request /\ pc[r] = "waiting" /\ lockOf[who[r].session] = l /\ owner[l] = None
      /\ owner' = [owner EXCEPT ![l] = r] /\ pc'[r] \in HasLock
      /\ who' = who /\ lockOf' = lockOf /\ mine' = mine
  BY ResumeEffect
<1>3. /\ Distinct(waiters'[l])
      /\ \A x : Contains(waiters'[l], x) <=> Contains(waiters[l], x) /\ x # r
      /\ \A k \in Request \ {l} : waiters'[k] = waiters[k]
  <2>1. waiters' = [waiters EXCEPT ![l] = Tail(@)]
    BY ResumeEffect
  <2>2. waiters'[l] = Tail(waiters[l]) /\ \A k \in Request \ {l} : waiters'[k] = waiters[k]
    BY <1>0, <1>2, <2>1
  <2>3. /\ Distinct(Tail(waiters[l]))
        /\ \A x : Contains(Tail(waiters[l]), x) <=> Contains(waiters[l], x) /\ x # r
    BY ResumeEffect
  <2>. HIDE DEF l
  <2>. QED
    BY <2>2, <2>3
<1>4. mine[r] = l
  OBVIOUS
<1>. HIDE DEF l
<1>5. HoldersHold'
  <2>1. ASSUME NEW q \in Request, pc'[q] \in HasLock
        PROVE  mine'[q] \in Request /\ lockOf'[who'[q].session] = mine'[q] /\ owner'[mine'[q]] = q
    <3>1. CASE q = r
      BY <1>0, <1>2, <1>4, <3>1
    <3>2. CASE q # r
      <4>1. mine[q] \in Request /\ lockOf[who[q].session] = mine[q] /\ owner[mine[q]] = q
        BY <1>1, <2>1, <3>2 DEF LockInv, HoldersHold
      <4>. QED
        BY <1>0, <1>2, <4>1
    <3>. QED
      BY <3>1, <3>2
  <2>. QED
    BY <2>1 DEF HoldersHold
<1>6. WaitersWait'
  <2>1. ASSUME NEW q \in Request, pc'[q] = "waiting"
        PROVE  mine'[q] \in Request /\ lockOf'[who'[q].session] = mine'[q] /\ Contains(waiters'[mine'[q]], q)
    <3>1. q # r
      BY <1>0, <1>2, <2>1
    <3>2. mine[q] \in Request /\ lockOf[who[q].session] = mine[q] /\ Contains(waiters[mine[q]], q)
      BY <1>1, <2>1, <3>1 DEF LockInv, WaitersWait
    <3>. QED
      BY <1>2, <1>3, <3>1, <3>2
  <2>. QED
    BY <2>1 DEF WaitersWait
<1>7. OwnersHold'
  <2>1. \A k \in Request : owner[k] # None =>
          owner[k] \in Request /\ pc[owner[k]] \in HasLock /\ mine[owner[k]] = k
    BY <1>0 DEF LockInv, OwnersHold
  <2>2. \A k \in Request : owner'[k] = IF k = l THEN r ELSE owner[k]
    BY <1>0, <1>2
  <2>3. \A k \in Request : owner[k] # r
    BY <1>0, <1>2, <2>1
  <2>4. ASSUME NEW k \in Request, owner'[k] # None
        PROVE  pc'[owner'[k]] \in HasLock /\ mine'[owner'[k]] = k
    <3>1. CASE k = l
      BY <1>2, <1>4, <2>2, <3>1
    <3>2. CASE k # l
      BY <1>1, <1>2, <2>1, <2>2, <2>3, <2>4, <3>2
    <3>. QED
      BY <3>1, <3>2
  <2>. QED
    BY <2>4 DEF OwnersHold
<1>8. QueuesWait'
  <2>1. ASSUME NEW k \in Request
        PROVE  Distinct(waiters'[k])
    BY <1>3 DEF LockInv, QueuesWait
  <2>2. ASSUME NEW k \in Request, NEW q, Contains(waiters'[k], q)
        PROVE  q \in Request /\ pc'[q] = "waiting" /\ mine'[q] = k
    <3>1. Contains(waiters[k], q) /\ (k = l => q # r)
      BY <1>3, <2>2
    <3>2. q \in Request /\ pc[q] = "waiting" /\ mine[q] = k
      BY <3>1 DEF LockInv, QueuesWait
    <3>. QED
      BY <1>1, <1>2, <1>4, <3>1, <3>2
  <2>. QED
    BY <2>1, <2>2 DEF QueuesWait
<1>9. LocksNamed'
  <2>1. \A s \in Session : lockOf[s] # None =>
          lockOf[s] \in Request /\ who[lockOf[s]].session = s /\ pc[lockOf[s]] \in Asked
    BY <1>0 DEF LockInv, LocksNamed
  <2>2. pc'[r] \in Asked
    BY <1>0, <1>2
  <2>. QED
    BY <1>1, <1>2, <2>1, <2>2 DEF LocksNamed
<1>. QED
  BY <1>5, <1>6, <1>7, <1>8, <1>9 DEF LockInv

LEMMA LeavingKeepsLocks ==
  ASSUME TypeInv, CountsInv, LockInv, NEW r \in Request, GivesBack(r),
         \A q \in Request \ {r} : pc'[q] = pc[q]
  PROVE  LockInv'
<1>0. /\ owner \in [Request -> Request \cup {None}] /\ waiters \in [Request -> Seq(Request)]
      /\ lockOf \in [Session -> Request \cup {None}] /\ None \notin Request
      /\ \A q \in Request : who[q].session \in Session
      /\ "refused" \notin HasLock \cup {"waiting"} /\ "done" \notin HasLock \cup {"waiting"}
      /\ HasLock \cup {"waiting"} \subseteq KeepsSlot /\ HasLock \subseteq Asked /\ "done" \in Asked
  BY NoneIsNothingElse DEF TypeInv, TypeOK, Asked, HasLock, HoldsSlot, KeepsSlot
<1>1. /\ who' = who /\ mine' = mine /\ pc'[r] \in {"refused", "done"}
      /\ pc[r] \in Asked => pc'[r] = "done"
  BY DEF GivesBack, Asked
<1>2. /\ \A l \in Request : owner'[l] = IF owner[l] = r THEN None ELSE owner[l]
      /\ \A l \in Request :
           /\ Distinct(waiters'[l])
           /\ \A x : Contains(waiters'[l], x) <=> Contains(waiters[l], x) /\ x # r
  BY LeaveEffect
<1>3. \A s \in Session :
        \/ lockOf'[s] = lockOf[s]
        \/ /\ lockOf'[s] = None
           /\ \A q \in Request : pc[q] \in KeepsSlot /\ who[q].session = s => q = r
  BY DropEffect
<1>4. \A q \in Request : pc'[q] \in HasLock \cup {"waiting"} =>
        q # r /\ pc[q] = pc'[q] /\ lockOf'[who[q].session] = lockOf[who[q].session]
  BY <1>0, <1>1, <1>3
<1>5. HoldersHold'
  <2>1. ASSUME NEW q \in Request, pc'[q] \in HasLock
        PROVE  mine'[q] \in Request /\ lockOf'[who'[q].session] = mine'[q] /\ owner'[mine'[q]] = q
    <3>1. mine[q] \in Request /\ lockOf[who[q].session] = mine[q] /\ owner[mine[q]] = q /\ q # r
      BY <1>4, <2>1 DEF LockInv, HoldersHold
    <3>. QED
      BY <1>1, <1>2, <1>4, <2>1, <3>1
  <2>. QED
    BY <2>1 DEF HoldersHold
<1>6. WaitersWait'
  <2>1. ASSUME NEW q \in Request, pc'[q] = "waiting"
        PROVE  mine'[q] \in Request /\ lockOf'[who'[q].session] = mine'[q] /\ Contains(waiters'[mine'[q]], q)
    <3>1. mine[q] \in Request /\ lockOf[who[q].session] = mine[q] /\ Contains(waiters[mine[q]], q) /\ q # r
      BY <1>4, <2>1 DEF LockInv, WaitersWait
    <3>. QED
      BY <1>1, <1>2, <1>4, <2>1, <3>1
  <2>. QED
    BY <2>1 DEF WaitersWait
<1>7. OwnersHold'
  <2>1. \A k \in Request : owner[k] # None =>
          owner[k] \in Request /\ pc[owner[k]] \in HasLock /\ mine[owner[k]] = k
    BY <1>0 DEF LockInv, OwnersHold
  <2>. QED
    BY <1>1, <1>2, <2>1 DEF OwnersHold
<1>8. QueuesWait'
  <2>1. \A k \in Request : \A q : Contains(waiters'[k], q) =>
          q \in Request \ {r} /\ pc[q] = "waiting" /\ mine[q] = k
    BY <1>2 DEF LockInv, QueuesWait
  <2>. QED
    BY <1>1, <1>2, <2>1 DEF QueuesWait
<1>9. LocksNamed'
  <2>1. \A s \in Session : lockOf[s] # None =>
          lockOf[s] \in Request /\ who[lockOf[s]].session = s /\ pc[lockOf[s]] \in Asked
    BY <1>0 DEF LockInv, LocksNamed
  <2>. QED
    BY <1>0, <1>1, <1>3, <2>1 DEF LocksNamed
<1>. QED
  BY <1>5, <1>6, <1>7, <1>8, <1>9 DEF LockInv

LEMMA LockStep ==
  ASSUME TypeInv, CountsInv, LockInv, [Next]_vars
  PROVE  LockInv'
<1>1. ASSUME NEW r \in Request, RequestStep(r)
      PROVE  LockInv'
  <2>1. \A q \in Request \ {r} : pc'[q] = pc[q] /\ who'[q] = who[q]
    BY <1>1, OthersKeep
  <2>2. CASE Enters(r)
    BY <2>1, <2>2, LockKept DEF Enters, Asked
  <2>3. CASE GivesBack(r)
    BY <2>1, <2>3, LeavingKeepsLocks
  <2>4. CASE Stays(r)
    <3>1. CASE AskTurn(r)
      BY <3>1, AskKeepsLocks
    <3>2. CASE Resume(r)
      BY <3>2, ResumeKeepsLocks
    <3>3. CASE Wake(r)
      <4>1. pc[r] \in HasLock /\ pc'[r] \in HasLock /\ who' = who /\ UNCHANGED lock
        BY <3>3 DEF Wake, Goto, HasLock, TypeInv, TypeOK
      <4>. QED
        BY <2>1, <4>1, LockKept
    <3>4. CASE SpendSession(r) \/ SpendIp(r) \/ SpendFails(r)
      <4>1. ASSUME NEW b, Refused(r, b)
            PROVE  FALSE
        BY <2>4, <4>1 DEF Refused, Goto, Stays, HoldsSlot, TypeInv, TypeOK
      <4>2. UNCHANGED lock
        BY <3>4, <4>1 DEF SpendSession, SpendIp, SpendFails
      <4>3. pc[r] \notin Asked /\ pc'[r] \notin Asked
        BY <2>4, <3>4, <4>1 DEF SpendSession, SpendIp, SpendFails, Goto, Asked, TypeInv, TypeOK
      <4>. QED
        BY <2>1, <4>2, <4>3, LockKept
    <3>5. ~Reserve(r) /\ ~SpendCancelled(r) /\ ~Leave(r) /\ ~CutShort(r)
      BY <2>4, CancelEffect DEF Reserve, Leave, CutShort, EndTurn, Goto, Stays, HoldsSlot, TypeInv, TypeOK
    <3>. QED
      BY <1>1, <3>1, <3>2, <3>3, <3>4, <3>5 DEF RequestStep, Advance
  <2>5. CASE SpendCancelled(r)
    BY <2>1, <2>5, CancelEffect, LockKept DEF Asked
  <2>. QED
    BY <1>1, <2>2, <2>3, <2>4, <2>5, StepKinds
<1>2. CASE UNCHANGED <<pc, who, lock>>
  BY <1>2 DEF LockInv, HoldersHold, WaitersWait, OwnersHold, QueuesWait, LocksNamed, lock
<1>. QED
  BY <1>1, <1>2 DEF Next, RequestStep, Tick, AllDone, vars

LEMMA LockInvariant == Spec => []LockInv
<1>1. Init => LockInv
  <2>. SUFFICES ASSUME Init PROVE LockInv
    OBVIOUS
  <2>1. /\ \A r \in Request : pc[r] = "idle" /\ owner[r] = None /\ waiters[r] = <<>>
        /\ \A s \in Session : lockOf[s] = None
    BY DEF Init
  <2>2. \A x : ~Contains(<<>>, x)
    BY DEF Contains
  <2>. QED
    BY <2>1, <2>2 DEF LockInv, HoldersHold, WaitersWait, OwnersHold, QueuesWait, LocksNamed, HasLock, Distinct
<1>2. TypeInv /\ (QuotaKinds /\ CountsInv) /\ LockInv /\ [Next]_vars => LockInv'
  BY LockStep
<1>. QED
  BY <1>1, <1>2, TypeInvariant, CountsInvariant, PTL DEF Spec

\* One turn of a session runs at a time, although its lock is deleted and made
\* anew between bursts: who holds a lock holds the one in the dictionary.
THEOREM TurnsRunOneAtATime == Spec => []OneTurnAtATime
<1>1. TypeInv /\ LockInv => OneTurnAtATime
  BY DEF LockInv, HoldersHold, OneTurnAtATime
<1>. QED
  BY <1>1, TypeInvariant, LockInvariant, PTL

(***************************************************************************)
(* A session without requests in flight leaves nothing behind.             *)
(***************************************************************************)

KeptInv == \A s \in Session :
  (\A r \in Request : pc[r] \in KeepsSlot => who[r].session # s) =>
    lockOf[s] = None /\ cursor[s] = None

\* Pacing a request moves the clocks of its session, and of no other.
LEMMA PaceElsewhere ==
  ASSUME NEW r \in Request, Pace(r), NEW s, s # who[r].session, TypeInv, s \in Session
  PROVE  cursor'[s] = cursor[s] /\ since'[s] = since[s] /\ gap'[s] = gap[s]
BY DEF Pace, history, TypeInv, TypeOK

LEMMA StaysElsewhere ==
  ASSUME TypeInv, NEW r \in Request, RequestStep(r), Stays(r), NEW s \in Session, s # who[r].session
  PROVE  lockOf'[s] = lockOf[s] /\ cursor'[s] = cursor[s] /\ since'[s] = since[s] /\ gap'[s] = gap[s]
<1>0. lockOf \in [Session -> Request \cup {None}]
  BY DEF TypeInv, TypeOK
<1>1. CASE AskTurn(r)
  <2>1. lockOf'[s] = lockOf[s]
    BY <1>0, <1>1 DEF AskTurn
  <2>2. Pace(r) \/ UNCHANGED <<pacing, history>>
    BY <1>1 DEF AskTurn
  <2>. QED
    BY <2>1, <2>2, PaceElsewhere DEF pacing, history
<1>2. CASE Resume(r)
  BY <1>2, PaceElsewhere DEF Resume
<1>3. CASE Wake(r)
  BY <1>3 DEF Wake, lock, pacing, TypeInv, TypeOK
<1>4. CASE SpendSession(r) \/ SpendIp(r) \/ SpendFails(r)
  <2>1. ASSUME NEW b, Refused(r, b)
        PROVE  FALSE
    BY <2>1 DEF Refused, Goto, Stays, HoldsSlot, TypeInv, TypeOK
  <2>. QED
    BY <1>4, <2>1 DEF SpendSession, SpendIp, SpendFails, lock, pacing, history
<1>5. ~Reserve(r) /\ ~SpendCancelled(r) /\ ~Leave(r) /\ ~CutShort(r)
  BY CancelEffect DEF Reserve, Leave, CutShort, EndTurn, Goto, Stays, HoldsSlot, TypeInv, TypeOK
<1>. QED
  BY <1>1, <1>2, <1>3, <1>4, <1>5 DEF RequestStep, Advance

LEMMA KeptStep ==
  ASSUME TypeInv, CountsInv, LockInv, KeptInv, [Next]_vars
  PROVE  KeptInv'
<1>0. /\ \A q \in Request : who[q].session \in Session
      /\ lockOf \in [Session -> Request \cup {None}] /\ None \notin Request
      /\ owner \in [Request -> Request \cup {None}]
      /\ HasLock \subseteq KeepsSlot /\ "idle" \notin KeepsSlot
      /\ "session_cut" \in KeepsSlot /\ "ip_cut" \in KeepsSlot
  BY NoneIsNothingElse DEF TypeInv, TypeOK, HasLock, HoldsSlot, KeepsSlot, Cut
<1>1. ASSUME NEW r \in Request, RequestStep(r), NEW s \in Session,
             \A q \in Request : pc'[q] \in KeepsSlot => who'[q].session # s
      PROVE  lockOf'[s] = None /\ cursor'[s] = None
  <2>1. \A q \in Request \ {r} : pc'[q] = pc[q] /\ who'[q] = who[q]
    BY <1>1, OthersKeep
  <2>2. CASE Enters(r)
    <3>1. \A q \in Request : pc[q] \in KeepsSlot => who[q].session # s
      BY <1>0, <1>1, <2>1, <2>2 DEF Enters
    <3>. QED
      BY <2>2, <3>1 DEF KeptInv, Enters, lock, pacing
  <2>3. CASE Stays(r)
    <3>1. s # who[r].session /\ \A q \in Request : pc[q] \in KeepsSlot => who[q].session # s
      BY <1>1, <2>1, <2>3 DEF Stays, KeepsSlot
    <3>. QED
      BY <1>1, <2>3, <3>1, StaysElsewhere DEF KeptInv
  <2>4. CASE GivesBack(r)
    <3>1. CASE who[r].session # s
      <4>1. \A q \in Request : pc[q] \in KeepsSlot => who[q].session # s
        BY <1>1, <2>1, <3>1
      <4>2. lockOf'[s] = lockOf[s] /\ cursor'[s] = cursor[s]
        BY <2>4, <3>1 DEF GivesBack, ReleaseSlot, TypeInv, TypeOK
      <4>. QED
        BY <4>1, <4>2 DEF KeptInv
    <3>2. CASE who[r].session = s
      <4>1. \A q \in Request : pc[q] \in KeepsSlot /\ who[q].session = s => q = r
        BY <1>1, <2>1
      <4>2. pending[s] <= 1
        <5>1. InFlight(s) = {r}
          BY <2>4, <3>2, <4>1 DEF InFlight, GivesBack, KeepsSlot
        <5>2. pending[s] = 1
          BY <5>1, FS_Singleton DEF CountsInv
        <5>. QED
          BY <5>2
      <4>3. cursor'[s] = None
        BY <2>4, <3>2, <4>2 DEF GivesBack, ReleaseSlot, TypeInv, TypeOK
      <4>4. CASE lockOf[s] = None
        BY <1>0, <2>4, <3>2, <4>3, <4>4 DEF GivesBack, ReleaseSlot
      <4>5. CASE lockOf[s] # None
        <5>1. lockOf[s] \in Request
          BY <1>0, <4>5
        <5>2. owner[lockOf[s]] # None => owner[lockOf[s]] = r
          <6>. SUFFICES ASSUME owner[lockOf[s]] # None PROVE owner[lockOf[s]] = r
            OBVIOUS
          <6>. DEFINE o == owner[lockOf[s]]
          <6>1. o \in Request /\ pc[o] \in HasLock /\ mine[o] = lockOf[s]
            BY <1>0, <5>1 DEF LockInv, OwnersHold
          <6>2. lockOf[who[o].session] = lockOf[s]
            BY <6>1 DEF LockInv, HoldersHold
          <6>3. who[o].session = s
            BY <1>0, <4>5, <6>1, <6>2 DEF LockInv, LocksNamed
          <6>. QED
            BY <1>0, <4>1, <6>1, <6>3
        <5>3. owner'[lockOf[s]] = None
          BY <2>4, <5>1, <5>2, LeaveEffect
        <5>. QED
          BY <1>0, <2>4, <3>2, <4>2, <4>3, <4>5, <5>3 DEF GivesBack, ReleaseSlot
      <4>. QED
        BY <4>4, <4>5
    <3>. QED
      BY <3>1, <3>2
  <2>5. CASE SpendCancelled(r)
    <3>1. \A q \in Request : pc[q] \in KeepsSlot => who[q].session # s
      BY <1>0, <1>1, <2>1, <2>5, CancelEffect
    <3>. QED
      BY <2>5, <3>1, CancelEffect DEF KeptInv, lock, pacing
  <2>. QED
    BY <1>1, <2>2, <2>3, <2>4, <2>5, StepKinds
<1>2. CASE Tick
  BY <1>2 DEF Tick, KeptInv, lock, TypeInv, TypeOK
<1>3. CASE UNCHANGED vars
  BY <1>3 DEF KeptInv, vars, lock, pacing
<1>. QED
  BY <1>1, <1>2, <1>3 DEF Next, RequestStep, AllDone, KeptInv

\* When the last request of a session has gone, so have its count, its lock
\* and its cursor, unless one was cancelled with its slot: the dictionaries do
\* not grow with the visitors.
THEOREM NothingIsKept == Spec => []NothingKept
<1>1. Init => KeptInv
  BY DEF Init, KeptInv
<1>2. TypeInv /\ (QuotaKinds /\ CountsInv) /\ LockInv /\ KeptInv /\ [Next]_vars => KeptInv'
  BY KeptStep
<1>3. CountsInv /\ KeptInv => NothingKept
  <2>. SUFFICES ASSUME CountsInv, KeptInv, NEW s \in Session,
                       \A r \in Request : pc[r] \in KeepsSlot => who[r].session # s
                PROVE  pending[s] = 0 /\ lockOf[s] = None /\ cursor[s] = None
    BY DEF NothingKept
  <2>1. InFlight(s) = {}
    BY DEF InFlight
  <2>2. pending[s] = 0
    BY <2>1, FS_EmptySet DEF CountsInv
  <2>. QED
    BY <2>2 DEF KeptInv
<1>. QED
  BY <1>1, <1>2, <1>3, TypeInvariant, CountsInvariant, LockInvariant, PTL DEF Spec

(***************************************************************************)
(* The day's allowances. A message that passed a quota was counted in it,  *)
(* and a count is never taken back.                                        *)
(***************************************************************************)

LEMMA QuotaEffect ==
  ASSUME TypeInv, NEW r \in Request, RequestStep(r)
  PROVE  /\ \A s \in Session : used'[s] >= used[s]
         /\ \A i \in Ip : ipUsed'[i] >= ipUsed[i]
         /\ Stays(r) /\ pc[r] = "session_quota" =>
              /\ used'[who[r].session] = used[who[r].session] + 1
              /\ used[who[r].session] < Quota[who[r].tier]
         /\ Stays(r) /\ pc[r] = "ip_quota" =>
              /\ ipUsed'[who[r].ip] = ipUsed[who[r].ip] + 1
              /\ ipUsed[who[r].ip] < IpQuota /\ pc'[r] = "ready"
<1>0. /\ used \in [Session -> Nat] /\ ipUsed \in [Ip -> Nat]
      /\ who[r].session \in Session /\ who[r].ip \in Ip /\ who[r].tier \in Tier
      /\ Quota \in [Tier -> Nat] /\ IpQuota \in Nat
  BY LimitsAreNat DEF TypeInv, TypeOK
<1>1. ASSUME NEW b, Refused(r, b)
      PROVE  ~Stays(r)
  BY <1>1 DEF Refused, Goto, Stays, HoldsSlot, TypeInv, TypeOK
<1>2. CASE SpendSession(r)
  <2>1. used' = [used EXCEPT ![who[r].session] = @ + 1] /\ ipUsed' = ipUsed /\ pc[r] = "session_quota"
    BY <1>2 DEF SpendSession
  <2>2. Stays(r) => ~(used[who[r].session] >= Quota[who[r].tier])
    BY <1>1, <1>2 DEF SpendSession
  <2>. QED
    BY <1>0, <2>1, <2>2
<1>3. CASE SpendIp(r)
  <2>1. ipUsed' = [ipUsed EXCEPT ![who[r].ip] = @ + 1] /\ used' = used /\ pc[r] = "ip_quota"
    BY <1>3 DEF SpendIp
  <2>2. Stays(r) => ~(ipUsed[who[r].ip] >= IpQuota) /\ pc'[r] = "ready"
    BY <1>1, <1>3 DEF SpendIp, Goto, TypeInv, TypeOK
  <2>. QED
    BY <1>0, <2>1, <2>2
<1>4. CASE SpendFails(r)
  <2>1. ~Stays(r)
    BY <1>1, <1>4 DEF SpendFails
  <2>2. \/ used' = used \/ used' = [used EXCEPT ![who[r].session] = @ + 1]
    BY <1>4 DEF SpendFails
  <2>3. \/ ipUsed' = ipUsed \/ ipUsed' = [ipUsed EXCEPT ![who[r].ip] = @ + 1]
    BY <1>4 DEF SpendFails
  <2>4. \A s \in Session : used'[s] >= used[s]
    BY <1>0, <2>2
  <2>5. \A i \in Ip : ipUsed'[i] >= ipUsed[i]
    BY <1>0, <2>3
  <2>. QED
    BY <2>1, <2>4, <2>5
<1>5. CASE Reserve(r) \/ AskTurn(r) \/ Resume(r) \/ Wake(r) \/ Leave(r) \/ CutShort(r)
  <2>1. used' = used /\ ipUsed' = ipUsed /\ pc[r] \notin {"session_quota", "ip_quota"}
    BY <1>5 DEF Reserve, AskTurn, Resume, Wake, Leave, CutShort, EndTurn, counts
  <2>. QED
    BY <1>0, <2>1
<1>6. CASE SpendCancelled(r)
  <2>1. ~Stays(r)
    BY <1>6, CancelEffect DEF Stays, HoldsSlot
  <2>. QED
    BY <1>6, <2>1, CancelEffect
<1>. QED
  BY <1>2, <1>3, <1>4, <1>5, <1>6 DEF RequestStep, Advance

Passed   == HoldsIp \cup {"done"}
PassedIp == Passed \ {"ip_quota"}

OfSession(s, t) == {r \in Request :
  pc[r] \in Passed /\ who[r].kind = "message" /\ who[r].session = s /\ who[r].tier = t}
OfIp(i) == {r \in Request : pc[r] \in PassedIp /\ GuestMessage(r) /\ who[r].ip = i}

AllowInv ==
  /\ \A s \in Session, t \in Tier :
       /\ IsFiniteSet(OfSession(s, t))
       /\ Cardinality(OfSession(s, t)) <= used[s] /\ Cardinality(OfSession(s, t)) <= Quota[t]
  /\ \A i \in Ip :
       /\ IsFiniteSet(OfIp(i))
       /\ Cardinality(OfIp(i)) <= ipUsed[i] /\ Cardinality(OfIp(i)) <= IpQuota

LEMMA AllowStep ==
  ASSUME TypeInv, QuotaKinds, AllowInv, [Next]_vars
  PROVE  AllowInv'
<1>0. /\ used \in [Session -> Nat] /\ ipUsed \in [Ip -> Nat]
      /\ used' \in [Session -> Nat] /\ ipUsed' \in [Ip -> Nat]
      /\ Quota \in [Tier -> Nat] /\ IpQuota \in Nat
      /\ \A p \in Place : p \in Passed <=> p \notin {"idle", "session_quota", "refused", "session_cut", "ip_cut"}
      /\ \A p \in Place : p \in PassedIp <=> p \notin {"idle", "session_quota", "refused", "ip_quota", "session_cut", "ip_cut"}
      /\ HoldsSlot \subseteq Place /\ pc \in [Request -> Place] /\ pc' \in [Request -> Place]
      /\ \A q \in Request : /\ who'[q].kind \in {"message", "continue"}
                            /\ who[q].session \in Session /\ who[q].ip \in Ip /\ who[q].tier \in Tier
      /\ \A p \in HoldsSlot : p \notin {"session_cut", "ip_cut"}
      /\ "idle" \notin HoldsSlot /\ "done" \notin HoldsSlot /\ "refused" \notin HoldsSlot
  BY LimitsAreNat, TypeStep DEF TypeInv, TypeOK, Passed, PassedIp, Place, HoldsIp, HoldsSlot, KeepsSlot, Cut
<1>1. ASSUME NEW r \in Request, RequestStep(r)
      PROVE  AllowInv'
  <2>1. \A q \in Request : q # r => pc'[q] = pc[q] /\ who'[q] = who[q]
    BY <1>1, OthersKeep
  <2>2. /\ \A s \in Session : used'[s] >= used[s]
        /\ \A i \in Ip : ipUsed'[i] >= ipUsed[i]
    BY <1>1, QuotaEffect
  <2>3. ASSUME NEW s \in Session, NEW t \in Tier
        PROVE  LET B == OfSession(s, t)'
               IN  IsFiniteSet(B) /\ Cardinality(B) <= used'[s] /\ Cardinality(B) <= Quota[t]
    <3>. DEFINE A == OfSession(s, t)
                B == {q \in Request : pc'[q] \in Passed /\ who'[q].kind = "message"
                                      /\ who'[q].session = s /\ who'[q].tier = t}
    <3>1. OfSession(s, t)' = B
      BY DEF OfSession
    <3>2. IsFiniteSet(A) /\ Cardinality(A) <= used[s] /\ Cardinality(A) <= Quota[t]
      BY DEF AllowInv
    <3>3. \A q : q # r => (q \in A <=> q \in B)
      BY <2>1 DEF OfSession
    <3>4. /\ r \in A <=> pc[r] \in Passed /\ who[r].kind = "message"
                         /\ who[r].session = s /\ who[r].tier = t
          /\ r \in B <=> pc'[r] \in Passed /\ who'[r].kind = "message"
                         /\ who'[r].session = s /\ who'[r].tier = t
      BY DEF OfSession
    <3>. HIDE DEF A, B
    <3>5. /\ IsFiniteSet(B) /\ Cardinality(A) \in Nat /\ Cardinality(B) \in Nat
          /\ r \in B /\ r \notin A => Cardinality(B) = Cardinality(A) + 1
          /\ ~(r \in B /\ r \notin A) => Cardinality(B) <= Cardinality(A)
      <4>1. /\ IsFiniteSet(B) /\ Cardinality(A) \in Nat /\ Cardinality(B) \in Nat
            /\ r \in A /\ r \in B => Cardinality(B) = Cardinality(A)
            /\ r \notin A /\ r \notin B => Cardinality(B) = Cardinality(A)
            /\ r \in A /\ r \notin B => Cardinality(B) = Cardinality(A) - 1
            /\ r \notin A /\ r \in B => Cardinality(B) = Cardinality(A) + 1
        BY <3>2, <3>3, CountMoves
      <4>. QED
        BY <4>1
    <3>6. r \in B /\ r \notin A => used'[s] = used[s] + 1 /\ used[s] < Quota[t]
      <4>1. CASE Enters(r)
        <5>1. pc'[r] # "ready" \/ who'[r].kind # "message"
          BY <4>1 DEF Enters
        <5>2. r \notin B
          BY <1>0, <3>4, <4>1, <5>1 DEF Enters
        <5>. QED
          BY <5>2
      <4>2. CASE Stays(r)
        <5>1. r \in B /\ r \notin A => pc[r] = "session_quota" /\ who[r].session = s /\ who[r].tier = t
          BY <1>0, <3>4, <4>2 DEF Stays
        <5>. QED
          BY <1>1, <4>2, <5>1, QuotaEffect
      <4>3. CASE GivesBack(r)
        <5>1. r \in B => r \in A
          BY <1>0, <3>4, <4>3 DEF GivesBack
        <5>. QED
          BY <5>1
      <4>4. CASE SpendCancelled(r)
        <5>1. pc'[r] \in {"session_cut", "ip_cut"}
          BY <4>4, CancelEffect
        <5>. QED
          BY <1>0, <3>4, <5>1
      <4>. QED
        BY <1>1, <4>1, <4>2, <4>3, <4>4, StepKinds
    <3>7. used[s] \in Nat /\ used'[s] \in Nat /\ used'[s] >= used[s] /\ Quota[t] \in Nat
      BY <1>0, <2>2
    <3>8. IsFiniteSet(B) /\ Cardinality(B) <= used'[s] /\ Cardinality(B) <= Quota[t]
      BY <3>2, <3>5, <3>6, <3>7
    <3>. QED
      BY <3>1, <3>8
  <2>4. ASSUME NEW i \in Ip
        PROVE  LET B == OfIp(i)'
               IN  IsFiniteSet(B) /\ Cardinality(B) <= ipUsed'[i] /\ Cardinality(B) <= IpQuota
    <3>. DEFINE A == OfIp(i)
                B == {q \in Request : pc'[q] \in PassedIp /\ who'[q].tier = "guest"
                                      /\ who'[q].kind = "message" /\ who'[q].ip = i}
    <3>1. OfIp(i)' = B
      BY DEF OfIp, GuestMessage
    <3>2. IsFiniteSet(A) /\ Cardinality(A) <= ipUsed[i] /\ Cardinality(A) <= IpQuota
      BY DEF AllowInv
    <3>3. \A q : q # r => (q \in A <=> q \in B)
      BY <2>1 DEF OfIp, GuestMessage
    <3>4. /\ r \in A <=> pc[r] \in PassedIp /\ GuestMessage(r) /\ who[r].ip = i
          /\ r \in B <=> pc'[r] \in PassedIp /\ who'[r].tier = "guest"
                         /\ who'[r].kind = "message" /\ who'[r].ip = i
      BY DEF OfIp
    <3>. HIDE DEF A, B
    <3>5. /\ IsFiniteSet(B) /\ Cardinality(A) \in Nat /\ Cardinality(B) \in Nat
          /\ r \in B /\ r \notin A => Cardinality(B) = Cardinality(A) + 1
          /\ ~(r \in B /\ r \notin A) => Cardinality(B) <= Cardinality(A)
      <4>1. /\ IsFiniteSet(B) /\ Cardinality(A) \in Nat /\ Cardinality(B) \in Nat
            /\ r \in A /\ r \in B => Cardinality(B) = Cardinality(A)
            /\ r \notin A /\ r \notin B => Cardinality(B) = Cardinality(A)
            /\ r \in A /\ r \notin B => Cardinality(B) = Cardinality(A) - 1
            /\ r \notin A /\ r \in B => Cardinality(B) = Cardinality(A) + 1
        BY <3>2, <3>3, CountMoves
      <4>. QED
        BY <4>1
    <3>6. r \in B /\ r \notin A => ipUsed'[i] = ipUsed[i] + 1 /\ ipUsed[i] < IpQuota
      <4>1. CASE Enters(r)
        <5>1. pc'[r] # "ready" \/ who'[r].kind # "message"
          BY <4>1 DEF Enters
        <5>2. r \notin B
          BY <1>0, <3>4, <4>1, <5>1 DEF Enters
        <5>. QED
          BY <5>2
      <4>2. CASE Stays(r)
        <5>1. r \in B /\ r \notin A => pc[r] = "ip_quota" /\ who[r].ip = i
          <6>1. r \in B => GuestMessage(r) /\ who[r].ip = i /\ pc'[r] \in PassedIp
            BY <3>4, <4>2 DEF Stays, GuestMessage
          <6>2. pc[r] = "session_quota" /\ GuestMessage(r) => pc'[r] \notin PassedIp
            BY <4>2 DEF Stays, PassedIp
          <6>3. pc[r] \in Place /\ pc[r] \in HoldsSlot
            BY <1>0, <4>2 DEF Stays
          <6>. QED
            BY <1>0, <3>4, <6>1, <6>2, <6>3
        <5>. QED
          BY <1>1, <4>2, <5>1, QuotaEffect
      <4>3. CASE GivesBack(r)
        <5>1. r \in B => r \in A
          BY <1>0, <3>4, <4>3 DEF GivesBack, GuestMessage
        <5>. QED
          BY <5>1
      <4>4. CASE SpendCancelled(r)
        <5>1. pc'[r] \in {"session_cut", "ip_cut"}
          BY <4>4, CancelEffect
        <5>. QED
          BY <1>0, <3>4, <5>1
      <4>. QED
        BY <1>1, <4>1, <4>2, <4>3, <4>4, StepKinds
    <3>7. ipUsed[i] \in Nat /\ ipUsed'[i] \in Nat /\ ipUsed'[i] >= ipUsed[i] /\ IpQuota \in Nat
      BY <1>0, <2>2
    <3>8. IsFiniteSet(B) /\ Cardinality(B) <= ipUsed'[i] /\ Cardinality(B) <= IpQuota
      BY <3>2, <3>5, <3>6, <3>7
    <3>. QED
      BY <3>1, <3>8
  <2>. QED
    BY <2>3, <2>4 DEF AllowInv
<1>2. CASE UNCHANGED <<pc, who, counts>>
  BY <1>2 DEF AllowInv, OfSession, OfIp, GuestMessage, counts
<1>. QED
  BY <1>1, <1>2 DEF Next, RequestStep, Tick, AllDone, vars

\* No more messages get in than the day allows the session at their tier, and
\* a guest's address, however the requests and the failing calls interleave.
THEOREM AllowancesHold == Spec => []AllowanceHolds
<1>1. Init => AllowInv
  <2>. SUFFICES ASSUME Init PROVE AllowInv
    OBVIOUS
  <2>1. \A r \in Request : pc[r] = "idle"
    BY DEF Init
  <2>2. (\A s, t : OfSession(s, t) = {}) /\ (\A i : OfIp(i) = {})
    BY <2>1 DEF OfSession, OfIp, Passed, PassedIp, HoldsIp, HoldsSlot
  <2>3. IsFiniteSet({}) /\ Cardinality({}) = 0
    BY FS_EmptySet
  <2>4. Quota \in [Tier -> Nat] /\ IpQuota \in Nat
    BY LimitsAreNat
  <2>5. (\A s \in Session : used[s] = 0) /\ (\A i \in Ip : ipUsed[i] = 0)
    BY DEF Init
  <2>6. ASSUME NEW s \in Session, NEW t \in Tier
        PROVE  /\ IsFiniteSet(OfSession(s, t))
               /\ Cardinality(OfSession(s, t)) <= used[s] /\ Cardinality(OfSession(s, t)) <= Quota[t]
    <3>1. OfSession(s, t) = {} /\ used[s] = 0 /\ Quota[t] \in Nat
      BY <2>2, <2>4, <2>5
    <3>. QED
      BY <2>3, <3>1
  <2>7. ASSUME NEW i \in Ip
        PROVE  /\ IsFiniteSet(OfIp(i))
               /\ Cardinality(OfIp(i)) <= ipUsed[i] /\ Cardinality(OfIp(i)) <= IpQuota
    <3>1. OfIp(i) = {} /\ ipUsed[i] = 0
      BY <2>2, <2>5
    <3>. QED
      BY <2>3, <2>4, <3>1
  <2>. QED
    BY <2>6, <2>7 DEF AllowInv
<1>2. TypeInv /\ (QuotaKinds /\ CountsInv) /\ AllowInv /\ [Next]_vars => AllowInv'
  BY AllowStep
<1>3. AllowInv => AllowanceHolds
  <2>. SUFFICES ASSUME AllowInv PROVE AllowanceHolds
    OBVIOUS
  <2>. DEFINE admitted == {r \in Request : /\ who[r].kind = "message"
                                 /\ pc[r] \in {"ready", "waiting", "sleeping", "inside", "done"}}
  <2>0. Quota \in [Tier -> Nat] /\ IpQuota \in Nat
    BY LimitsAreNat
  <2>1. ASSUME NEW s \in Session, NEW t \in Tier
        PROVE  Cardinality({r \in admitted : who[r].session = s /\ who[r].tier = t}) <= Quota[t]
    <3>. DEFINE A == {r \in admitted : who[r].session = s /\ who[r].tier = t}
    <3>1. A \subseteq OfSession(s, t)
      BY DEF OfSession, Passed, HoldsIp, HoldsSlot
    <3>2. IsFiniteSet(OfSession(s, t)) /\ Cardinality(OfSession(s, t)) <= Quota[t]
      BY DEF AllowInv
    <3>. HIDE DEF A
    <3>3. Cardinality(A) <= Cardinality(OfSession(s, t)) /\ IsFiniteSet(A)
      BY <3>1, <3>2, FS_Subset
    <3>4. Cardinality(A) \in Nat /\ Cardinality(OfSession(s, t)) \in Nat
      BY <3>2, <3>3, FS_CardinalityType
    <3>5. Cardinality(A) <= Quota[t]
      BY <2>0, <3>2, <3>3, <3>4
    <3>. QED
      BY <3>5 DEF A
  <2>2. ASSUME NEW i \in Ip
        PROVE  Cardinality({r \in admitted : who[r].ip = i /\ who[r].tier = "guest"}) <= IpQuota
    <3>. DEFINE A == {r \in admitted : who[r].ip = i /\ who[r].tier = "guest"}
    <3>1. A \subseteq OfIp(i)
      BY DEF OfIp, GuestMessage, PassedIp, Passed, HoldsIp, HoldsSlot
    <3>2. IsFiniteSet(OfIp(i)) /\ Cardinality(OfIp(i)) <= IpQuota
      BY DEF AllowInv
    <3>. HIDE DEF A
    <3>3. Cardinality(A) <= Cardinality(OfIp(i)) /\ IsFiniteSet(A)
      BY <3>1, <3>2, FS_Subset
    <3>4. Cardinality(A) \in Nat /\ Cardinality(OfIp(i)) \in Nat
      BY <3>2, <3>3, FS_CardinalityType
    <3>5. Cardinality(A) <= IpQuota
      BY <2>0, <3>2, <3>3, <3>4
    <3>. QED
      BY <3>5 DEF A
  <2>. QED
    BY <2>1, <2>2 DEF AllowanceHolds
<1>. QED
  BY <1>1, <1>2, <1>3, TypeInvariant, CountsInvariant, PTL DEF Spec

(***************************************************************************)
(* Pacing. While a session has a turn to be paced from, its cursor makes   *)
(* up for what that turn's interval still lacks; a sleeper sleeps that     *)
(* long, and has moved the cursor past its own turn.                       *)
(***************************************************************************)

CursorPaces == \A s \in Session : since[s] # None =>
  cursor[s] # None /\ gap[s] <= Longest /\ cursor[s] + since[s] >= gap[s]

SleeperPaces == \A r \in Request : pc[r] = "sleeping" =>
  /\ cursor[who[r].session] = wait[r] + Interval[who[r].tier]
  /\ since[who[r].session] # None => wait[r] + since[who[r].session] >= gap[who[r].session]

PaceInv == CursorPaces /\ SleeperPaces

\* What BurstIsPaced says of a step.
PacedStep == \A r \in Request : pc[r] # "inside" /\ pc'[r] = "inside" =>
  (since[who[r].session] # None => since[who[r].session] >= gap[who[r].session])

LEMMA PaceKeepsPacing ==
  ASSUME TypeInv, PaceInv, NEW r \in Request, Pace(r), who' = who,
         \A q \in Request \ {r} : pc'[q] = pc[q] /\ wait'[q] = wait[q],
         \A q \in Request \ {r} : pc[q] = "sleeping" => who[q].session # who[r].session
  PROVE  /\ PaceInv'
         /\ pc'[r] = "inside" /\ since[who[r].session] # None =>
              since[who[r].session] >= gap[who[r].session]
<1>. DEFINE s == who[r].session
            n == Interval[who[r].tier]
            rest == IF cursor[s] = None THEN 0 ELSE cursor[s]
<1>0. /\ s \in Session /\ n \in Nat /\ n <= Longest /\ Longest \in Nat /\ Longest' = Longest
      /\ rest \in Nat /\ None \notin Int
      /\ pc \in [Request -> Place] /\ wait \in [Request -> Nat]
      /\ cursor \in [Session -> Nat \cup {None}] /\ gap \in [Session -> Nat]
      /\ since \in [Session -> 0..Longest \cup {None}]
  BY IntervalRange, NoneIsNothingElse DEF TypeInv, TypeOK, Place, Longest
<1>1. /\ cursor' = [cursor EXCEPT ![s] = rest + n] /\ wait' = [wait EXCEPT ![r] = rest]
      /\ IF rest > 0 THEN pc' = [pc EXCEPT ![r] = "sleeping"] /\ since' = since /\ gap' = gap
         ELSE /\ pc' = [pc EXCEPT ![r] = "inside"]
              /\ since' = [since EXCEPT ![s] = 0] /\ gap' = [gap EXCEPT ![s] = n]
  BY DEF Pace, Goto, history
<1>2. since[s] # None => cursor[s] # None /\ rest = cursor[s] /\ gap[s] <= Longest /\ rest + since[s] >= gap[s]
  BY <1>0 DEF PaceInv, CursorPaces
<1>3. who[r].session = s /\ Interval[who[r].tier] = n
  OBVIOUS
<1>. HIDE DEF s, n, rest
<1>4. \A z \in Session \ {s} : cursor'[z] = cursor[z] /\ since'[z] = since[z] /\ gap'[z] = gap[z]
  BY <1>0, <1>1
<1>5. cursor'[s] = rest + n /\ wait'[r] = rest /\ cursor'[s] \in Nat
  BY <1>0, <1>1
<1>6. \/ rest > 0 /\ pc'[r] = "sleeping" /\ since'[s] = since[s] /\ gap'[s] = gap[s]
      \/ rest = 0 /\ pc'[r] = "inside" /\ since'[s] = 0 /\ gap'[s] = n
  BY <1>0, <1>1
<1>7. CursorPaces'
  <2>1. ASSUME NEW z \in Session, since'[z] # None
        PROVE  cursor'[z] # None /\ gap'[z] <= Longest /\ cursor'[z] + since'[z] >= gap'[z]
    <3>1. CASE z # s
      BY <1>4, <2>1, <3>1 DEF PaceInv, CursorPaces
    <3>2. CASE z = s
      <4>1. cursor'[s] # None
        BY <1>0, <1>5
      <4>2. CASE since'[s] = since[s] /\ gap'[s] = gap[s]
        <5>1. since[s] \in Nat /\ gap[s] \in Nat /\ rest + since[s] >= gap[s] /\ gap[s] <= Longest
          BY <1>0, <1>2, <2>1, <3>2, <4>2
        <5>2. (rest + n) + since[s] >= gap[s]
          BY <1>0, <5>1
        <5>. QED
          BY <1>5, <3>2, <4>1, <4>2, <5>1, <5>2
      <4>3. CASE rest = 0 /\ since'[s] = 0 /\ gap'[s] = n
        BY <1>0, <1>5, <3>2, <4>1, <4>3
      <4>. QED
        BY <1>6, <4>2, <4>3
    <3>. QED
      BY <3>1, <3>2
  <2>. QED
    BY <1>0, <2>1 DEF CursorPaces
<1>8. SleeperPaces'
  <2>1. ASSUME NEW q \in Request, pc'[q] = "sleeping"
        PROVE  /\ cursor'[who[q].session] = wait'[q] + Interval[who[q].tier]
               /\ since'[who[q].session] # None =>
                    wait'[q] + since'[who[q].session] >= gap'[who[q].session]
    <3>1. CASE q = r
      <4>1. since'[s] = since[s] /\ gap'[s] = gap[s]
        BY <1>6, <2>1, <3>1
      <4>. QED
        BY <1>2, <1>3, <1>5, <3>1, <4>1
    <3>2. CASE q # r
      <4>1. pc[q] = "sleeping" /\ wait'[q] = wait[q] /\ who[q].session # s /\ who[q].session \in Session
        BY <1>3, <2>1, <3>2 DEF TypeInv, TypeOK
      <4>. QED
        BY <1>4, <4>1 DEF PaceInv, SleeperPaces
    <3>. QED
      BY <3>1, <3>2
  <2>. QED
    BY <2>1 DEF SleeperPaces
<1>9. pc'[r] = "inside" /\ since[s] # None => since[s] >= gap[s]
  <2>. SUFFICES ASSUME pc'[r] = "inside", since[s] # None PROVE since[s] >= gap[s]
    OBVIOUS
  <2>1. rest = 0 /\ since[s] \in Nat /\ gap[s] \in Nat
    BY <1>0, <1>6
  <2>. QED
    BY <1>2, <2>1
<1>. QED
  BY <1>3, <1>7, <1>8, <1>9 DEF PaceInv

LEMMA PaceStep ==
  ASSUME TypeInv, CountsInv, LockInv, PaceInv, [Next]_vars
  PROVE  PaceInv' /\ PacedStep
<1>0. /\ \A q \in Request : who[q].session \in Session /\ who[q].tier \in Tier
      /\ pc \in [Request -> Place] /\ wait \in [Request -> Nat]
      /\ cursor \in [Session -> Nat \cup {None}] /\ gap \in [Session -> Nat]
      /\ since \in [Session -> 0..Longest \cup {None}]
      /\ None \notin Int /\ None \notin Request /\ Longest \in Nat /\ Longest' = Longest
      /\ \A q \in Request : Interval[who[q].tier] \in Nat /\ Interval[who[q].tier] <= Longest
      /\ lockOf \in [Session -> Request \cup {None}] /\ owner \in [Request -> Request \cup {None}]
  BY IntervalRange, NoneIsNothingElse DEF TypeInv, TypeOK, Place, Longest
<1>1. ASSUME NEW r \in Request, RequestStep(r)
      PROVE  PaceInv' /\ PacedStep
  <2>1. \A q \in Request \ {r} : pc'[q] = pc[q] /\ who'[q] = who[q] /\ wait'[q] = wait[q]
    BY <1>1, OthersKeep
  <2>2. CASE pc'[r] \notin HasLock /\ UNCHANGED <<pacing, history>>
    <3>1. \A q \in Request : pc'[q] = "sleeping" =>
            pc[q] = "sleeping" /\ who'[q] = who[q] /\ wait'[q] = wait[q]
      BY <2>1, <2>2 DEF HasLock
    <3>2. PaceInv'
      BY <1>0, <2>2, <3>1 DEF PaceInv, CursorPaces, SleeperPaces, pacing, history
    <3>. QED
      BY <2>1, <2>2, <3>2 DEF PacedStep, HasLock
  <2>3. CASE Pace(r) /\ who' = who /\ pc[r] \notin HasLock /\
             \E l \in Request : /\ owner[l] = None
                                /\ lockOf[who[r].session] \in {None, l}
    <3>1. \A q \in Request \ {r} : pc[q] = "sleeping" => who[q].session # who[r].session
      BY <1>0, <2>3 DEF LockInv, HoldersHold, HasLock
    <3>. QED
      BY <2>1, <2>3, <3>1, PaceKeepsPacing DEF PacedStep
  <2>4. CASE Wake(r)
    <3>. DEFINE s == who[r].session
                n == Interval[who[r].tier]
    <3>1. /\ pc[r] = "sleeping" /\ wait[r] = 0 /\ pc'[r] = "inside" /\ who' = who
          /\ since' = [since EXCEPT ![s] = 0] /\ gap' = [gap EXCEPT ![s] = n]
          /\ cursor' = cursor /\ wait' = wait
      BY <1>0, <2>4 DEF Wake, Goto, pacing
    <3>2. \A q \in Request \ {r} : pc[q] = "sleeping" => who[q].session # s
      BY <3>1 DEF LockInv, HoldersHold, HasLock
    <3>3. cursor[s] = n /\ n \in Nat /\ n <= Longest /\ s \in Session
      BY <1>0, <3>1 DEF PaceInv, SleeperPaces
    <3>4. since[s] # None => since[s] >= gap[s]
      BY <1>0, <3>1, <3>3 DEF PaceInv, SleeperPaces
    <3>5. who[r].session = s
      OBVIOUS
    <3>. HIDE DEF s, n
    <3>6. /\ \A z \in Session \ {s} : since'[z] = since[z] /\ gap'[z] = gap[z]
          /\ since'[s] = 0 /\ gap'[s] = n
      BY <1>0, <3>1, <3>3
    <3>7. CursorPaces'
      <4>1. ASSUME NEW z \in Session, since'[z] # None
            PROVE  cursor'[z] # None /\ gap'[z] <= Longest /\ cursor'[z] + since'[z] >= gap'[z]
        <5>1. CASE z = s
          BY <1>0, <3>1, <3>3, <3>6, <5>1
        <5>2. CASE z # s
          BY <3>1, <3>6, <4>1, <5>2 DEF PaceInv, CursorPaces
        <5>. QED
          BY <5>1, <5>2
      <4>. QED
        BY <1>0, <4>1 DEF CursorPaces
    <3>8. SleeperPaces'
      <4>1. \A q \in Request : pc'[q] = "sleeping" =>
              pc[q] = "sleeping" /\ who[q].session \in Session \ {s}
        BY <1>0, <2>1, <3>1, <3>2
      <4>. QED
        BY <3>1, <3>6, <4>1 DEF PaceInv, SleeperPaces
    <3>. QED
      BY <2>1, <3>4, <3>5, <3>7, <3>8 DEF PaceInv, PacedStep
  <2>5. CASE GivesBack(r)
    <3>. DEFINE s == who[r].session
    <3>1. /\ pc'[r] \notin HasLock /\ who' = who /\ wait' = wait /\ gap' = gap /\ s \in Session
          /\ ReleaseSlot(r) /\ pc[r] \in KeepsSlot
      BY <1>0, <2>5 DEF GivesBack, HasLock, KeepsSlot
    <3>2. \/ pending[s] <= 1 /\ cursor' = [cursor EXCEPT ![s] = None] /\ since' = [since EXCEPT ![s] = None]
          \/ cursor' = cursor /\ since' = since
      BY <1>0, <3>1 DEF ReleaseSlot
    <3>3. pending[s] <= 1 => \A q \in Request \ {r} : pc[q] = "sleeping" => who[q].session # s
      <4>1. r \in InFlight(s)
        BY <3>1 DEF InFlight
      <4>. QED
        BY <3>1, <4>1, LastIsAlone DEF InFlight, HoldsSlot, KeepsSlot
    <3>. HIDE DEF s
    <3>4. CursorPaces'
      BY <1>0, <3>1, <3>2 DEF PaceInv, CursorPaces
    <3>5. \A q \in Request : pc'[q] = "sleeping" => q # r /\ pc[q] = "sleeping"
      BY <2>1, <3>1 DEF HasLock
    <3>6. SleeperPaces'
      <4>1. CASE cursor' = cursor /\ since' = since
        BY <3>1, <3>5, <4>1 DEF PaceInv, SleeperPaces
      <4>2. CASE pending[s] <= 1 /\ cursor' = [cursor EXCEPT ![s] = None] /\ since' = [since EXCEPT ![s] = None]
        <5>1. \A q \in Request : pc'[q] = "sleeping" =>
                /\ pc[q] = "sleeping" /\ cursor'[who[q].session] = cursor[who[q].session]
                /\ since'[who[q].session] = since[who[q].session]
          BY <1>0, <3>3, <3>5, <4>2
        <5>. QED
          BY <3>1, <5>1 DEF PaceInv, SleeperPaces
      <4>. QED
        BY <3>2, <4>1, <4>2
    <3>7. PacedStep
      BY <2>1, <3>1 DEF PacedStep, HasLock
    <3>. QED
      BY <3>4, <3>6, <3>7 DEF PaceInv
  <2>6. CASE AskTurn(r)
    <3>1. CASE Pace(r)
      BY <2>3, <2>6, <3>1, AskEffect, PacePlace DEF LockFor, HasLock
    <3>2. CASE ~Pace(r)
      BY <2>2, <2>6, <3>2, AskEffect DEF HasLock
    <3>. QED
      BY <3>1, <3>2
  <2>7. CASE Resume(r)
    <3>1. /\ mine[r] \in Request /\ owner[mine[r]] = None /\ lockOf[who[r].session] = mine[r]
          /\ Pace(r) /\ who' = who /\ pc[r] \notin HasLock
      BY <2>7, ResumeEffect DEF HasLock
    <3>. QED
      BY <2>3, <3>1
  <2>8. CASE Enters(r)
    BY <2>2, <2>8 DEF Enters, HasLock
  <2>9. CASE Stays(r) /\ (SpendSession(r) \/ SpendIp(r) \/ SpendFails(r))
    <3>1. ASSUME NEW b, Refused(r, b)
          PROVE  FALSE
      BY <2>9, <3>1 DEF Refused, Goto, Stays, HoldsSlot, TypeInv, TypeOK
    <3>2. UNCHANGED <<pacing, history>> /\ pc'[r] \in {"ready", "ip_quota"}
      BY <1>0, <2>9, <3>1 DEF SpendSession, SpendIp, SpendFails, Goto
    <3>. QED
      BY <2>2, <3>2 DEF HasLock
  <2>10. Stays(r) => ~Reserve(r) /\ ~SpendCancelled(r) /\ ~Leave(r) /\ ~CutShort(r)
    BY CancelEffect DEF Reserve, Leave, CutShort, EndTurn, Goto, Stays, HoldsSlot, TypeInv, TypeOK
  <2>11. CASE SpendCancelled(r)
    BY <2>2, <2>11, CancelEffect DEF HasLock
  <2>. QED
    BY <1>1, <2>4, <2>5, <2>6, <2>7, <2>8, <2>9, <2>10, <2>11, StepKinds DEF RequestStep, Advance
<1>2. CASE Tick
  <2>1. /\ pc' = pc /\ who' = who /\ gap' = gap
        /\ \A r \in Request : pc[r] = "sleeping" => wait[r] > 0
        /\ \A r \in Request : wait'[r] = IF wait[r] > 0 THEN wait[r] - 1 ELSE 0
        /\ \A s \in Session : cursor'[s] = IF cursor[s] \in {None, 0} THEN cursor[s] ELSE cursor[s] - 1
        /\ \A s \in Session : since'[s] = IF since[s] \in {None, Longest} THEN since[s] ELSE since[s] + 1
    BY <1>2 DEF Tick
  <2>2. CursorPaces'
    <3>1. ASSUME NEW s \in Session, since'[s] # None
          PROVE  cursor'[s] # None /\ gap[s] <= Longest /\ cursor'[s] + since'[s] >= gap[s]
      <4>1. /\ since[s] # None /\ cursor[s] # None /\ gap[s] <= Longest
            /\ cursor[s] + since[s] >= gap[s]
        BY <2>1, <3>1 DEF PaceInv, CursorPaces
      <4>2. since[s] \in Nat /\ cursor[s] \in Nat /\ gap[s] \in Nat
        BY <1>0, <4>1
      <4>3. cursor'[s] \in Nat /\ cursor'[s] >= cursor[s] - 1 /\ (cursor[s] = 0 => cursor'[s] = 0)
        <5>1. cursor'[s] = IF cursor[s] = 0 THEN cursor[s] ELSE cursor[s] - 1
          BY <2>1, <4>1
        <5>. QED
          BY <4>2, <5>1
      <4>4. \/ since[s] = Longest /\ since'[s] = Longest
            \/ since'[s] = since[s] + 1
        BY <2>1, <4>1
      <4>5. cursor'[s] # None /\ cursor'[s] + since'[s] >= gap[s]
        BY <1>0, <4>1, <4>2, <4>3, <4>4
      <4>. QED
        BY <4>1, <4>5
    <3>. QED
      BY <1>0, <2>1, <3>1 DEF CursorPaces
  <2>3. SleeperPaces'
    <3>1. ASSUME NEW r \in Request, pc[r] = "sleeping"
          PROVE  /\ cursor'[who[r].session] = wait'[r] + Interval[who[r].tier]
                 /\ since'[who[r].session] # None =>
                      wait'[r] + since'[who[r].session] >= gap[who[r].session]
      <4>. DEFINE s == who[r].session
                  n == Interval[who[r].tier]
      <4>1. /\ s \in Session /\ n \in Nat /\ wait[r] \in Nat /\ wait[r] > 0 /\ cursor[s] = wait[r] + n
            /\ since[s] # None => wait[r] + since[s] >= gap[s]
            /\ since[s] # None => gap[s] <= Longest
        BY <1>0, <2>1, <3>1 DEF PaceInv, SleeperPaces, CursorPaces
      <4>. HIDE DEF s, n
      <4>2. wait'[r] = wait[r] - 1 /\ cursor'[s] = (wait[r] - 1) + n
        BY <1>0, <2>1, <4>1
      <4>3. ASSUME since'[s] # None
            PROVE  wait'[r] + since'[s] >= gap[s]
        <5>1. since[s] # None /\ since[s] \in Nat /\ gap[s] \in Nat
          BY <1>0, <2>1, <4>1, <4>3
        <5>2. \/ since[s] = Longest /\ since'[s] = Longest
              \/ since'[s] = since[s] + 1
          BY <2>1, <4>1, <5>1
        <5>. QED
          BY <1>0, <4>1, <4>2, <5>1, <5>2
      <4>4. cursor'[s] = wait'[r] + n
        BY <4>2
      <4>. QED
        BY <4>3, <4>4 DEF s, n
    <3>. QED
      BY <2>1, <3>1 DEF SleeperPaces
  <2>. QED
    BY <2>1, <2>2, <2>3 DEF PaceInv, PacedStep
<1>3. CASE UNCHANGED vars
  BY <1>3 DEF PaceInv, CursorPaces, SleeperPaces, PacedStep, Longest, vars, pacing, history
<1>. QED
  BY <1>1, <1>2, <1>3 DEF Next, RequestStep, AllDone

\* In a burst a turn begins at least the previous turn's interval after that
\* one began, also when turns between them were cut short.
THEOREM BurstsArePaced == Spec => BurstIsPaced
<1>1. Init => PaceInv
  BY DEF Init, PaceInv, CursorPaces, SleeperPaces
<1>2. TypeInv /\ (QuotaKinds /\ CountsInv) /\ LockInv /\ PaceInv /\ [Next]_vars => PaceInv'
  BY PaceStep
<1>3. TypeInv /\ (QuotaKinds /\ CountsInv) /\ LockInv /\ PaceInv /\ [Next]_vars =>
        [\A r \in Request : pc[r] # "inside" /\ pc'[r] = "inside" =>
           LET s == who[r].session IN since[s] # None => since[s] >= gap[s]]_vars
  BY PaceStep DEF PacedStep
<1>. QED
  BY <1>1, <1>2, <1>3, TypeInvariant, CountsInvariant, LockInvariant, PTL DEF Spec, BurstIsPaced

(***************************************************************************)
(* The lock implements the queue of TurnQueue.                             *)
(***************************************************************************)

LineAt(l)    == (IF owner[l] = None THEN <<>> ELSE <<owner[l]>>) \o waiters[l]
LineAfter(l) == (IF owner'[l] = None THEN <<>> ELSE <<owner'[l]>>) \o waiters'[l]
Line         == [s \in Session |-> IF lockOf[s] = None THEN <<>> ELSE LineAt(lockOf[s])]
Inside       == {r \in Request : pc[r] = "inside"}

\* The abstract module's view of the community operators.
LEMMA QueueOperators ==
  ASSUME NEW q, NEW r
  PROVE  (Queue!Contains(q, r) <=> Contains(q, r)) /\ Queue!RemoveFirst(q, r) = RemoveFirst(q, r)
<1>1. Queue!Contains(q, r) <=> Contains(q, r)
  BY DEF Queue!Contains, Contains
<1>2. Queue!SelectInSeq(q, LAMBDA v : v = r) = SelectInSeq(q, LAMBDA v : v = r)
  BY DEF Queue!SelectInSeq, SelectInSeq, Queue!Min, Min
<1>3. Queue!RemoveFirst(q, r) = RemoveFirst(q, r)
  BY <1>2 DEF Queue!RemoveFirst, RemoveFirst, Queue!RemoveAt, RemoveAt
<1>. QED
  BY <1>1, <1>3

LEMMA QueueActions ==
  ASSUME NEW s \in Session, NEW r \in Request
  PROVE  /\ /\ \A t \in Session : ~Contains(Line[t], r)
            /\ Line' = [Line EXCEPT ![s] = Append(@, r)]
            /\ \/ Inside' = Inside
               \/ Line[s] = <<>> /\ Inside' = Inside \cup {r}
            => Queue!Next
         /\ Line[s] # <<>> /\ Head(Line[s]) = r /\ Inside' = Inside \cup {r} /\ Line' = Line => Queue!Next
         /\ /\ Contains(Line[s], r)
            /\ Line' = [Line EXCEPT ![s] = RemoveFirst(@, r)] /\ Inside' = Inside \ {r}
            => Queue!Next
<1>1. ASSUME \A t \in Session : ~Contains(Line[t], r),
             Line' = [Line EXCEPT ![s] = Append(@, r)],
             Inside' = Inside \/ (Line[s] = <<>> /\ Inside' = Inside \cup {r})
      PROVE  Queue!Next
  <2>1. Queue!Join(s, r)
    BY <1>1, QueueOperators DEF Queue!Join, Line, LineAt, Inside
  <2>. QED
    BY <2>1 DEF Queue!Next
<1>2. ASSUME Line[s] # <<>>, Head(Line[s]) = r, Inside' = Inside \cup {r}, Line' = Line
      PROVE  Queue!Next
  <2>1. Queue!Begin(s, r)
    BY <1>2 DEF Queue!Begin, Line, LineAt, Inside
  <2>. QED
    BY <2>1 DEF Queue!Next
<1>3. ASSUME Contains(Line[s], r),
             Line' = [Line EXCEPT ![s] = RemoveFirst(@, r)], Inside' = Inside \ {r}
      PROVE  Queue!Next
  <2>1. Queue!Leave(s, r)
    BY <1>3, QueueOperators DEF Queue!Leave, Line, LineAt, Inside
  <2>. QED
    BY <2>1 DEF Queue!Next
<1>. QED
  BY <1>1, <1>2, <1>3

LEMMA LineType ==
  ASSUME TypeInv, NEW l \in Request
  PROVE  LineAt(l) \in Seq(Request)
BY DEF TypeInv, TypeOK, LineAt

\* Sessions have locks of their own.
LEMMA LinesApart ==
  ASSUME TypeInv, LockInv, NEW s \in Session, NEW t \in Session, s # t, lockOf[t] # None
  PROVE  lockOf[t] \in Request /\ lockOf[t] # lockOf[s]
BY NoneIsNothingElse DEF TypeInv, TypeOK, LockInv, LocksNamed

LEMMA AskRefines ==
  ASSUME TypeInv, LockInv, NEW r \in Request, AskTurn(r)
  PROVE  Queue!Next
<1>. DEFINE l == LockFor(r)
            s == who[r].session
<1>0. /\ owner \in [Request -> Request \cup {None}] /\ waiters \in [Request -> Seq(Request)]
      /\ lockOf \in [Session -> Request \cup {None}] /\ None \notin Request
      /\ pc \in [Request -> Place] /\ s \in Session
  BY NoneIsNothingElse DEF TypeInv, TypeOK, Place
<1>1. \A q \in Request \ {r} : pc'[q] = pc[q]
  BY OthersKeep DEF RequestStep, Advance
<1>2. /\ l \in Request /\ pc[r] \notin Asked /\ pc[r] = "ready"
      /\ lockOf' = [lockOf EXCEPT ![s] = l]
      /\ lockOf[s] \in {l, None} /\ (lockOf[s] = None => l = r)
  BY <1>0, AskEffect DEF Asked, LockFor
<1>3. /\ owner[r] = None /\ waiters[r] = <<>>
      /\ \A z \in Session : lockOf[z] # r
      /\ \A k \in Request : owner[k] # r /\ ~Contains(waiters[k], r)
  BY <1>2, NewcomerIsFree
<1>4. \/ /\ owner[l] = None /\ waiters[l] = <<>>
         /\ owner' = [owner EXCEPT ![l] = r] /\ waiters' = waiters /\ pc'[r] \in HasLock
      \/ /\ ~LockIsFree(l) /\ lockOf[s] = l
         /\ waiters' = [waiters EXCEPT ![l] = Append(@, r)]
         /\ owner' = owner /\ pc'[r] = "waiting"
  BY AskEffect
<1>. HIDE DEF l, s
<1>5. \A t \in Session : ~Contains(Line[t], r)
  <2>1. ASSUME NEW t \in Session, Contains(Line[t], r)
        PROVE  FALSE
    <3>1. CASE lockOf[t] = None
      BY <2>1, <3>1 DEF Line, Contains
    <3>2. CASE lockOf[t] # None
      <4>. DEFINE k == lockOf[t]
                  w == waiters[k]
      <4>1. k \in Request /\ w \in Seq(Request) /\ Line[t] = LineAt(k)
        BY <1>0, <3>2 DEF Line, LineAt, LineAfter
      <4>2. owner[k] # r /\ ~Contains(w, r)
        BY <1>3, <4>1
      <4>. HIDE DEF w
      <4>3. PICK n \in 1..Len(LineAt(k)) : LineAt(k)[n] = r
        BY <2>1, <4>1 DEF Contains
      <4>4. CASE owner[k] = None
        <5>1. LineAt(k) = w
          BY <4>1, <4>4 DEF LineAt, w
        <5>. QED
          BY <4>2, <4>3, <5>1 DEF Contains
      <4>5. CASE owner[k] # None
        <5>1. LineAt(k) = <<owner[k]>> \o w
          BY <4>5 DEF LineAt, w
        <5>2. \/ n = 1 /\ LineAt(k)[n] = owner[k]
              \/ n - 1 \in 1..Len(w) /\ LineAt(k)[n] = w[n - 1]
          BY <4>1, <4>3, <5>1
        <5>. QED
          BY <4>2, <4>3, <5>2 DEF Contains
      <4>. QED
        BY <4>4, <4>5
    <3>. QED
      BY <3>1, <3>2
  <2>. QED
    BY <2>1
<1>6. \A t \in Session \ {s} : Line'[t] = Line[t]
  <2>1. ASSUME NEW t \in Session \ {s}
        PROVE  Line'[t] = Line[t]
    <3>1. lockOf'[t] = lockOf[t]
      BY <1>0, <1>2
    <3>2. lockOf[t] # None => lockOf[t] \in Request /\ lockOf[t] # l
      BY <1>0, <1>2, <1>3, LinesApart DEF s
    <3>3. lockOf[t] # None => owner'[lockOf[t]] = owner[lockOf[t]] /\ waiters'[lockOf[t]] = waiters[lockOf[t]]
      BY <1>0, <1>2, <1>4, <3>2
    <3>. QED
      BY <3>1, <3>3 DEF Line, LineAt, LineAfter
  <2>. QED
    BY <2>1
<1>7. s \in Session /\ Line = [t \in Session |-> Line[t]] /\ Line' = [t \in Session |-> Line'[t]]
  BY <1>0 DEF Line, s
<1>8. lockOf'[s] = l /\ Line'[s] = LineAfter(l)
  <2>1. lockOf'[s] = l
    BY <1>0, <1>2, <1>7
  <2>. QED
    BY <1>0, <1>2, <1>7, <2>1 DEF Line, LineAt, LineAfter
<1>9. CASE /\ owner[l] = None /\ waiters[l] = <<>>
           /\ owner' = [owner EXCEPT ![l] = r] /\ waiters' = waiters /\ pc'[r] \in HasLock
  <2>1. Line[s] = <<>>
    BY <1>0, <1>2, <1>7, <1>9 DEF Line, LineAt, LineAfter
  <2>2. Line'[s] = <<r>>
    BY <1>0, <1>2, <1>8, <1>9 DEF LineAt, LineAfter
  <2>3. Line' = [Line EXCEPT ![s] = Append(@, r)]
    <3>1. Append(Line[s], r) = <<r>>
      BY <2>1
    <3>. QED
      BY <1>6, <1>7, <2>2, <3>1
  <2>4. Inside' = Inside \/ Inside' = Inside \cup {r}
    BY <1>1, <1>2, <1>9 DEF Inside, HasLock
  <2>. QED
    BY <1>5, <1>7, <2>1, <2>3, <2>4, QueueActions
<1>10. CASE /\ lockOf[s] = l /\ waiters' = [waiters EXCEPT ![l] = Append(@, r)]
            /\ owner' = owner /\ pc'[r] = "waiting"
  <2>1. Line[s] = LineAt(l)
    BY <1>0, <1>2, <1>7, <1>10 DEF Line, LineAt, LineAfter
  <2>2. LineAfter(l) = Append(LineAt(l), r)
    <3>. DEFINE h == IF owner[l] = None THEN <<>> ELSE <<owner[l]>>
                w == waiters[l]
    <3>1. h \in Seq(Request) /\ w \in Seq(Request)
      BY <1>0, <1>2
    <3>2. LineAt(l) = h \o w
      BY DEF LineAt, LineAfter
    <3>3. LineAfter(l) = h \o Append(w, r)
      BY <1>0, <1>2, <1>10 DEF LineAt, LineAfter
    <3>. HIDE DEF h, w
    <3>4. h \o Append(w, r) = Append(h \o w, r)
      BY <3>1
    <3>. QED
      BY <3>2, <3>3, <3>4
  <2>3. Line' = [Line EXCEPT ![s] = Append(@, r)]
    BY <1>6, <1>7, <1>8, <2>1, <2>2
  <2>4. Inside' = Inside
    BY <1>1, <1>2, <1>10 DEF Inside
  <2>. QED
    BY <1>5, <1>7, <2>3, <2>4, QueueActions
<1>. QED
  BY <1>4, <1>9, <1>10

LEMMA ResumeRefines ==
  ASSUME TypeInv, LockInv, NEW r \in Request, Resume(r) \/ Wake(r)
  PROVE  Queue!Next \/ (Line' = Line /\ Inside' = Inside)
<1>. DEFINE l == mine[r]
            s == who[r].session
<1>0. /\ owner \in [Request -> Request \cup {None}] /\ waiters \in [Request -> Seq(Request)]
      /\ lockOf \in [Session -> Request \cup {None}] /\ None \notin Request
      /\ pc \in [Request -> Place] /\ s \in Session
  BY NoneIsNothingElse DEF TypeInv, TypeOK, Place
<1>1. \A q \in Request \ {r} : pc'[q] = pc[q]
  BY OthersKeep DEF RequestStep, Advance
<1>2. /\ l \in Request /\ lockOf[s] = l /\ lockOf' = lockOf
      /\ pc[r] # "inside" /\ pc'[r] \in {"sleeping", "inside"}
      /\ \E q \in Seq(Request) : LineAt(l) = <<r>> \o q
      /\ \A k \in Request : LineAfter(k) = LineAt(k)
  <2>1. CASE Resume(r)
    <3>1. /\ l \in Request /\ lockOf[s] = l /\ lockOf' = lockOf
          /\ pc[r] # "inside" /\ pc'[r] \in {"sleeping", "inside"}
          /\ owner[l] = None /\ owner' = [owner EXCEPT ![l] = r]
          /\ waiters' = [waiters EXCEPT ![l] = Tail(@)]
          /\ waiters[l] = <<r>> \o Tail(waiters[l]) /\ waiters[l] # <<>>
      BY <2>1, ResumeEffect DEF HasLock
    <3>. HIDE DEF l, s
    <3>2. Tail(waiters[l]) \in Seq(Request)
      BY <1>0, <3>1
    <3>3. LineAt(l) = waiters[l]
      BY <1>0, <3>1 DEF LineAt, LineAfter
    <3>4. LineAfter(l) = <<r>> \o Tail(waiters[l])
      <4>1. owner'[l] = r /\ waiters'[l] = Tail(waiters[l]) /\ r # None
        BY <1>0, <3>1
      <4>. QED
        BY <4>1 DEF LineAfter
    <3>5. \A k \in Request \ {l} : LineAfter(k) = LineAt(k)
      BY <1>0, <3>1 DEF LineAt, LineAfter
    <3>. QED
      BY <3>1, <3>2, <3>3, <3>4, <3>5
  <2>2. CASE Wake(r)
    <3>1. UNCHANGED lock /\ pc[r] = "sleeping" /\ pc'[r] = "inside"
      BY <1>0, <2>2 DEF Wake, Goto
    <3>2. l \in Request /\ lockOf[s] = l /\ owner[l] = r
      BY <3>1 DEF LockInv, HoldersHold, HasLock
    <3>3. LineAt(l) = <<r>> \o waiters[l] /\ waiters[l] \in Seq(Request)
      BY <1>0, <3>2 DEF LineAt, LineAfter
    <3>. QED
      BY <3>1, <3>2, <3>3 DEF lock, LineAt, LineAfter
  <2>. QED
    BY <2>1, <2>2
<1>. HIDE DEF l, s
<1>3. Line' = Line
  <2>1. \A t \in Session : lockOf[t] # None => lockOf[t] \in Request
    BY <1>0
  <2>. QED
    BY <1>2, <2>1 DEF Line, LineAt, LineAfter
<1>4. s \in Session /\ Line[s] # <<>> /\ Head(Line[s]) = r
  <2>1. s \in Session /\ Line[s] = LineAt(l)
    BY <1>0, <1>2 DEF Line, s
  <2>. QED
    BY <1>2, <2>1
<1>5. Inside' = Inside \/ Inside' = Inside \cup {r}
  BY <1>1, <1>2 DEF Inside
<1>. QED
  BY <1>3, <1>4, <1>5, QueueActions

\* A lock that is dropped with its session had nobody left in line.
LEMMA DroppedLine ==
  ASSUME TypeInv, CountsInv, LockInv, NEW r \in Request, GivesBack(r), NEW s \in Session
  PROVE  lockOf[s] # None =>
           \/ lockOf'[s] = lockOf[s]
           \/ lockOf'[s] = None /\ LineAfter(lockOf[s]) = <<>>
<1>. SUFFICES ASSUME lockOf[s] # None, lockOf'[s] # lockOf[s]
              PROVE  lockOf'[s] = None /\ LineAfter(lockOf[s]) = <<>>
  OBVIOUS
<1>0. waiters' \in [Request -> Seq(Request)] /\ lockOf[s] \in Request
  <2>1. lockOf[s] \in Request
    BY DEF TypeInv, TypeOK
  <2>2. waiters' \in [Request -> Seq(Request)]
    BY LeaveLockType DEF GivesBack, Refused, EndTurn, TypeInv, TypeOK
  <2>. QED
    BY <2>1, <2>2
<1>1. /\ lockOf'[s] = None /\ owner'[lockOf[s]] = None
      /\ \A q \in Request : pc[q] \in KeepsSlot /\ who[q].session = s => q = r
  BY DropEffect
<1>2. waiters'[lockOf[s]] = <<>>
  <2>. SUFFICES ASSUME waiters'[lockOf[s]] # <<>> PROVE FALSE
    OBVIOUS
  <2>. DEFINE x == waiters'[lockOf[s]][1]
  <2>1. Contains(waiters'[lockOf[s]], x)
    <3>1. 1 \in 1..Len(waiters'[lockOf[s]])
      BY <1>0
    <3>. QED
      BY <3>1 DEF Contains
  <2>. HIDE DEF x
  <2>2. Contains(waiters[lockOf[s]], x) /\ x # r
    BY <1>0, <2>1, LeaveEffect
  <2>3. x \in Request /\ pc[x] = "waiting" /\ mine[x] = lockOf[s]
    BY <1>0, <2>2 DEF LockInv, QueuesWait
  <2>4. lockOf[who[x].session] = lockOf[s] /\ who[x].session \in Session
    BY <2>3 DEF LockInv, WaitersWait, TypeInv, TypeOK
  <2>5. who[x].session = s
    BY <2>4, LinesApart
  <2>. QED
    BY <1>1, <2>2, <2>3, <2>5 DEF HoldsSlot, KeepsSlot
<1>. QED
  BY <1>1, <1>2 DEF LineAt, LineAfter

LEMMA LeaveRefines ==
  ASSUME TypeInv, CountsInv, LockInv, NEW r \in Request, GivesBack(r),
         \A q \in Request \ {r} : pc'[q] = pc[q]
  PROVE  Queue!Next \/ (Line' = Line /\ Inside' = Inside)
<1>. DEFINE l == mine[r]
            s == who[r].session
<1>0. /\ owner \in [Request -> Request \cup {None}] /\ waiters \in [Request -> Seq(Request)]
      /\ lockOf \in [Session -> Request \cup {None}] /\ None \notin Request
      /\ pc \in [Request -> Place] /\ s \in Session
  BY NoneIsNothingElse DEF TypeInv, TypeOK, Place
<1>1. \A t \in Session : lockOf[t] = None => lockOf'[t] = None
  BY <1>0, DropEffect
<1>2. \A t \in Session : Line'[t] = IF lockOf[t] = None THEN <<>> ELSE LineAfter(lockOf[t])
  BY <1>1, DroppedLine DEF Line, LineAt, LineAfter
<1>3. Inside' = Inside \ {r}
  BY DEF Inside, GivesBack
<1>4. CASE pc[r] \notin HasLock /\ pc[r] # "waiting"
  <2>1. UNCHANGED <<owner, waiters>> /\ r \notin Inside
    BY <1>4 DEF GivesBack, Refused, EndTurn, LeaveLock, Inside, HasLock
  <2>2. Line' = Line
    BY <1>2, <2>1 DEF Line, LineAt, LineAfter
  <2>. QED
    BY <1>3, <2>1, <2>2
<1>5. CASE pc[r] \in HasLock \/ pc[r] = "waiting"
  <2>1. l \in Request /\ lockOf[s] = l /\ UNCHANGED <<who, mine>>
    BY <1>5 DEF LockInv, HoldersHold, WaitersWait, GivesBack
  <2>2. /\ pc[r] \in HasLock => owner' = [owner EXCEPT ![l] = None] /\ waiters' = waiters /\ owner[l] = r
        /\ pc[r] = "waiting" => /\ owner' = owner /\ Contains(waiters[l], r)
                                /\ waiters' = [waiters EXCEPT ![l] = RemoveFirst(@, r)]
                                /\ owner[l] # r
    <3>1. EndTurn(r)
      BY <1>5 DEF GivesBack, HasLock
    <3>2. ASSUME pc[r] \in HasLock
          PROVE  owner' = [owner EXCEPT ![l] = None] /\ waiters' = waiters /\ owner[l] = r
      BY <3>1, <3>2 DEF EndTurn, LeaveLock, LockInv, HoldersHold, HasLock
    <3>3. ASSUME pc[r] = "waiting"
          PROVE  /\ owner' = owner /\ Contains(waiters[l], r)
                 /\ waiters' = [waiters EXCEPT ![l] = RemoveFirst(@, r)] /\ owner[l] # r
      <4>1. owner' = owner /\ waiters' = [waiters EXCEPT ![l] = RemoveFirst(@, r)]
        BY <3>1, <3>3 DEF EndTurn, LeaveLock, HasLock
      <4>2. Contains(waiters[l], r)
        BY <3>3 DEF LockInv, WaitersWait
      <4>3. owner[l] # r
        <5>1. owner[l] # None => pc[owner[l]] \in HasLock
          BY <2>1 DEF LockInv, OwnersHold
        <5>. QED
          BY <1>0, <3>3, <5>1 DEF HasLock
      <4>. QED
        BY <4>1, <4>2, <4>3
    <3>. QED
      BY <3>2, <3>3
  <2>3. s \in Session /\ s = who[r].session
    BY <1>0
  <2>. HIDE DEF l, s
  <2>4. Line[s] = LineAt(l) /\ Line'[s] = LineAfter(l)
    BY <1>0, <1>2, <2>1, <2>3 DEF Line, LineAt, LineAfter
  <2>5. Contains(LineAt(l), r) /\ LineAfter(l) = RemoveFirst(LineAt(l), r)
    <3>. DEFINE w == waiters[l]
    <3>0. w \in Seq(Request) /\ r \in Request
      BY <1>0, <2>1
    <3>1. CASE pc[r] \in HasLock
      <4>1. LineAt(l) = <<r>> \o w
        BY <1>0, <2>2, <3>1 DEF LineAt, LineAfter
      <4>2. LineAfter(l) = w
        BY <1>0, <2>1, <2>2, <3>0, <3>1 DEF LineAt, LineAfter
      <4>. HIDE DEF w
      <4>3. Contains(<<r>> \o w, r)
        <5>1. 1 \in 1..Len(<<r>> \o w) /\ (<<r>> \o w)[1] = r
          BY <3>0
        <5>. QED
          BY <5>1 DEF Contains
      <4>4. RemoveFirst(<<r>> \o w, r) = w
        BY <3>0, RemoveHead
      <4>. QED
        BY <4>1, <4>2, <4>3, <4>4
    <3>2. CASE pc[r] = "waiting"
      <4>1. waiters'[l] = RemoveFirst(w, r) /\ owner' = owner /\ Contains(w, r) /\ owner[l] # r
        BY <1>0, <2>1, <2>2, <3>2
      <4>2. RemoveFirst(w, r) \in Seq(Request)
        BY <3>0, RemoveFirstType
      <4>3. CASE owner[l] = None
        <5>1. LineAt(l) = w
          BY <3>0, <4>3 DEF LineAt, LineAfter
        <5>2. LineAfter(l) = RemoveFirst(w, r)
          BY <4>1, <4>2, <4>3 DEF LineAt, LineAfter
        <5>. QED
          BY <4>1, <5>1, <5>2
      <4>4. CASE owner[l] # None
        <5>1. LineAt(l) = <<owner[l]>> \o w
          BY <4>4 DEF LineAt, LineAfter
        <5>2. LineAfter(l) = <<owner[l]>> \o RemoveFirst(w, r)
          BY <4>1, <4>4 DEF LineAt, LineAfter
        <5>3. owner[l] \in Request
          BY <1>0, <2>1, <4>4
        <5>. HIDE DEF w
        <5>4. RemoveFirst(<<owner[l]>> \o w, r) = <<owner[l]>> \o RemoveFirst(w, r)
          BY <3>0, <4>1, <5>3, RemoveBehind
        <5>5. Contains(<<owner[l]>> \o w, r)
          <6>1. PICK n \in 1..Len(w) : w[n] = r
            BY <4>1 DEF Contains
          <6>2. n + 1 \in 1..Len(<<owner[l]>> \o w) /\ (<<owner[l]>> \o w)[n + 1] = r
            BY <3>0, <5>3, <6>1
          <6>. QED
            BY <6>2 DEF Contains
        <5>. QED
          BY <5>1, <5>2, <5>4, <5>5
      <4>. QED
        BY <4>3, <4>4
    <3>. QED
      BY <1>5, <3>1, <3>2
  <2>6. \A t \in Session \ {s} : Line'[t] = Line[t]
    <3>1. ASSUME NEW t \in Session \ {s}, lockOf[t] # None
          PROVE  LineAfter(lockOf[t]) = LineAt(lockOf[t])
      <4>1. lockOf[t] \in Request /\ lockOf[t] # l
        BY <2>1, <2>3, <3>1, LinesApart
      <4>2. lockOf[t]' \in {lockOf[t], None}
        BY <1>0, DropEffect
      <4>3. owner'[lockOf[t]] = owner[lockOf[t]] /\ waiters'[lockOf[t]] = waiters[lockOf[t]]
        BY <1>0, <1>5, <2>1, <2>2, <4>1
      <4>. QED
        BY <4>3 DEF LineAt, LineAfter
    <3>2. \A t \in Session : Line[t] = IF lockOf[t] = None THEN <<>> ELSE LineAt(lockOf[t])
      BY DEF Line
    <3>. QED
      BY <1>2, <3>1, <3>2
  <2>7. Line' = [Line EXCEPT ![s] = RemoveFirst(@, r)]
    <3>1. Line = [t \in Session |-> Line[t]] /\ Line' = [t \in Session |-> Line'[t]]
      BY DEF Line, LineAt, LineAfter
    <3>. QED
      BY <2>3, <2>4, <2>5, <2>6, <3>1
  <2>. QED
    BY <1>3, <2>3, <2>4, <2>5, <2>7, QueueActions
<1>. QED
  BY <1>4, <1>5

LEMMA QueueStep ==
  ASSUME TypeInv, CountsInv, LockInv, [Next]_vars
  PROVE  Queue!Next \/ (Line' = Line /\ Inside' = Inside)
<1>1. ASSUME NEW r \in Request, RequestStep(r)
      PROVE  Queue!Next \/ (Line' = Line /\ Inside' = Inside)
  <2>1. \A q \in Request \ {r} : pc'[q] = pc[q]
    BY <1>1, OthersKeep
  <2>2. CASE GivesBack(r)
    BY <2>1, <2>2, LeaveRefines
  <2>3. CASE AskTurn(r)
    BY <2>3, AskRefines
  <2>4. CASE Resume(r) \/ Wake(r)
    BY <2>4, ResumeRefines
  <2>5. CASE Enters(r)
    <3>1. UNCHANGED lock /\ pc[r] # "inside" /\ pc'[r] # "inside"
      BY <2>5 DEF Enters
    <3>. QED
      BY <2>1, <3>1 DEF Line, LineAt, Inside, lock
  <2>6. CASE Stays(r) /\ (SpendSession(r) \/ SpendIp(r) \/ SpendFails(r))
    <3>1. ASSUME NEW b, Refused(r, b)
          PROVE  FALSE
      BY <2>6, <3>1 DEF Refused, Goto, Stays, HoldsSlot, TypeInv, TypeOK
    <3>2. UNCHANGED lock /\ pc[r] # "inside" /\ pc'[r] # "inside"
      BY <2>6, <3>1 DEF SpendSession, SpendIp, SpendFails, Goto, TypeInv, TypeOK
    <3>. QED
      BY <2>1, <3>2 DEF Line, LineAt, Inside, lock
  <2>7. Stays(r) => ~Reserve(r) /\ ~SpendCancelled(r) /\ ~Leave(r) /\ ~CutShort(r)
    BY CancelEffect DEF Reserve, Leave, CutShort, EndTurn, Goto, Stays, HoldsSlot, TypeInv, TypeOK
  <2>8. CASE SpendCancelled(r)
    <3>1. UNCHANGED lock /\ pc[r] # "inside" /\ pc'[r] # "inside"
      BY <2>8, CancelEffect
    <3>. QED
      BY <2>1, <3>1 DEF Line, LineAt, Inside, lock
  <2>. QED
    BY <1>1, <2>2, <2>3, <2>4, <2>5, <2>6, <2>7, <2>8, StepKinds DEF RequestStep, Advance
<1>2. CASE UNCHANGED <<pc, lock>>
  BY <1>2 DEF Line, LineAt, Inside, lock
<1>. QED
  BY <1>1, <1>2 DEF Next, RequestStep, Tick, AllDone, vars

\* The lock, its waiters and the pacing implement a queue: a session's turns
\* run one at a time and in the order in which they asked, each from when it
\* begins to when it leaves or gives up.
THEOREM LockImplementsQueue == Spec => ImplementsQueue
<1>1. Init => Queue!Init
  BY DEF Init, Queue!Init
<1>2. TypeInv /\ (QuotaKinds /\ CountsInv) /\ LockInv /\ [Next]_vars =>
        [Queue!Next]_<<[s \in Session |->
                          IF lockOf[s] = None THEN <<>>
                          ELSE LET l == lockOf[s] IN
                               (IF owner[l] = None THEN <<>> ELSE <<owner[l]>>) \o waiters[l]],
                       {r \in Request : pc[r] = "inside"}>>
  BY QueueStep DEF Line, LineAt, Inside
<1>. QED
  BY <1>1, <1>2, TypeInvariant, CountsInvariant, LockInvariant, PTL
     DEF Spec, ImplementsQueue, Queue!Spec
=============================================================================
