---------------------------- MODULE RateControl ----------------------------
(***************************************************************************)
(* The per-turn limits of app/services/rate_control_service.py in one      *)
(* worker process, as handle_chat_turn and handle_continue_turn use them:  *)
(* in-flight slots of a session and of an IP, the day's allowance in the   *)
(* database, and the lock and pacing cursor behind turn().                 *)
(*                                                                         *)
(* The process is single-threaded: a step is what runs between two awaits. *)
(* Times are relative (seconds from now), so the clock needs no bound.     *)
(***************************************************************************)
EXTENDS Integers, Sequences, FiniteSets, SequencesExt

CONSTANTS
  Request,    \* the requests the worker serves
  Session,    \* signed session ids
  Ip,         \* client addresses
  None,       \* an absent dictionary entry, or nobody
  Interval,   \* tier -> _INTERVAL_SECONDS (guest 3.0, invite 1.5)
  Cap,        \* tier -> _MAX_PENDING_PER_SESSION (guest 2, invite 5)
  IpCap,      \* _MAX_PENDING_PER_IP (3)
  Quota,      \* tier -> _DAILY_QUOTA_PER_SESSION (guest 60, invite 200)
  IpQuota,    \* _DAILY_QUOTA_PER_IP (300)
  MaxFault    \* bound: failed database calls and requests cut short

Tier == {"guest", "invite"}

ASSUME LimitsAreNat ==
  /\ Interval \in [Tier -> Nat] /\ Cap \in [Tier -> Nat] /\ Quota \in [Tier -> Nat]
  /\ IpCap \in Nat /\ IpQuota \in Nat /\ MaxFault \in Nat
ASSUME NoneIsNothingElse == None \notin Request /\ None \notin Int
ASSUME SomebodyMayCall == Session # {} /\ Ip # {}

VARIABLES
  pc,         \* where each request's coroutine is
  who,        \* the session, address and tier of each request
  pending,    \* _pending_counts; 0 is an absent entry
  ipPending,  \* _ip_pending_counts; 0 is an absent entry
  lockOf,     \* _locks: the lock of a session, named after the request that made it
  owner,      \* lock -> the request that holds it
  waiters,    \* lock -> the requests parked in acquire, in order
  mine,       \* the lock each request took from _locks
  cursor,     \* _next_allowed_time - now, at least 0, or None
  wait,       \* the rest of a request's sleep inside turn()
  used,       \* session -> today's count in rate_limit_counter
  ipUsed,     \* ip -> today's count in rate_limit_counter
  since,      \* history: seconds since the session's last turn began, or None
  gap,        \* history: the pacing that turn asked for
  faults      \* failures so far

slots   == <<pending, ipPending>>
lock    == <<lockOf, owner, waiters, mine>>
pacing  == <<cursor, wait>>
counts  == <<used, ipUsed>>
history == <<since, gap>>
vars    == <<pc, who, slots, lock, pacing, counts, history, faults>>

\* Between the reservation of a slot and its release.
HoldsSlot == {"session_quota", "ip_quota", "ready", "waiting", "sleeping", "inside"}
HoldsIp   == HoldsSlot \ {"session_quota"}
HasLock   == {"sleeping", "inside"}

\* The ends of a request that took its slots with it.
Cut       == {"session_cut", "ip_cut"}
KeepsSlot == HoldsSlot \cup Cut
KeepsIp   == HoldsIp \cup {"ip_cut"}

Goto(r, place) == pc' = [pc EXCEPT ![r] = place]
Fault == faults < MaxFault /\ faults' = faults + 1

-----------------------------------------------------------------------------
(***************************************************************************)
(* The dictionaries.                                                       *)
(***************************************************************************)

\* Mutant of ReleaseSlot: the early return is lost, so a session that still
\* has a request in flight loses its lock and its cursor.
ReleaseEverything(r) ==
  LET s == who[r].session IN
  /\ pending' = [pending EXCEPT ![s] = IF @ > 0 THEN @ - 1 ELSE 0]
  /\ cursor' = [cursor EXCEPT ![s] = None]
  /\ lockOf' = [lockOf EXCEPT ![s] = None]
  /\ since' = [since EXCEPT ![s] = IF pending[s] <= 1 THEN None ELSE @]

\* Mutant of ReleaseSlot: the lock stays in the dictionary.
ReleaseSlotKeepsLock(r) ==
  LET s == who[r].session IN
  /\ pending' = [pending EXCEPT ![s] = IF @ > 0 THEN @ - 1 ELSE 0]
  /\ cursor' = [cursor EXCEPT ![s] = IF pending[s] <= 1 THEN None ELSE @]
  /\ since' = [since EXCEPT ![s] = IF pending[s] <= 1 THEN None ELSE @]
  /\ UNCHANGED lockOf

\* release_slot, run after the request let go of its lock: the last request
\* in flight takes the count, the cursor and the idle lock away with it.
ReleaseSlot(r) ==
  LET s    == who[r].session
      last == pending[s] <= 1
      idle == lockOf[s] # None /\ owner'[lockOf[s]] = None
  IN /\ pending' = [pending EXCEPT ![s] = IF last THEN 0 ELSE @ - 1]
     /\ cursor' = [cursor EXCEPT ![s] = IF last THEN None ELSE @]
     /\ lockOf' = [lockOf EXCEPT ![s] = IF last /\ idle THEN None ELSE @]
     /\ since' = [since EXCEPT ![s] = IF last THEN None ELSE @]

\* release_ip_slot; invite traffic never claimed one.
ReleaseIpSlot(r) ==
  ipPending' = [ipPending EXCEPT ![who[r].ip] = IF @ > 0 THEN @ - 1 ELSE 0]

\* Mutant of Refused: the IP limits refuse without giving the session's slot back.
RefusedKeepsSlot(r, withIp) ==
  /\ Goto(r, "refused")
  /\ UNCHANGED <<owner, waiters, mine>>
  /\ IF withIp THEN ReleaseIpSlot(r) /\ UNCHANGED <<pending, cursor, lockOf, since>>
     ELSE ReleaseSlot(r) /\ UNCHANGED ipPending
  /\ UNCHANGED <<who, wait, gap>>

\* An exception before turn(): what was claimed is handed back.
Refused(r, withIp) ==
  /\ Goto(r, "refused")
  /\ UNCHANGED <<owner, waiters, mine>>
  /\ ReleaseSlot(r)
  /\ IF withIp THEN ReleaseIpSlot(r) ELSE UNCHANGED ipPending
  /\ UNCHANGED <<who, wait, gap>>

-----------------------------------------------------------------------------
(***************************************************************************)
(* reserve_slot, reserve_continue_slot, reserve_ip_slot.                   *)
(***************************************************************************)

\* A request reaches the rate control gate. A continue spends no daily unit;
\* only a guest's message claims an IP slot.
Reserve(r) ==
  /\ pc[r] = "idle"
  /\ \E s \in Session, i \in Ip, t \in Tier, k \in {"message", "continue"} :
       /\ who' = [who EXCEPT ![r] = [session |-> s, ip |-> i, tier |-> t, kind |-> k]]
       /\ IF pending[s] >= Cap[t]
          THEN Goto(r, "refused") /\ UNCHANGED pending
          ELSE /\ pending' = [pending EXCEPT ![s] = @ + 1]
               /\ Goto(r, IF k = "continue" THEN "ready" ELSE "session_quota")
  /\ UNCHANGED <<ipPending, lock, pacing, counts, history, faults>>

GuestMessage(r) == who[r].tier = "guest" /\ who[r].kind = "message"

\* Mutant of IpFull: off by one.
IpOverFull(r) == GuestMessage(r) /\ ipPending[who[r].ip] > IpCap

IpFull(r) == GuestMessage(r) /\ ipPending[who[r].ip] >= IpCap

\* _consume_daily of the session, one statement, committed; then, with no await
\* in between, the IP's in-flight cap for a guest.
SpendSession(r) ==
  LET over == used[who[r].session] >= Quota[who[r].tier] IN
  /\ pc[r] = "session_quota"
  /\ used' = [used EXCEPT ![who[r].session] = @ + 1]
  /\ UNCHANGED <<ipUsed, faults>>
  /\ \/ (over \/ IpFull(r)) /\ Refused(r, FALSE)
     \/ /\ ~over /\ ~IpFull(r)
        /\ IF GuestMessage(r)
           THEN /\ ipPending' = [ipPending EXCEPT ![who[r].ip] = @ + 1]
                /\ Goto(r, "ip_quota")
           ELSE Goto(r, "ready") /\ UNCHANGED ipPending
        /\ UNCHANGED <<who, pending, lock, pacing, history>>

\* Mutant of SpendIp: the allowance compared before the unit is counted.
SpendIpLate(r) ==
  LET over == ipUsed[who[r].ip] > IpQuota IN
  /\ pc[r] = "ip_quota"
  /\ ipUsed' = [ipUsed EXCEPT ![who[r].ip] = @ + 1]
  /\ UNCHANGED <<used, faults>>
  /\ \/ over /\ Refused(r, TRUE)
     \/ ~over /\ Goto(r, "ready") /\ UNCHANGED <<who, slots, lock, pacing, history>>

\* _consume_daily of the IP.
SpendIp(r) ==
  LET over == ipUsed[who[r].ip] >= IpQuota IN
  /\ pc[r] = "ip_quota"
  /\ ipUsed' = [ipUsed EXCEPT ![who[r].ip] = @ + 1]
  /\ UNCHANGED <<used, faults>>
  /\ \/ over /\ Refused(r, TRUE)
     \/ ~over /\ Goto(r, "ready") /\ UNCHANGED <<who, slots, lock, pacing, history>>

\* The database fails, before or after the unit was counted.
SpendFails(r) ==
  /\ pc[r] \in {"session_quota", "ip_quota"}
  /\ Fault
  /\ IF pc[r] = "session_quota"
     THEN /\ used' \in {used, [used EXCEPT ![who[r].session] = @ + 1]}
          /\ UNCHANGED ipUsed
     ELSE /\ ipUsed' \in {ipUsed, [ipUsed EXCEPT ![who[r].ip] = @ + 1]}
          /\ UNCHANGED used
  /\ Refused(r, pc[r] = "ip_quota")

\* The request is cancelled at the same await. The two handlers there catch
\* Exception, which a cancellation is not, and the finally that releases
\* belongs to a try the request has not entered: what it claimed stays taken.
SpendCancelled(r) ==
  /\ pc[r] \in {"session_quota", "ip_quota"}
  /\ Fault
  /\ IF pc[r] = "session_quota"
     THEN /\ used' \in {used, [used EXCEPT ![who[r].session] = @ + 1]}
          /\ Goto(r, "session_cut") /\ UNCHANGED ipUsed
     ELSE /\ ipUsed' \in {ipUsed, [ipUsed EXCEPT ![who[r].ip] = @ + 1]}
          /\ Goto(r, "ip_cut") /\ UNCHANGED used
  /\ UNCHANGED <<who, slots, lock, pacing, history>>

-----------------------------------------------------------------------------
(***************************************************************************)
(* turn().                                                                 *)
(***************************************************************************)

\* Mutant of Pace: the next turn is paced from now, not from when this one
\* will begin.
PaceFromNow(r) ==
  LET s    == who[r].session
      rest == IF cursor[s] = None THEN 0 ELSE cursor[s]
  IN /\ cursor' = [cursor EXCEPT ![s] = Interval[who[r].tier]]
     /\ wait' = [wait EXCEPT ![r] = rest]
     /\ IF rest > 0 THEN Goto(r, "sleeping") /\ UNCHANGED history
        ELSE /\ Goto(r, "inside")
             /\ since' = [since EXCEPT ![s] = 0]
             /\ gap' = [gap EXCEPT ![s] = Interval[who[r].tier]]

\* With the lock just acquired: the pacing cursor, and the sleep up to it.
Pace(r) ==
  LET s    == who[r].session
      rest == IF cursor[s] = None THEN 0 ELSE cursor[s]
  IN /\ cursor' = [cursor EXCEPT ![s] = rest + Interval[who[r].tier]]
     /\ wait' = [wait EXCEPT ![r] = rest]
     /\ IF rest > 0 THEN Goto(r, "sleeping") /\ UNCHANGED history
        ELSE /\ Goto(r, "inside")
             /\ since' = [since EXCEPT ![s] = 0]
             /\ gap' = [gap EXCEPT ![s] = Interval[who[r].tier]]

\* Mutant of LockIsFree: a newcomer overtakes a waiter that was woken but has
\* not run yet.
LockIsOpen(l) == owner[l] = None

\* asyncio.Lock.acquire returns at once: nobody holds it, nobody is ahead.
LockIsFree(l) == owner[l] = None /\ waiters[l] = <<>>

\* _locks.setdefault, and acquire.
AskTurn(r) ==
  LET s == who[r].session
      l == IF lockOf[s] = None THEN r ELSE lockOf[s]
  IN /\ pc[r] = "ready"
     /\ lockOf' = [lockOf EXCEPT ![s] = l]
     /\ mine' = [mine EXCEPT ![r] = l]
     /\ IF LockIsFree(l)
        THEN /\ owner' = [owner EXCEPT ![l] = r]
             /\ Pace(r)
             /\ UNCHANGED waiters
        ELSE /\ waiters' = [waiters EXCEPT ![l] = Append(@, r)]
             /\ Goto(r, "waiting")
             /\ UNCHANGED <<owner, pacing, history>>
     /\ UNCHANGED <<who, slots, counts, faults>>

\* The lock was released and the first waiter runs.
Resume(r) ==
  LET l == mine[r] IN
  /\ pc[r] = "waiting"
  /\ owner[l] = None /\ Head(waiters[l]) = r
  /\ owner' = [owner EXCEPT ![l] = r]
  /\ waiters' = [waiters EXCEPT ![l] = Tail(@)]
  /\ Pace(r)
  /\ UNCHANGED <<who, slots, lockOf, mine, counts, faults>>

\* The sleep is over.
Wake(r) ==
  /\ pc[r] = "sleeping" /\ wait[r] = 0
  /\ Goto(r, "inside")
  /\ since' = [since EXCEPT ![who[r].session] = 0]
  /\ gap' = [gap EXCEPT ![who[r].session] = Interval[who[r].tier]]
  /\ UNCHANGED <<who, slots, lock, pacing, counts, faults>>

\* Mutant of LeaveLock: the lock is not released.
LeaveLockHeld(r) ==
  /\ waiters' = IF pc[r] = "waiting"
                THEN [waiters EXCEPT ![mine[r]] = RemoveFirst(@, r)] ELSE waiters
  /\ UNCHANGED owner

\* Out of `async with lock`, or out of its queue.
LeaveLock(r) ==
  /\ owner' = IF pc[r] \in HasLock THEN [owner EXCEPT ![mine[r]] = None] ELSE owner
  /\ waiters' = IF pc[r] = "waiting"
                THEN [waiters EXCEPT ![mine[r]] = RemoveFirst(@, r)] ELSE waiters

\* The outermost finally of the handlers.
EndTurn(r) ==
  /\ LeaveLock(r)
  /\ ReleaseSlot(r)
  /\ IF GuestMessage(r) THEN ReleaseIpSlot(r) ELSE UNCHANGED ipPending
  /\ Goto(r, "done")
  /\ UNCHANGED <<who, mine, wait, counts, gap>>

\* The turn is over, with an answer or an exception.
Leave(r) == pc[r] = "inside" /\ EndTurn(r) /\ UNCHANGED faults

\* The request fails or is cancelled on its way in.
CutShort(r) == pc[r] \in {"ready", "waiting", "sleeping"} /\ Fault /\ EndTurn(r)

-----------------------------------------------------------------------------
Longest == IF Interval["guest"] > Interval["invite"] THEN Interval["guest"] ELSE Interval["invite"]

\* A second passes; a timer that is due fires first. The history need not
\* count past the longest interval.
Tick ==
  /\ \A r \in Request : pc[r] = "sleeping" => wait[r] > 0
  /\ \E s \in Session : cursor[s] \notin {None, 0} \/ since[s] \notin {None, Longest}
  /\ wait' = [r \in Request |-> IF wait[r] > 0 THEN wait[r] - 1 ELSE 0]
  /\ cursor' = [s \in Session |-> IF cursor[s] \in {None, 0} THEN cursor[s] ELSE cursor[s] - 1]
  /\ since' = [s \in Session |->
       IF since[s] \in {None, Longest} THEN since[s] ELSE since[s] + 1]
  /\ UNCHANGED <<pc, who, slots, lock, counts, gap, faults>>

Init ==
  /\ pc = [r \in Request |-> "idle"]
  /\ who \in [Request -> {[session |-> s, ip |-> i, tier |-> "guest", kind |-> "message"] :
                            s \in {CHOOSE s \in Session : TRUE}, i \in {CHOOSE i \in Ip : TRUE}}]
  /\ pending = [s \in Session |-> 0] /\ ipPending = [i \in Ip |-> 0]
  /\ lockOf = [s \in Session |-> None]
  /\ owner = [l \in Request |-> None] /\ waiters = [l \in Request |-> <<>>]
  /\ mine = [r \in Request |-> None]
  /\ cursor = [s \in Session |-> None] /\ wait = [r \in Request |-> 0]
  /\ used = [s \in Session |-> 0] /\ ipUsed = [i \in Ip |-> 0]
  /\ since = [s \in Session |-> None] /\ gap = [s \in Session |-> 0]
  /\ faults = 0

Advance(r) ==
  SpendSession(r) \/ SpendIp(r) \/ AskTurn(r) \/ Resume(r) \/ Wake(r) \/ Leave(r)

AllDone == (\A r \in Request : pc[r] \in Cut \cup {"done", "refused"}) /\ UNCHANGED vars

Next ==
  \/ \E r \in Request :
       Reserve(r) \/ Advance(r) \/ SpendFails(r) \/ SpendCancelled(r) \/ CutShort(r)
  \/ Tick
  \/ AllDone

Spec == Init /\ [][Next]_vars

\* The event loop runs what can run, and time passes.
FairSpec == Spec /\ WF_vars(Tick) /\ \A r \in Request : WF_vars(Advance(r))

-----------------------------------------------------------------------------
TypeOK ==
  /\ pc \in [Request -> KeepsSlot \cup {"idle", "done", "refused"}]
  /\ who \in [Request -> [session : Session, ip : Ip, tier : Tier, kind : {"message", "continue"}]]
  /\ \A s \in Session : pending[s] \in Nat /\ \E t \in Tier : pending[s] <= Cap[t]
  /\ ipPending \in [Ip -> 0..IpCap]
  /\ lockOf \in [Session -> Request \cup {None}]
  /\ owner \in [Request -> Request \cup {None}]
  /\ waiters \in [Request -> Seq(Request)]
  /\ mine \in [Request -> Request \cup {None}]
  /\ cursor \in [Session -> Nat \cup {None}]
  /\ wait \in [Request -> Nat]
  /\ used \in [Session -> Nat] /\ ipUsed \in [Ip -> Nat]
  /\ since \in [Session -> 0..Longest \cup {None}] /\ gap \in [Session -> Nat]
  /\ faults \in 0..MaxFault

\* One turn of a session runs at a time, although the lock they wait for is
\* deleted and made anew between bursts: no two requests ever hold a lock of
\* the same session, each a lock of its own (release_slot's docstring).
OneTurnAtATime ==
  \A r, q \in Request :
    r # q /\ pc[r] \in HasLock /\ pc[q] \in HasLock => who[r].session # who[q].session

\* A slot taken is given back exactly once, whichever limit refuses, whether
\* the database fails between two claims, and wherever else the request is
\* cancelled: the counts are the requests in flight and those cancelled while
\* their daily unit was being counted, which alone keep what they claimed.
CountsExact ==
  /\ \A s \in Session :
       pending[s] = Cardinality({r \in Request : pc[r] \in KeepsSlot /\ who[r].session = s})
  /\ \A i \in Ip :
       ipPending[i] = Cardinality({r \in Request :
         /\ pc[r] \in KeepsIp /\ who[r].ip = i
         /\ GuestMessage(r)})

\* Of a session with no request in flight nothing is kept, neither its count
\* nor its lock nor its cursor, so that the dictionaries do not grow with the
\* visitors the process has seen. The exception is a session that lost a slot
\* to a cancellation.
NothingKept ==
  \A s \in Session :
    (\A r \in Request : pc[r] \in KeepsSlot => who[r].session # s) =>
      pending[s] = 0 /\ lockOf[s] = None /\ cursor[s] = None

\* No more messages get in than the day's allowance of the session (at their
\* tier) and, for guests, of the address, however they overlap.
AllowanceHolds ==
  LET admitted == {r \in Request : /\ who[r].kind = "message"
                                   /\ pc[r] \in {"ready", "waiting", "sleeping", "inside", "done"}}
  IN /\ \A s \in Session, t \in Tier :
          Cardinality({r \in admitted : who[r].session = s /\ who[r].tier = t}) <= Quota[t]
     /\ \A i \in Ip :
          Cardinality({r \in admitted : who[r].ip = i /\ who[r].tier = "guest"}) <= IpQuota

\* In a burst, a turn begins at least the previous turn's interval after that
\* one began, also when turns between them were cut short.
BurstIsPaced ==
  [][\A r \in Request : pc[r] # "inside" /\ pc'[r] = "inside" =>
       LET s == who[r].session IN since[s] # None => since[s] >= gap[s]]_vars

\* The lock's holder and its waiters are the session's queue.
Queue == INSTANCE TurnQueue WITH
  line <- [s \in Session |->
    IF lockOf[s] = None THEN <<>>
    ELSE LET l == lockOf[s] IN
         (IF owner[l] = None THEN <<>> ELSE <<owner[l]>>) \o waiters[l]],
  inside <- {r \in Request : pc[r] = "inside"}

\* A session's turns run one at a time and in the order they asked for it.
ImplementsQueue == Queue!Spec

\* A request that got a slot ends, and no sleeper or waiter is forgotten,
\* whoever is cut short before it in the queue.
EveryTurnEnds == \A r \in Request : (pc[r] \in HoldsSlot) ~> (pc[r] \notin HoldsSlot)
=============================================================================
