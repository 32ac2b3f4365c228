--------------------------- MODULE SeedLoadProofs ---------------------------
(***************************************************************************)
(* Proofs about the corpus cache and the seed loader beside it, for every  *)
(* number of turns, processes and loaders and every bound.                 *)
(***************************************************************************)
EXTENDS SeedLoad, TLAPS

(***************************************************************************)
(* The parts of the state that a step of a search can touch.               *)
(***************************************************************************)

\* The types of the cache, without the bounded counters.
CacheTyped ==
  /\ bank \in Nat /\ lastId \in Nat
  /\ rows \subseteq [id : 1..lastId, of : 1..bank]
  /\ copy \in [Process -> Corpus]
  /\ pc \in [Turn -> Places] /\ home \in [Turn -> Process]
  /\ got \in [Turn -> Corpus]
  /\ floor \in [Turn -> 0..cleared]
  /\ cleared \in 0..bank
  /\ raced \in BOOLEAN /\ late \in BOOLEAN

\* What a search is about to store was computed from questions.
Computed == \A t \in Turn : pc[t] \in {"store", "commit"} => got[t].of >= 1

\* An id that was given out names one row: the one a turn is about to commit,
\* or the one it committed.
Given == \A t \in Turn : pc[t] = "commit" =>
  /\ got[t].id \in 1..lastId
  /\ \A r \in rows : r.id # got[t].id
  /\ \A p \in Process : copy[p].id # got[t].id
  /\ \A u \in Turn : u # t /\ pc[u] = "commit" => got[u].id # got[t].id

OneRowPerId == \A r, s \in rows : r.id = s.id => r = s

\* Unless a stale corpus was stored, the rows are as new as the last DELETE.
RowsAreFresh == raced \/ \A r \in rows : r.of >= cleared

CacheInv ==
  /\ CacheTyped /\ Computed /\ Given /\ OneRowPerId
  /\ CopyIsItsRow /\ RowsAreFresh /\ ClearTakesEffect

\* The questions change, and nothing of the cache does.
BankChanges == ChangeBank /\ UNCHANGED <<cache, copy, pc, search, history>>

LEMMA SearchTyped ==
  ASSUME CacheInv, NEW t \in Turn, Search(t)
  PROVE  CacheTyped'
<1>. /\ CacheTyped /\ Computed /\ Given
     /\ bank' = bank /\ cleared' = cleared /\ home' = home
  BY DEF CacheInv, Search, SelectNewest, LoadRow, RowGone, ReadBank, Insert, Commit,
         Refresh, SearchFails, search, history
<1>. USE DEF CacheTyped, Corpus, NoCopy, Places, Working, Goto, Holds, Adopt, Leave, Answer,
             cache, search, history
<1>1. CASE SelectNewest(t)
  <2>1. ASSUME NEW r \in rows, Found(t, r), floor' = [floor EXCEPT ![t] = cleared],
               Goto(t, "row"), UNCHANGED <<late, bank, cache, home, cleared, raced>>
        PROVE  CacheTyped'
    <3>1. r.id \in 1..lastId
      OBVIOUS
    <3>2. [NoCopy EXCEPT !.id = r.id] \in Corpus
      BY <3>1
    <3>. QED
      BY <2>1, <3>2 DEF Found
  <2>2. CASE UNCHANGED <<pc, copy, got, floor>>
    BY <1>1, <2>2 DEF SelectNewest
  <2>3. CASE Adopt(t, NoCopy) /\ floor' = [floor EXCEPT ![t] = cleared] /\ Goto(t, "bank") /\ UNCHANGED <<got, late>>
    BY <1>1, <2>3 DEF SelectNewest
  <2>. QED
    BY <1>1, <2>1, <2>2, <2>3 DEF SelectNewest
<1>2. CASE LoadRow(t)
  BY <1>2 DEF LoadRow
<1>3. CASE RowGone(t)
  BY <1>3 DEF RowGone
<1>8. CASE SearchFails(t)
  BY <1>8 DEF SearchFails
<1>4. CASE ReadBank(t)
  BY <1>4 DEF ReadBank
<1>5. CASE Insert(t)
  BY <1>5 DEF Insert
<1>6. CASE Commit(t)
  BY <1>6 DEF Commit, Computed, Given
<1>7. CASE Refresh(t)
  BY <1>7 DEF Refresh
<1>. QED
  BY <1>1, <1>2, <1>3, <1>4, <1>5, <1>6, <1>7, <1>8 DEF Search

\* Which step of a search changes what.
LEMMA SearchMoves ==
  ASSUME NEW t \in Turn, Search(t)
  PROVE  /\ UNCHANGED <<bank, home, cleared, edits, clears>>
         /\ rows' = rows \/ Commit(t)
         /\ \/ copy' = copy
            \/ Adopt(t, NoCopy)
            \/ \E r \in rows : Adopt(t, r)
         /\ raced' = raced \/ Commit(t)
<1>. USE DEF search, history, cache
<1>1. CASE SelectNewest(t)
  BY <1>1 DEF SelectNewest, Found
<1>2. CASE LoadRow(t)
  BY <1>2 DEF LoadRow
<1>3. CASE RowGone(t) \/ ReadBank(t) \/ Insert(t) \/ SearchFails(t)
  BY <1>3 DEF RowGone, ReadBank, Insert, SearchFails
<1>4. CASE Commit(t)
  BY <1>4 DEF Commit
<1>5. CASE Refresh(t)
  BY <1>5 DEF Refresh
<1>. QED
  BY <1>1, <1>2, <1>3, <1>4, <1>5 DEF Search

\* A step leaves a turn where it is about to store something only by one of
\* the two that take it there.
LEMMA SearchStores ==
  ASSUME CacheTyped, NEW t \in Turn, Search(t)
  PROVE  /\ \A u \in Turn : u # t => pc'[u] = pc[u] /\ got'[u] = got[u]
         /\ pc'[t] = "store" => ReadBank(t) /\ bank # 0 /\ got'[t].of = bank
         /\ pc'[t] = "commit" => Insert(t)
<1>. USE DEF CacheTyped, Goto, Holds, Leave, Answer
<1>1. CASE SelectNewest(t)
  BY <1>1 DEF SelectNewest, Found
<1>2. CASE ReadBank(t)
  BY <1>2 DEF ReadBank, NoCopy
<1>3. CASE LoadRow(t) \/ RowGone(t) \/ Refresh(t) \/ SearchFails(t)
  BY <1>3 DEF LoadRow, RowGone, Refresh, SearchFails
<1>4. CASE Insert(t)
  BY <1>4 DEF Insert
<1>5. CASE Commit(t)
  BY <1>5 DEF Commit, search
<1>. QED
  BY <1>1, <1>2, <1>3, <1>4, <1>5 DEF Search

LEMMA SearchComputed ==
  ASSUME CacheInv, NEW t \in Turn, Search(t)
  PROVE  Computed'
<1>. CacheTyped /\ Computed
  BY DEF CacheInv
<1>1. \A u \in Turn : u # t => pc'[u] = pc[u] /\ got'[u] = got[u]
  BY SearchStores
<1>2. pc'[t] = "store" => got'[t].of >= 1
  BY SearchStores DEF CacheTyped
<1>3. pc'[t] = "commit" => got'[t].of >= 1
  <2>. SUFFICES ASSUME pc'[t] = "commit" PROVE got'[t].of >= 1
    OBVIOUS
  <2>1. Insert(t)
    BY SearchStores
  <2>. QED
    BY <2>1 DEF Insert, Holds, Computed, CacheTyped, Corpus
<1>. QED
  BY <1>1, <1>2, <1>3 DEF Computed

LEMMA SearchGiven ==
  ASSUME CacheInv, NEW t \in Turn, Search(t)
  PROVE  Given'
<1>. CacheTyped /\ Given /\ OneRowPerId
  BY DEF CacheInv
<1>. USE DEF CacheTyped, Corpus
<1>1. CASE Insert(t)
  <2>1. /\ lastId' = lastId + 1 /\ UNCHANGED <<rows, copy>>
        /\ got' = [got EXCEPT ![t] = [got[t] EXCEPT !.id = lastId + 1]]
        /\ pc' = [pc EXCEPT ![t] = "commit"]
    BY <1>1 DEF Insert, Holds, Goto
  <2>2. got'[t].id = lastId + 1 /\ \A u \in Turn : u # t => got'[u] = got[u] /\ pc'[u] = pc[u]
    BY <2>1
  <2>3. \A r \in rows : r.id \in 1..lastId
    OBVIOUS
  <2>4. \A p \in Process : copy[p].id \in {-1} \cup 1..lastId
    OBVIOUS
  <2>5. \A u \in Turn : pc[u] = "commit" => got[u].id \in 1..lastId
    BY DEF Given
  <2>. QED
    BY <2>1, <2>2, <2>3, <2>4, <2>5 DEF Given
<1>2. CASE Commit(t)
  <2>1. /\ rows' = rows \cup {got[t]} /\ UNCHANGED <<lastId, copy, got>>
        /\ pc' = [pc EXCEPT ![t] = "refresh"]
    BY <1>2 DEF Commit, Goto, search
  <2>2. \A u \in Turn : pc'[u] = "commit" => u # t /\ pc[u] = "commit"
    BY <2>1
  <2>3. pc[t] = "commit"
    BY <1>2 DEF Commit
  <2>. QED
    BY <2>1, <2>2, <2>3 DEF Given
<1>3. CASE ~Insert(t) /\ ~Commit(t)
  <2>1. /\ rows' = rows
        /\ \A u \in Turn : pc'[u] = "commit" => u # t /\ pc[u] = "commit" /\ got'[u] = got[u]
    BY <1>3, SearchMoves, SearchStores
  <2>2. lastId' = lastId
    BY <1>3 DEF Search, SelectNewest, LoadRow, RowGone, ReadBank, Refresh, SearchFails, cache
  <2>3. \A p \in Process : copy'[p] = copy[p] \/ copy'[p] = NoCopy \/ copy'[p] \in rows
    BY <1>3, SearchMoves DEF Adopt
  <2>4. \A u \in Turn : pc'[u] = "commit" => \A p \in Process : copy'[p].id # got'[u].id
    BY <2>1, <2>3 DEF Given, NoCopy
  <2>. QED
    BY <2>1, <2>2, <2>4 DEF Given
<1>. QED
  BY <1>1, <1>2, <1>3

\* What a step of a search does to the rows and the copies.
LEMMA SearchRows ==
  ASSUME CacheInv, NEW t \in Turn, Search(t)
  PROVE  OneRowPerId' /\ CopyIsItsRow' /\ RowsAreFresh'
<1>. CacheTyped /\ Given /\ OneRowPerId /\ CopyIsItsRow /\ RowsAreFresh
  BY DEF CacheInv
<1>1. CASE Commit(t)
  <2>1. /\ pc[t] = "commit" /\ rows' = rows \cup {got[t]} /\ UNCHANGED <<copy, cleared>>
        /\ raced' = (raced \/ got[t].of < cleared)
    BY <1>1 DEF Commit
  <2>2. OneRowPerId' /\ CopyIsItsRow'
    BY <2>1 DEF Given, OneRowPerId, CopyIsItsRow
  <2>3. got[t].of \in Int /\ cleared \in Int
    BY DEF CacheTyped, Corpus
  <2>4. RowsAreFresh'
    <3>1. CASE raced \/ got[t].of < cleared
      BY <2>1, <3>1 DEF RowsAreFresh
    <3>2. CASE ~raced /\ got[t].of >= cleared
      <4>1. \A r \in rows' : r.of >= cleared
        BY <2>1, <3>2 DEF RowsAreFresh
      <4>. QED
        BY <2>1, <4>1 DEF RowsAreFresh
    <3>. QED
      BY <2>3, <3>1, <3>2
  <2>. QED
    BY <2>2, <2>4
<1>2. CASE ~Commit(t)
  <2>1. UNCHANGED <<rows, cleared, raced>>
    BY <1>2, SearchMoves
  <2>2. \A p \in Process : copy'[p] = copy[p] \/ copy'[p] = NoCopy \/ copy'[p] \in rows
    BY <1>2, SearchMoves DEF Adopt, CacheTyped
  <2>3. \A r \in rows : r.id # NoCopy.id
    BY DEF CacheTyped, NoCopy
  <2>. QED
    BY <2>1, <2>2, <2>3 DEF OneRowPerId, CopyIsItsRow, RowsAreFresh
<1>. QED
  BY <1>1, <1>2

\* A search that ranks a stored corpus ranks one that is as new as its floor.
LEMMA SearchOnTime ==
  ASSUME CacheInv, NEW t \in Turn, Search(t)
  PROVE  ClearTakesEffect'
<1>. /\ CacheTyped /\ CopyIsItsRow /\ RowsAreFresh /\ ClearTakesEffect
     /\ home[t] \in Process
  BY DEF CacheInv, CacheTyped
<1>1. raced => raced'
  BY SearchMoves DEF Commit
<1>2. ASSUME ~raced, NEW r \in rows
      PROVE  ~(r.of < floor[t]) /\ ~(r.of < cleared)
  BY <1>2 DEF RowsAreFresh, CacheTyped
<1>3. CASE SelectNewest(t)
  <2>1. IsCurrent(copy[home[t]]) => copy[home[t]] \in rows
    BY DEF IsCurrent, CopyIsItsRow
  <2>. QED
    BY <1>1, <1>2, <1>3, <2>1 DEF SelectNewest, ClearTakesEffect
<1>4. CASE LoadRow(t)
  BY <1>1, <1>2, <1>4 DEF LoadRow, Answer, ClearTakesEffect
<1>5. CASE ReadBank(t)
  <2>1. bank = 0 => ~(0 < floor[t])
    BY DEF CacheTyped
  <2>. QED
    BY <1>1, <1>5, <2>1 DEF ReadBank, Answer, ClearTakesEffect
<1>6. CASE Refresh(t)
  BY <1>1, <1>2, <1>6 DEF Refresh, Answer, ClearTakesEffect
<1>7. CASE RowGone(t) \/ Insert(t) \/ Commit(t) \/ SearchFails(t)
  <2>1. late' = late
    BY <1>7 DEF RowGone, Insert, Commit, SearchFails, history
  <2>. QED
    BY <1>1, <2>1 DEF ClearTakesEffect
<1>. QED
  BY <1>3, <1>4, <1>5, <1>6, <1>7 DEF Search

\* DELETE FROM corpus_cache.
LEMMA ClearStep ==
  ASSUME CacheInv, Clear
  PROVE  CacheInv'
<1>1. /\ rows' = {} /\ cleared' = bank
      /\ UNCHANGED <<bank, lastId, copy, pc, home, got, floor, raced, late>>
  BY DEF Clear, search
<1>. QED
  BY <1>1 DEF CacheInv, CacheTyped, Computed, Given, OneRowPerId, CopyIsItsRow,
              RowsAreFresh, ClearTakesEffect, Corpus

LEMMA BankStep ==
  ASSUME CacheInv, BankChanges
  PROVE  CacheInv'
<1>1. /\ bank' = bank + 1
      /\ UNCHANGED <<rows, lastId, copy, pc, home, got, cleared, floor, raced, late>>
  BY DEF BankChanges, ChangeBank, cache, search, history
<1>2. CacheTyped'
  BY <1>1 DEF CacheInv, CacheTyped, Corpus
<1>. QED
  BY <1>1, <1>2 DEF CacheInv, Computed, Given, OneRowPerId, CopyIsItsRow, RowsAreFresh,
                    ClearTakesEffect

\* The cache takes these steps whoever else writes the questions.
LEMMA CacheStep ==
  ASSUME CacheInv,
         Next \/ BankChanges \/ UNCHANGED <<bank, cache, copy, pc, search, history>>
  PROVE  CacheInv'
<1>1. ASSUME NEW t \in Turn, Search(t) PROVE CacheInv'
  BY <1>1, SearchTyped, SearchComputed, SearchGiven, SearchRows, SearchOnTime DEF CacheInv
<1>2. CASE Edit
  BY <1>2, BankStep DEF Edit, BankChanges
<1>3. CASE UNCHANGED <<bank, cache, copy, pc, search, history>>
  BY <1>3 DEF CacheInv, CacheTyped, Computed, Given, OneRowPerId, CopyIsItsRow,
              RowsAreFresh, ClearTakesEffect, Corpus, cache, search, history
<1>. QED
  BY <1>1, <1>2, <1>3, ClearStep, BankStep DEF Next

(***************************************************************************)
(* The loader beside the cache.                                            *)
(***************************************************************************)

\* Every step of the system is one of these to the cache.
LEMMA SeedCacheStep ==
  ASSUME CacheInv, [SeedNext]_<<vars, seedVars>>
  PROVE  CacheInv'
<1>1. ASSUME NEW l \in Loader, Load(l)
      PROVE  BankChanges \/ UNCHANGED <<bank, cache, copy, pc, search, history>>
  BY <1>1 DEF Load, Begin, LoadSite, LoadKeyed, LoadSingle, CommitSeed, Abort, BankChanges, vars
<1>2. CASE UNCHANGED vars
  BY <1>2, CacheStep DEF vars
<1>. QED
  BY <1>1, <1>2, CacheStep DEF SeedNext

LEMMA CacheInvariant == SeedSpec => []CacheInv
<1>1. SeedInit => CacheInv
  <2>. SUFFICES ASSUME SeedInit PROVE CacheInv
    OBVIOUS
  <2>1. NoCopy \in Corpus
    BY DEF SeedInit, Init, NoCopy, Corpus
  <2>2. CacheTyped
    <3>1. /\ copy \in [Process -> Corpus] /\ got \in [Turn -> Corpus]
          /\ floor \in [Turn -> 0..cleared]
      BY <2>1 DEF SeedInit, Init
    <3>2. pc \in [Turn -> Places] /\ home \in [Turn -> Process]
      BY DEF SeedInit, Init, Places
    <3>3. bank \in Nat /\ lastId \in Nat /\ cleared \in 0..bank /\ rows = {}
      BY DEF SeedInit, Init
    <3>4. raced \in BOOLEAN /\ late \in BOOLEAN
      BY DEF SeedInit, Init
    <3>. QED
      BY <3>1, <3>2, <3>3, <3>4 DEF CacheTyped
  <2>. QED
    BY <2>2 DEF SeedInit, Init, CacheInv, Computed, Given, OneRowPerId, CopyIsItsRow,
                RowsAreFresh, ClearTakesEffect
<1>2. CacheInv /\ [SeedNext]_<<vars, seedVars>> => CacheInv'
  BY SeedCacheStep
<1>. QED
  BY <1>1, <1>2, PTL DEF SeedSpec

\* A process never takes one row's corpus for another's, however many of its
\* turns load and compute corpora while rows come and go (_get_corpus).
THEOREM CopiesAreTheirRows == SeedSpec => []CopyIsItsRow
<1>1. CacheInv => CopyIsItsRow
  BY DEF CacheInv
<1>. QED
  BY <1>1, CacheInvariant, PTL

\* DELETE FROM corpus_cache reaches every process: what is ranked after it is
\* as new as it, unless a corpus computed before it was stored after it.
THEOREM ClearReachesEverySearch == SeedSpec => []ClearTakesEffect
<1>1. CacheInv => ClearTakesEffect
  BY DEF CacheInv
<1>. QED
  BY <1>1, CacheInvariant, PTL

-----------------------------------------------------------------------------
(***************************************************************************)
(* What the loaders write.                                                 *)
(***************************************************************************)

LoadTyped ==
  /\ bank \in Nat /\ site \in Nat /\ copies \in 0..bank
  /\ keyed \in BOOLEAN /\ fresh \in BOOLEAN /\ overlapped \in BOOLEAN
  /\ stage \in [Loader -> Loading \cup {"idle", "ended"}]
  /\ adds \in [Loader -> SUBSET Table]
  /\ edits \in 0..MaxEdit /\ clears \in 0..MaxClear

\* A loader that runs has added rows only to tables it has looked at.
AddsInOrder == \A l \in Loader :
  /\ "site" \in adds[l] => stage[l] \in {"keyed", "single", "commit"}
  /\ "keyed" \in adds[l] => stage[l] \in {"single", "commit"}
  /\ "single" \in adds[l] => stage[l] = "commit"

\* Loaders that run one after the other find what the earlier ones wrote.
OneByOne == ~overlapped =>
  /\ \A k, l \in Loader : stage[k] \in Loading /\ stage[l] \in Loading => k = l
  /\ \A l \in Loader : "site" \in adds[l] => site = 0
  /\ \A l \in Loader : "single" \in adds[l] => copies = 0

\* A seed with new keys that fills question_bank writes the keys in the same
\* commit, and once they are written question_bank is not empty.
KeysGuardQuestions == fresh =>
  /\ keyed => bank >= 1
  /\ copies >= 1 => keyed
  /\ \A l \in Loader :
       /\ stage[l] \in {"single", "commit"} => keyed \/ "keyed" \in adds[l]
       /\ stage[l] = "commit" => bank >= 1 \/ "single" \in adds[l]
       /\ "single" \in adds[l] => "keyed" \in adds[l]

\* Without the owner's edits, question_bank has what the seed wrote, or what it
\* had before.
OnlyTheSeed == edits = 0 =>
  \/ bank = copies
  \/ bank = 1 /\ copies = 0 /\ \A l \in Loader : "single" \notin adds[l]

LoadInv ==
  /\ LoadTyped /\ AddsInOrder /\ OneByOne /\ KeysGuardQuestions /\ OnlyTheSeed
  /\ LoadedOnce

\* The cache's own steps change at most the questions, by an edit.
LEMMA EditStep ==
  ASSUME LoadInv, Next, UNCHANGED seedVars
  PROVE  LoadInv'
<1>1. /\ \/ edits' = edits + 1 /\ edits < MaxEdit /\ bank' = bank + 1
         \/ edits' = edits /\ bank' = bank
      /\ clears' \in 0..MaxClear
  <2>1. CASE \E t \in Turn : Search(t)
    BY <2>1 DEF LoadInv, LoadTyped, Search, SelectNewest, LoadRow, RowGone, ReadBank, Insert,
                Commit, Refresh, SearchFails
  <2>2. CASE Clear
    BY <2>2, BoundsAreNat DEF Clear, LoadInv, LoadTyped
  <2>3. CASE Edit
    BY <2>3 DEF Edit, ChangeBank, LoadInv, LoadTyped
  <2>. QED
    BY <2>1, <2>2, <2>3 DEF Next
<1>2. UNCHANGED <<site, keyed, copies, stage, adds, fresh, overlapped>>
  BY DEF seedVars, tables
<1>3. LoadTyped'
  BY <1>1, <1>2, BoundsAreNat DEF LoadInv, LoadTyped
<1>. QED
  BY <1>1, <1>2, <1>3 DEF LoadInv, LoadTyped, AddsInOrder, OneByOne, KeysGuardQuestions,
                         OnlyTheSeed, LoadedOnce

LEMMA LoaderTyped ==
  ASSUME LoadInv, NEW l \in Loader, Load(l)
  PROVE  LoadTyped' /\ AddsInOrder'
<1>. LoadTyped /\ AddsInOrder
  BY DEF LoadInv
<1>. USE DEF LoadTyped, AddsInOrder, Loading, Table, Enter, Add, End, tables, vars
<1>1. CASE Begin(l)
  BY <1>1 DEF Begin
<1>2. CASE LoadSite(l)
  BY <1>2 DEF LoadSite
<1>3. CASE LoadKeyed(l)
  BY <1>3 DEF LoadKeyed
<1>4. CASE LoadSingle(l)
  BY <1>4 DEF LoadSingle
<1>5. CASE CommitSeed(l)
  BY <1>5 DEF CommitSeed, ChangeBank
<1>6. CASE Abort(l)
  BY <1>6 DEF Abort
<1>. QED
  BY <1>1, <1>2, <1>3, <1>4, <1>5, <1>6 DEF Load

LEMMA LoaderOneByOne ==
  ASSUME LoadInv, NEW l \in Loader, Load(l)
  PROVE  OneByOne' /\ OnlyTheSeed' /\ (~overlapped' => site' <= 1 /\ copies' <= 1)
<1>. LoadTyped /\ AddsInOrder /\ OneByOne /\ OnlyTheSeed /\ LoadedOnce
  BY DEF LoadInv
<1>. USE DEF LoadTyped, AddsInOrder, OneByOne, OnlyTheSeed, LoadedOnce, Loading, Table,
             Enter, Add, End, tables, vars
<1>1. CASE Begin(l)
  BY <1>1 DEF Begin
<1>2. CASE LoadSite(l)
  BY <1>2 DEF LoadSite
<1>3. CASE LoadKeyed(l)
  BY <1>3 DEF LoadKeyed
<1>4. CASE LoadSingle(l)
  BY <1>4 DEF LoadSingle
<1>5. CASE CommitSeed(l)
  BY <1>5 DEF CommitSeed, ChangeBank
<1>6. CASE Abort(l)
  BY <1>6 DEF Abort
<1>. QED
  BY <1>1, <1>2, <1>3, <1>4, <1>5, <1>6 DEF Load

LEMMA LoaderGuarded ==
  ASSUME LoadInv, NEW l \in Loader, Load(l)
  PROVE  KeysGuardQuestions' /\ (fresh' => copies' <= 1)
<1>. LoadTyped /\ AddsInOrder /\ KeysGuardQuestions /\ LoadedOnce
  BY DEF LoadInv
<1>. USE DEF LoadTyped, AddsInOrder, KeysGuardQuestions, LoadedOnce, Loading, Table,
             Enter, Add, End, tables, vars
<1>1. CASE Begin(l)
  BY <1>1 DEF Begin
<1>2. CASE LoadSite(l)
  BY <1>2 DEF LoadSite
<1>3. CASE LoadKeyed(l)
  BY <1>3 DEF LoadKeyed
<1>4. CASE LoadSingle(l)
  BY <1>4 DEF LoadSingle
<1>5. CASE CommitSeed(l)
  BY <1>5 DEF CommitSeed, ChangeBank, Conflict
<1>6. CASE Abort(l)
  BY <1>6 DEF Abort
<1>. QED
  BY <1>1, <1>2, <1>3, <1>4, <1>5, <1>6 DEF Load

LEMMA SeedInvariant == SeedSpec => []LoadInv
<1>1. SeedInit => LoadInv
  <2>. SUFFICES ASSUME SeedInit PROVE LoadInv
    OBVIOUS
  <2>1. /\ site \in {0, 1} /\ bank \in {0, 1} /\ copies = 0 /\ edits = 0 /\ clears = 0
        /\ stage = [l \in Loader |-> "idle"] /\ adds = [l \in Loader |-> {}]
    BY DEF SeedInit, Init
  <2>2. keyed \in BOOLEAN /\ overlapped = FALSE /\ fresh = ~keyed
    BY DEF SeedInit
  <2>3. fresh \in BOOLEAN /\ (fresh => ~keyed)
    BY <2>2
  <2>4. /\ bank \in Nat /\ site \in Nat /\ copies \in 0..bank
        /\ edits \in 0..MaxEdit /\ clears \in 0..MaxClear
    BY <2>1, BoundsAreNat
  <2>5. /\ stage \in [Loader -> Loading \cup {"idle", "ended"}]
        /\ adds \in [Loader -> SUBSET Table]
    BY <2>1
  <2>6. LoadTyped
    BY <2>2, <2>3, <2>4, <2>5 DEF LoadTyped
  <2>. QED
    BY <2>1, <2>3, <2>6 DEF LoadInv, AddsInOrder, OneByOne, KeysGuardQuestions, OnlyTheSeed,
                      LoadedOnce, Loading
<1>2. LoadInv /\ [SeedNext]_<<vars, seedVars>> => LoadInv'
  <2>. SUFFICES ASSUME LoadInv, [SeedNext]_<<vars, seedVars>> PROVE LoadInv'
    OBVIOUS
  <2>1. ASSUME NEW l \in Loader, Load(l) PROVE LoadInv'
    BY <2>1, LoaderTyped, LoaderOneByOne, LoaderGuarded DEF LoadInv, LoadedOnce
  <2>2. CASE UNCHANGED <<vars, seedVars>>
    BY <2>2 DEF LoadInv, LoadTyped, AddsInOrder, OneByOne, KeysGuardQuestions, OnlyTheSeed,
                LoadedOnce, vars, seedVars, tables
  <2>. QED
    BY <2>1, <2>2, EditStep DEF SeedNext
<1>. QED
  BY <1>1, <1>2, PTL DEF SeedSpec

\* The seed is loaded once, however often its loader runs one after the other;
\* and when it brings new keys, also by loaders that run at the same time.
THEOREM SeedIsLoadedOnce == SeedSpec => []LoadedOnce
<1>1. LoadInv => LoadedOnce
  BY DEF LoadInv
<1>. QED
  BY <1>1, SeedInvariant, PTL

\* A first load leaves no stored corpus behind it: the corpora that turns
\* compute before it are not stored, and those after it are computed from it.
THEOREM FirstLoadNeedsNoClear == SeedSpec => []LoadNeedsNoClear
<1>1. LoadInv /\ CacheInv => LoadNeedsNoClear
  <2>. SUFFICES ASSUME LoadInv, CacheInv, edits = 0, copies <= 1, NEW r \in rows
                PROVE  r.of = bank
    BY DEF LoadNeedsNoClear
  <2>1. r.of \in 1..bank /\ copies \in Nat /\ bank \in Nat
    BY DEF CacheInv, CacheTyped, LoadInv, LoadTyped
  <2>2. bank <= 1
    BY <2>1 DEF LoadInv, OnlyTheSeed
  <2>. QED
    BY <2>1, <2>2
<1>. QED
  BY <1>1, SeedInvariant, CacheInvariant, PTL

\* Every variable keeps its type: a copy's id was given out, and no corpus is
\* of a version question_bank has not reached.
THEOREM SeedTypeCorrect == SeedSpec => []TypeOK
<1>1. LoadInv /\ CacheInv => TypeOK
  BY DEF LoadInv, LoadTyped, CacheInv, CacheTyped, TypeOK, CacheTypeOK
<1>. QED
  BY <1>1, SeedInvariant, CacheInvariant, PTL
=============================================================================
