---------------------------- MODULE CorpusCache ----------------------------
(***************************************************************************)
(* The corpus the example search ranks, computed from question_bank and    *)
(* kept twice: as a row of corpus_cache, shared by all processes, and in   *)
(* each process beside the id of the row it came from                      *)
(* (BM25Service._get_corpus). Turns of all processes search at the same    *)
(* time, each a chain of statements; the owner changes the questions and   *)
(* runs DELETE FROM corpus_cache between any two of them.                  *)
(*                                                                         *)
(* A corpus is represented by the version of the questions it was computed *)
(* from, 0 for none: question_bank at version 0 is empty.                  *)
(***************************************************************************)
EXTENDS Integers

CONSTANTS
  Turn,      \* turns in progress at a time; each place serves turn after turn
  Process,   \* the processes that serve them
  MaxEdit,   \* bound: changes the owner makes to question_bank
  MaxClear,  \* bound: DELETE FROM corpus_cache
  MaxRow     \* bound: rows ever inserted into corpus_cache

ASSUME BoundsAreNat == MaxEdit \in Nat /\ MaxClear \in Nat /\ MaxRow \in Nat

VARIABLES
  bank,    \* version of question_bank
  rows,    \* corpus_cache: ids, never used twice, and what was computed
  lastId,  \* the id sequence of corpus_cache
  copy,    \* process -> its class attributes: the corpus and its row's id
  pc,      \* where each search is suspended
  home,    \* the process it runs in
  got,     \* the id it read or was given, the corpus it computed
  edits,   \* changes the owner made
  clears,  \* DELETEs so far
  cleared, \* history: version of the questions at the last DELETE
  floor,   \* history: cleared, when the search began
  raced,   \* history: a corpus from before a DELETE was stored after it
  late     \* history: a search ranked older questions than its floor

cache   == <<rows, lastId>>
search  == <<home, got>>
history == <<cleared, floor, raced, late>>
vars    == <<bank, cache, copy, pc, search, edits, clears, history>>

NoCopy  == [id |-> -1, of |-> 0]
Working == {"row", "bank", "store", "commit", "refresh"}
Places  == Working \cup {"idle"}

Goto(t, place) == pc' = [pc EXCEPT ![t] = place]
Holds(t, c)    == got' = [got EXCEPT ![t] = c]
Adopt(t, c)    == copy' = [copy EXCEPT ![home[t]] = c]
Leave(t)       == Goto(t, "idle") /\ Holds(t, NoCopy) /\ floor' = [floor EXCEPT ![t] = 0]

\* The search ranks a corpus.
Answer(t, of) == Leave(t) /\ late' = (late \/ of < floor[t])

-----------------------------------------------------------------------------
\* Mutant of IsCurrent: a copy, once there, is used.
IsPresent(c) == c # NoCopy

\* The copy was built from the newest row.
IsCurrent(c) == \E r \in rows : c.id = r.id /\ \A s \in rows : s.id <= r.id

\* Mutant of Found: the new id is noted at once, the corpus when it is there.
FoundEarly(t, r) ==
  Holds(t, [NoCopy EXCEPT !.id = r.id]) /\ Adopt(t, [copy[home[t]] EXCEPT !.id = r.id])

\* Another row than the copy's: its corpus is to be loaded.
Found(t, r) == Holds(t, [NoCopy EXCEPT !.id = r.id]) /\ UNCHANGED copy

\* The newest row's id is read. A process that holds that row's corpus uses
\* it, another loads the row. Without a row the process forgets its copy and
\* computes a new corpus.
SelectNewest(t) ==
  LET held == copy[home[t]] IN
  /\ pc[t] = "idle"
  /\ \/ /\ IsCurrent(held)
        /\ late' = (late \/ held.of < cleared)
        /\ UNCHANGED <<pc, copy, got, floor>>
     \/ /\ ~IsCurrent(held)
        /\ \E r \in rows : (\A s \in rows : s.id <= r.id) /\ Found(t, r)
        /\ floor' = [floor EXCEPT ![t] = cleared]
        /\ Goto(t, "row") /\ UNCHANGED late
     \/ /\ ~IsCurrent(held) /\ rows = {}
        /\ Adopt(t, NoCopy)
        /\ floor' = [floor EXCEPT ![t] = cleared]
        /\ Goto(t, "bank") /\ UNCHANGED <<got, late>>
  /\ UNCHANGED <<bank, cache, home, edits, clears, cleared, raced>>

\* The row is loaded.
LoadRow(t) ==
  /\ pc[t] = "row"
  /\ \E r \in rows : r.id = got[t].id /\ Adopt(t, r) /\ Answer(t, r.of)
  /\ UNCHANGED <<bank, cache, home, edits, clears, cleared, raced>>

\* It was deleted meanwhile: whatever the process holds is used, be it old
\* or nothing.
RowGone(t) ==
  /\ pc[t] = "row" /\ \A r \in rows : r.id # got[t].id
  /\ Leave(t)
  /\ UNCHANGED <<bank, cache, copy, home, edits, clears, cleared, raced, late>>

\* Mutant of ReadBank: the corpus of an empty table is stored as well.
ReadBankEmptyToo(t) ==
  /\ pc[t] = "bank"
  /\ Holds(t, [NoCopy EXCEPT !.of = bank]) /\ Goto(t, "store")
  /\ UNCHANGED <<bank, cache, copy, home, edits, clears, history>>

\* _compute_corpus. An empty question_bank has no corpus: nothing is stored.
ReadBank(t) ==
  /\ pc[t] = "bank"
  /\ IF bank = 0 THEN Answer(t, 0)
     ELSE Holds(t, [NoCopy EXCEPT !.of = bank]) /\ Goto(t, "store") /\ UNCHANGED <<floor, late>>
  /\ UNCHANGED <<bank, cache, copy, home, edits, clears, cleared, raced>>

\* The INSERT takes an id, and its transaction commits later: rows need not
\* become visible in the order of their ids.
Insert(t) ==
  /\ pc[t] = "store" /\ lastId < MaxRow
  /\ lastId' = lastId + 1
  /\ Holds(t, [got[t] EXCEPT !.id = lastId + 1])
  /\ Goto(t, "commit")
  /\ UNCHANGED <<bank, rows, copy, home, edits, clears, history>>

Commit(t) ==
  /\ pc[t] = "commit"
  /\ rows'  = rows \cup {got[t]}
  /\ raced' = (raced \/ got[t].of < cleared)
  /\ Goto(t, "refresh")
  /\ UNCHANGED <<bank, lastId, copy, search, edits, clears, cleared, floor, late>>

\* The process adopts the row it stored.
Refresh(t) ==
  /\ pc[t] = "refresh" /\ got[t] \in rows
  /\ Adopt(t, got[t]) /\ Answer(t, got[t].of)
  /\ UNCHANGED <<bank, cache, home, edits, clears, cleared, raced>>

\* A statement fails (db.refresh does when the row was deleted since), or
\* the turn is cut off, before or after its COMMIT takes effect.
SearchFails(t) ==
  /\ pc[t] \in Working
  /\ Leave(t)
  /\ UNCHANGED <<bank, cache, copy, home, edits, clears, cleared, raced, late>>

-----------------------------------------------------------------------------
ChangeBank == bank' = bank + 1

\* The owner changes question_bank, in psql.
Edit ==
  /\ edits < MaxEdit
  /\ ChangeBank
  /\ edits' = edits + 1
  /\ UNCHANGED <<cache, copy, pc, search, clears, history>>

\* DELETE FROM corpus_cache.
Clear ==
  /\ clears < MaxClear
  /\ rows'    = {}
  /\ clears'  = clears + 1
  /\ cleared' = bank
  /\ UNCHANGED <<bank, lastId, copy, pc, search, edits, floor, raced, late>>

Init ==
  /\ bank \in {0, 1}
  /\ rows = {} /\ lastId = 0
  /\ copy = [p \in Process |-> NoCopy]
  /\ pc = [t \in Turn |-> "idle"]
  /\ home \in [Turn -> Process]
  /\ got = [t \in Turn |-> NoCopy]
  /\ edits = 0 /\ clears = 0 /\ cleared = 0
  /\ floor = [t \in Turn |-> 0]
  /\ raced = FALSE /\ late = FALSE

Search(t) ==
  \/ SelectNewest(t) \/ LoadRow(t) \/ RowGone(t) \/ ReadBank(t) \/ Insert(t) \/ Commit(t) \/ Refresh(t)
  \/ SearchFails(t)

Next == (\E t \in Turn : Search(t)) \/ Edit \/ Clear

Spec == Init /\ [][Next]_vars

-----------------------------------------------------------------------------
Corpus == [id : {-1} \cup 1..lastId, of : 0..bank]

CacheTypeOK ==
  /\ bank \in Nat /\ lastId \in Nat
  /\ rows \subseteq [id : 1..lastId, of : 1..bank]
  /\ copy \in [Process -> Corpus]
  /\ pc \in [Turn -> Places] /\ home \in [Turn -> Process]
  /\ got \in [Turn -> Corpus]
  /\ floor \in [Turn -> 0..cleared]
  /\ edits \in 0..MaxEdit /\ clears \in 0..MaxClear /\ cleared \in 0..bank
  /\ raced \in BOOLEAN /\ late \in BOOLEAN

\* What a process takes for the corpus of a row is the corpus of that row,
\* whichever of its turns loaded or computed it last. Otherwise the id check
\* would keep a wrong corpus for good.
CopyIsItsRow == \A p \in Process, r \in rows : copy[p].id = r.id => copy[p] = r

\* DELETE FROM corpus_cache takes effect (app/models/corpus_cache.py): a
\* search that begins after it ranks the questions as they were then, or
\* newer ones, in every process. Two races are left: a corpus computed from
\* the old questions while the DELETE ran and stored after it, and a row
\* deleted between the two statements that read it (RowGone).
ClearTakesEffect == late => raced
=============================================================================
