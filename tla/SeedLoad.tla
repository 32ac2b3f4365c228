------------------------------ MODULE SeedLoad ------------------------------
(***************************************************************************)
(* The seed loader (app/models/seed/load.py) beside the turns: it reads    *)
(* the tables it would fill one after the other, and everything it adds is *)
(* written by one commit at the end (the sessions do not autoflush). Two   *)
(* loaders may run at once. Three tables stand for the ten:                *)
(*   site    the four site_* tables, filled only when empty                *)
(*   keyed   consent_policy, code, doc_reference, scenario_reference: a    *)
(*           row is added only if its unique key is absent                 *)
(*   single  personality_reference and question_bank: filled only when     *)
(*           empty, without any key                                        *)
(***************************************************************************)
EXTENDS CorpusCache, FiniteSets

CONSTANT Loader  \* runs of python -m app.models.seed.load

VARIABLES
  site,       \* copies of the seed's rows in the site tables
  keyed,      \* the seed's keys are in the keyed tables
  copies,     \* copies of the seed's rows in question_bank
  stage,      \* where each loader is
  adds,       \* loader -> the tables it has added rows to, not yet flushed
  fresh,      \* history: the seed had keys to add
  overlapped  \* history: loaders ran at the same time

tables   == <<site, keyed, copies>>
seedVars == <<tables, stage, adds, fresh, overlapped>>

Loading == {"site", "keyed", "single", "commit"}
Table   == {"site", "keyed", "single"}

Enter(l, place) == stage' = [stage EXCEPT ![l] = place]

\* Rows are added to the session, not yet to the table.
Add(l, table, wanted) ==
  adds' = IF wanted THEN [adds EXCEPT ![l] = @ \cup {table}] ELSE adds

End(l) == Enter(l, "ended") /\ adds' = [adds EXCEPT ![l] = {}]

\* seed(): the schema is there, the loaders begin.
Begin(l) ==
  /\ stage[l] = "idle"
  /\ Enter(l, "site")
  /\ overlapped' = (overlapped \/ \E k \in Loader : stage[k] \in Loading)
  /\ UNCHANGED <<vars, tables, adds, fresh>>

LoadSite(l) ==
  /\ stage[l] = "site"
  /\ Add(l, "site", site = 0)
  /\ Enter(l, "keyed")
  /\ UNCHANGED <<vars, tables, fresh, overlapped>>

LoadKeyed(l) ==
  /\ stage[l] = "keyed"
  /\ Add(l, "keyed", ~keyed)
  /\ Enter(l, "single")
  /\ UNCHANGED <<vars, tables, fresh, overlapped>>

LoadSingle(l) ==
  /\ stage[l] = "single"
  /\ Add(l, "single", bank = 0)
  /\ Enter(l, "commit")
  /\ UNCHANGED <<vars, tables, fresh, overlapped>>

\* Mutant of Conflict: rows that violate a key are passed over (ON CONFLICT
\* DO NOTHING).
ConflictIgnored(l) == FALSE

\* A key this loader adds was committed by another since it looked.
Conflict(l) == "keyed" \in adds[l] /\ keyed

\* The one commit of the run.
CommitSeed(l) ==
  /\ stage[l] = "commit" /\ ~Conflict(l)
  /\ site'  = IF "site" \in adds[l] THEN site + 1 ELSE site
  /\ keyed' = (keyed \/ "keyed" \in adds[l])
  /\ IF "single" \in adds[l] THEN ChangeBank /\ copies' = copies + 1
                             ELSE UNCHANGED <<bank, copies>>
  /\ End(l)
  /\ UNCHANGED <<cache, copy, pc, search, edits, clears, history,
                 fresh, overlapped>>

\* A file does not validate, a statement fails, the flush violates a key, or
\* it is a --dry-run: the session is closed, and nothing of the run stays.
Abort(l) ==
  /\ stage[l] \in Loading
  /\ End(l)
  /\ UNCHANGED <<vars, tables, fresh, overlapped>>

\* question_bank is empty, or it has questions the seed did not add; the
\* keys are missing, or there is none to add.
SeedInit ==
  /\ Init
  /\ site \in {0, 1} /\ keyed \in BOOLEAN /\ copies = 0
  /\ stage = [l \in Loader |-> "idle"]
  /\ adds = [l \in Loader |-> {}]
  /\ fresh = ~keyed
  /\ overlapped = FALSE

Load(l) ==
  Begin(l) \/ LoadSite(l) \/ LoadKeyed(l) \/ LoadSingle(l) \/ CommitSeed(l) \/ Abort(l)

SeedNext ==
  \/ Next /\ UNCHANGED seedVars
  \/ \E l \in Loader : Load(l)

SeedSpec == SeedInit /\ [][SeedNext]_<<vars, seedVars>>

-----------------------------------------------------------------------------
TypeOK ==
  /\ CacheTypeOK
  /\ site \in Nat /\ keyed \in BOOLEAN /\ copies \in 0..bank
  /\ stage \in [Loader -> Loading \cup {"idle", "ended"}]
  /\ adds \in [Loader -> SUBSET Table]
  /\ fresh \in BOOLEAN /\ overlapped \in BOOLEAN

\* "Safe to point at any database": however often the loader runs, nothing
\* is there twice, unless runs overlapped. Even then question_bank is not
\* doubled when the seed brings new keys: the unique keys, looked up before
\* question_bank and written by the same commit, fail the second run whole.
LoadedOnce ==
  /\ ~overlapped => site <= 1 /\ copies <= 1
  /\ fresh => copies <= 1

\* A first load needs no DELETE FROM corpus_cache: as long as only the loader
\* wrote question_bank, and wrote it once, every stored corpus is that of the
\* table, although turns searched before, during and after the load.
LoadNeedsNoClear == edits = 0 /\ copies <= 1 => \A r \in rows : r.of = bank
=============================================================================
