------------------------------ MODULE UnitData ------------------------------
(***************************************************************************)
(* charmhelpers.core.unitdata: the key-value store of a unit, in SQLite.   *)
(* A Storage works on one connection, so on a private view of the file     *)
(* until it commits; hook_scope brackets a hook, gives it a row in "hooks" *)
(* and keeps what the hook changed in "kv_revisions", whose primary key is *)
(* (key, revision).                                                        *)
(*                                                                         *)
(* One key stands for what HookData itself writes ("env", "unit", "relid", *)
(* "charm_revisions").  The differences it computes are not state: they    *)
(* are taken against keys under "config" and "rels" that nothing sets.     *)
(***************************************************************************)
EXTENDS Naturals, FiniteSets

CONSTANTS Keys,      \* keys of the store
          Ranged,    \* the keys that match the prefix unsetrange is called with
          EnvKey,    \* the key HookData writes
          Values,    \* values, equal when their JSON is
          Absent,    \* "no row"
          Deleted,   \* the data of a row about a removed key
          Pattern,   \* the key of the row about a removed prefix
          MaxHooks   \* bound on rows of "hooks"

ASSUME KeysAssumption == Ranged \subseteq Keys /\ EnvKey \in Keys /\ Pattern \notin Keys
ASSUME ValuesAssumption == Absent \notin Values /\ Deleted \notin Values /\ Absent # Deleted
ASSUME MaxHooksAssumption == MaxHooks \in Nat

VARIABLES disk,       \* the committed database
          work,       \* the database as the connection sees it
          revision,   \* Storage.revision; 0 is None: no scope is open
          uses,       \* which calls the charm's code makes beyond those in a scope
          integrity   \* history: a call has raised IntegrityError

vars == <<disk, work, revision, uses, integrity>>

Calls == {"prefix", "flush", "unscoped"}

Data == Values \cup {Deleted, Absent}
Rows == [Keys \cup {Pattern} -> [1 .. MaxHooks -> Data]]

EmptyDb == [kv |-> [k \in Keys |-> Absent],
            revs |-> [k \in Keys \cup {Pattern} |-> [r \in 1 .. MaxHooks |-> Absent]],
            hooks |-> 0]

Init == /\ disk = EmptyDb
        /\ work = EmptyDb
        /\ revision = 0
        /\ uses \in SUBSET Calls
        /\ integrity = FALSE

-----------------------------------------------------------------------------
(***************************************************************************)
(* SQL: what one statement does to a database.                             *)
(***************************************************************************)
\* "insert into kv_revisions" or the update of the row that is there.
Record(db, k, r, d) ==
  IF r = 0 THEN db ELSE [db EXCEPT !.revs[k] = [@ EXCEPT ![r] = d]]

Recorded(db, k, r) == r # 0 /\ db.revs[k][r] # Absent

\* Mutant: only the first value a hook gives to a key is recorded.
AssignFirst(db, r, k, v) ==
  IF db.kv[k] = v THEN db
  ELSE IF Recorded(db, k, r) THEN [db EXCEPT !.kv[k] = v]
  ELSE Record([db EXCEPT !.kv[k] = v], k, r, v)

\* set(): an unchanged value is skipped, history included.
Assign(db, r, k, v) ==
  IF db.kv[k] = v THEN db ELSE Record([db EXCEPT !.kv[k] = v], k, r, v)

\* Mutant: a removed key keeps a row that says so.
WithoutMarked(db, S) ==
  [db EXCEPT !.kv = [k \in Keys |-> IF k \in S THEN Deleted ELSE db.kv[k]]]

Without(db, S) == [db EXCEPT !.kv = [k \in Keys |-> IF k \in S THEN Absent ELSE db.kv[k]]]

Present(db, S) == {k \in S : db.kv[k] # Absent}

\* The scope is open or the charm also writes outside of one.
MayWrite == revision # 0 \/ "unscoped" \in uses

\* Mutant: what the hook wrote stays pending on the connection.
RaiseNoRollback == /\ UNCHANGED work
                   /\ revision' = 0

\* An exception leaves hook_scope: flush(False), revision = None, raise.
Raise == /\ work' = disk
         /\ revision' = 0

-----------------------------------------------------------------------------
Set(k, v) ==
  /\ MayWrite
  /\ work' = Assign(work, revision, k, v)
  /\ UNCHANGED <<disk, revision, uses, integrity>>

(***************************************************************************)
(* Removals delete the rows of kv and, if any was there, INSERT rows about *)
(* it: a row that exists already violates the primary key.                 *)
(***************************************************************************)
Removal(S, about) ==
  /\ MayWrite
  /\ IF revision # 0 /\ Present(work, S) # {} /\ \E k \in about : Recorded(work, k, revision)
     THEN /\ Raise
          /\ integrity' = TRUE
     ELSE /\ work' = [Without(work, S) EXCEPT !.revs =
                        [k \in Keys \cup {Pattern} |->
                           IF k \in about /\ revision # 0 /\ Present(work, S) # {}
                           THEN [work.revs[k] EXCEPT ![revision] = Deleted]
                           ELSE work.revs[k]]]
          /\ UNCHANGED <<revision, integrity>>
  /\ UNCHANGED <<disk, uses>>

Unset(k) == Removal({k}, {k})

UnsetKeys(S) == Removal(S, S)

UnsetPrefix == "prefix" \in uses /\ Removal(Ranged, {Pattern})

-----------------------------------------------------------------------------
\* hook_scope(): the new row of "hooks" is the revision.
Scoped(db) == [db EXCEPT !.hooks = @ + 1]

\* Mutant: the number of the scope is read before its row is inserted.
HookScopeBefore ==
  /\ revision = 0
  /\ work.hooks < MaxHooks
  /\ work' = Scoped(work)
  /\ revision' = work.hooks
  /\ UNCHANGED <<disk, uses, integrity>>

HookScope ==
  /\ revision = 0
  /\ work.hooks < MaxHooks
  /\ work' = Scoped(work)
  /\ revision' = work.hooks + 1
  /\ UNCHANGED <<disk, uses, integrity>>

\* HookData.__call__: a scope is opened, and the environment is set.
HookData(env) ==
  /\ revision = 0
  /\ work.hooks < MaxHooks
  /\ revision' = work.hooks + 1
  /\ work' = Assign(Scoped(work), revision', EnvKey, env)
  /\ UNCHANGED <<disk, uses, integrity>>

\* The hook returns: revision = None, then commit.
LeaveScope ==
  /\ revision # 0
  /\ disk' = work
  /\ revision' = 0
  /\ UNCHANGED <<work, uses, integrity>>

\* The hook raises, also by opening a second scope (assert not self.revision).
HookRaises == /\ revision # 0
              /\ Raise
              /\ UNCHANGED <<disk, uses, integrity>>

\* The process ends without a commit, or calls close().
ProcessEnds == /\ Raise
               /\ UNCHANGED <<disk, uses, integrity>>

Flush ==
  /\ "flush" \in uses \/ (revision = 0 /\ "unscoped" \in uses)
  /\ disk' = work
  /\ UNCHANGED <<work, revision, uses, integrity>>

Next == \/ \E k \in Keys, v \in Values : Set(k, v)
        \/ \E k \in Keys : Unset(k)
        \/ \E S \in SUBSET Keys : UnsetKeys(S)
        \/ UnsetPrefix
        \/ HookScope
        \/ \E v \in Values : HookData(v)
        \/ LeaveScope
        \/ HookRaises
        \/ ProcessEnds
        \/ Flush

Spec == Init /\ [][Next]_vars

-----------------------------------------------------------------------------
Db == [kv : [Keys -> Values \cup {Absent}], revs : Rows, hooks : 0 .. MaxHooks]

\* Types of the two databases and of the scope.
TypeOK == /\ disk \in Db
          /\ work \in Db
          /\ revision \in 0 .. MaxHooks
          /\ uses \subseteq Calls
          /\ integrity \in BOOLEAN

\* The rows about k up to revision r, and what the last of them says.
Versions(db, k, r) == {q \in 1 .. r : db.revs[k][q] # Absent}

AsOf(db, k, r) ==
  LET vs == Versions(db, k, r)
      last == db.revs[k][CHOOSE q \in vs : \A p \in vs : p <= q]
  IN IF vs = {} \/ last = Deleted THEN Absent ELSE last

\* The history agrees with the store, in the middle of a hook too: unless the charm
\* writes outside of scopes, the last row about a key that is there tells its value;
\* and, unless it removes by prefix (which leaves a row about the prefix and none
\* about the keys), the last row about a key that is gone says that it is gone.
HistoryTellsStore ==
  "unscoped" \notin uses =>
    \A k \in Keys :
      work.kv[k] # Absent \/ "prefix" \notin uses => AsOf(work, k, work.hooks) = work.kv[k]

\* What a hook has left in the history stays, whatever later hooks, failures,
\* deaths (which give their revision number back) and flushes do: only rows of
\* the last hook are written, and only while it is open.
OldVersionsStand ==
  [][\A k \in Keys \cup {Pattern}, r \in 1 .. disk.hooks :
       (r = revision /\ r = work.hooks) \/ disk'.revs[k][r] = disk.revs[k][r]]_vars

\* No call in a scope violates the primary key of kv_revisions (unset: "Remove
\* a key from the database entirely").  False: a key that was set in the same
\* hook cannot be removed in it.
CallsSucceed == ~integrity

\* For a charm that keeps to scopes, Storage implements the abstract versioned store:
\* a version is what the rows of kv_revisions up to a committed hook say.
Plain == uses = {}

Abstract == INSTANCE VersionedStore
              WITH versions <- IF Plain
                               THEN [r \in 1 .. disk.hooks |-> [k \in Keys |-> AsOf(disk, k, r)]]
                               ELSE << >>,
                   draft <- IF Plain THEN work.kv ELSE EmptyDb.kv

AbstractSpec == Abstract!Spec
=============================================================================
