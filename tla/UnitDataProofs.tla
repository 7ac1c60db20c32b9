--------------------------- MODULE UnitDataProofs ---------------------------
(***************************************************************************)
(* Proofs about UnitData, for any keys, any values and any number of       *)
(* hooks: its types, that the history tells the store, that old versions   *)
(* stand, and that it implements VersionedStore.                           *)
(***************************************************************************)
EXTENDS UnitData, SequenceTheorems, WellFoundedInduction, TLAPS

-----------------------------------------------------------------------------
(* The history of a key *)

\* A set of natural numbers up to a bound has a greatest one, if it has any.
LEMMA Greatest ==
    ASSUME NEW n \in Nat, NEW S \in SUBSET (1 .. n), S # {}
    PROVE  \E q \in S : \A p \in S : p <= q
<1> DEFINE T == {n - q : q \in S}
           Less == OpToRel(<, Nat)
<1>1. IsWellFoundedOn(Less, Nat)
  BY NatLessThanWellFounded
<1>2. T \subseteq Nat /\ T # {}
  <2>1. \A q \in S : n - q \in Nat
    OBVIOUS
  <2>2. PICK q \in S : TRUE
    OBVIOUS
  <2> QED
    BY <2>1, <2>2
<1>3. \A x, y \in Nat : <<y, x>> \in Less <=> y < x
  BY DEF OpToRel
<1>4. \E x \in T : \A y \in T : <<y, x>> \notin Less
  <2> HIDE DEF T, Less
  <2> QED
    BY <1>1, <1>2, WFMin
<1>5. PICK x \in T : \A y \in T : ~ (y < x)
  BY <1>2, <1>3, <1>4
<1>6. PICK q \in S : x = n - q
  OBVIOUS
<1>7. ASSUME NEW p \in S
      PROVE  p <= q
  <2>1. n - p \in T
    OBVIOUS
  <2> QED
    BY <1>5, <1>6, <2>1
<1> QED
  BY <1>7

\* The rows about k in two databases are the same up to r.
SameRows(a, b, k, r) == \A q \in 1 .. r : a.revs[k][q] = b.revs[k][q]

\* What the rows up to r say depends on these rows only.
LEMMA AsOfSame ==
    ASSUME NEW a, NEW b, NEW k, NEW r \in Nat, SameRows(a, b, k, r)
    PROVE  AsOf(a, k, r) = AsOf(b, k, r)
<1> DEFINE vs == Versions(a, k, r)
           q == CHOOSE v \in vs : \A p \in vs : p <= v
<1>1. Versions(b, k, r) = vs
  BY DEF SameRows, Versions
<1>2. CASE vs = {}
  BY <1>1, <1>2 DEF AsOf
<1>3. CASE vs # {}
  <2>1. q \in vs
    BY <1>3, Greatest DEF Versions
  <2>2. a.revs[k][q] = b.revs[k][q]
    BY <2>1 DEF SameRows, Versions
  <2> QED
    BY <1>1, <2>2 DEF AsOf
<1> QED
  BY <1>2, <1>3

\* A row at r is the last one up to r.
LEMMA AsOfLast ==
    ASSUME NEW db, NEW k, NEW r \in Nat \ {0}, db.revs[k][r] # Absent
    PROVE  AsOf(db, k, r) = IF db.revs[k][r] = Deleted THEN Absent ELSE db.revs[k][r]
<1> DEFINE vs == Versions(db, k, r)
           q == CHOOSE v \in vs : \A p \in vs : p <= v
<1>1. r \in vs /\ \A p \in vs : p \in 1 .. r
  BY DEF Versions
<1>2. q \in vs /\ \A p \in vs : p <= q
  BY <1>1
<1>3. q = r
  BY <1>1, <1>2
<1> QED
  BY <1>1, <1>3 DEF AsOf

\* Without a row at r, what is before it counts; nothing is before the first.
LEMMA AsOfSkip ==
    ASSUME NEW db, NEW k, NEW r \in Nat \ {0}, db.revs[k][r] = Absent
    PROVE  AsOf(db, k, r) = AsOf(db, k, r - 1)
<1>1. Versions(db, k, r) = Versions(db, k, r - 1)
  BY DEF Versions
<1> QED
  BY <1>1 DEF AsOf

LEMMA AsOfNothing == \A db, k : AsOf(db, k, 0) = Absent
BY DEF AsOf, Versions

-----------------------------------------------------------------------------
(* What the calls do, in five kinds of steps *)

AllKeys == Keys \cup {Pattern}

\* b is a after statements of the scope r: only rows of r are written, and what
\* becomes of a key is written there, unless the key goes with its prefix.
Edits(b, a, r) ==
    /\ b \in Db
    /\ b.hooks = a.hooks
    /\ \A k \in AllKeys, q \in 1 .. MaxHooks : q # r => b.revs[k][q] = a.revs[k][q]
    /\ r # 0 => \A k \in Keys :
         \/ b.kv[k] = a.kv[k] /\ b.revs[k] = a.revs[k]
         \/ b.revs[k][r] = IF b.kv[k] = Absent THEN Deleted ELSE b.kv[k]
         \/ "prefix" \in uses /\ b.kv[k] = Absent

EditStep == /\ MayWrite
            /\ Edits(work', work, revision)
            /\ UNCHANGED <<disk, revision, uses>>

OpenStep == /\ revision = 0 /\ work.hooks < MaxHooks
            /\ revision' = work.hooks + 1
            /\ Edits(work', Scoped(work), revision')
            /\ UNCHANGED <<disk, uses>>

AbortStep == Raise /\ UNCHANGED <<disk, uses>>

CommitStep == LeaveScope

FlushStep == Flush

LEMMA AssignEdits ==
    ASSUME NEW db \in Db, NEW r \in 0 .. MaxHooks, NEW k \in Keys, NEW v \in Values
    PROVE  Edits(Assign(db, r, k, v), db, r)
<1> DEFINE kv == [db.kv EXCEPT ![k] = v]
           row == [db.revs[k] EXCEPT ![r] = v]
           revs == [db.revs EXCEPT ![k] = row]
<1>t. /\ db.kv \in [Keys -> Values \cup {Absent}]
      /\ db.revs \in [AllKeys -> [1 .. MaxHooks -> Data]]
      /\ db.hooks \in 0 .. MaxHooks
      /\ k \in AllKeys /\ v \in Data /\ v # Absent
  BY ValuesAssumption DEF Db, Rows, AllKeys, Data
<1>1. CASE db.kv[k] = v
  BY <1>1, <1>t DEF Assign, Edits, AllKeys
<1>2. CASE db.kv[k] # v /\ r = 0
  <2>1. Assign(db, r, k, v) = [db EXCEPT !.kv = kv]
    BY <1>2 DEF Assign, Record
  <2>2. [db EXCEPT !.kv = kv] = [kv |-> kv, revs |-> db.revs, hooks |-> db.hooks]
    BY DEF Db
  <2>3. kv \in [Keys -> Values \cup {Absent}]
    BY <1>t
  <2> HIDE DEF kv
  <2> QED
    BY <1>2, <1>t, <2>1, <2>2, <2>3 DEF Edits, Db, Rows, AllKeys
<1>3. CASE db.kv[k] # v /\ r # 0
  <2>1. Assign(db, r, k, v) = [[db EXCEPT !.kv = kv] EXCEPT !.revs = revs]
    BY <1>3 DEF Assign, Record, Db
  <2>2. Assign(db, r, k, v) = [kv |-> kv, revs |-> revs, hooks |-> db.hooks]
    <3> HIDE DEF kv, revs, row
    <3>1. [db EXCEPT !.kv = kv] = [kv |-> kv, revs |-> db.revs, hooks |-> db.hooks]
      BY DEF Db
    <3>2. [[kv |-> kv, revs |-> db.revs, hooks |-> db.hooks] EXCEPT !.revs = revs]
            = [kv |-> kv, revs |-> revs, hooks |-> db.hooks]
      OBVIOUS
    <3> QED
      BY <2>1, <3>1, <3>2
  <2>3. kv \in [Keys -> Values \cup {Absent}]
    BY <1>t
  <2>4. row \in [1 .. MaxHooks -> Data]
    BY <1>t, <1>3
  <2>5. revs \in [AllKeys -> [1 .. MaxHooks -> Data]]
    BY <1>t, <2>4
  <2>6. /\ \A j \in Keys \ {k} : kv[j] = db.kv[j]
        /\ kv[k] = v
    BY <1>t
  <2>8. /\ \A q \in 1 .. MaxHooks : q # r => row[q] = db.revs[k][q]
        /\ row[r] = v
    <3>1. db.revs[k] \in [1 .. MaxHooks -> Data] /\ r \in 1 .. MaxHooks
      BY <1>t, <1>3
    <3> QED
      BY <3>1
  <2>9. /\ \A j \in AllKeys \ {k} : revs[j] = db.revs[j]
        /\ revs[k] = row
    <3> HIDE DEF row
    <3> QED
      BY <1>t
  <2> HIDE DEF kv, revs, row
  <2>7. [kv |-> kv, revs |-> revs, hooks |-> db.hooks] \in Db
    BY <1>t, <2>3, <2>5 DEF Db, Rows, AllKeys
  <2> QED
    BY <1>t, <2>2, <2>6, <2>7, <2>8, <2>9 DEF Edits, AllKeys
<1> QED
  BY <1>1, <1>2, <1>3

\* The database after a removal that succeeds.
Removed(db, S, about, r) ==
    [Without(db, S) EXCEPT !.revs =
        [k \in AllKeys |-> IF k \in about /\ r # 0 /\ Present(db, S) # {}
                           THEN [db.revs[k] EXCEPT ![r] = Deleted]
                           ELSE db.revs[k]]]

LEMMA RemovedEdits ==
    ASSUME NEW db \in Db, NEW r \in 0 .. MaxHooks, NEW S \in SUBSET Keys, NEW about,
           about = S \/ (about = {Pattern} /\ "prefix" \in uses)
    PROVE  Edits(Removed(db, S, about, r), db, r)
<1> DEFINE written == r # 0 /\ Present(db, S) # {}
           kv == [k \in Keys |-> IF k \in S THEN Absent ELSE db.kv[k]]
           revs == [k \in AllKeys |-> IF k \in about /\ written
                                      THEN [db.revs[k] EXCEPT ![r] = Deleted]
                                      ELSE db.revs[k]]
<1>t. /\ db.kv \in [Keys -> Values \cup {Absent}]
      /\ db.revs \in [AllKeys -> [1 .. MaxHooks -> Data]]
      /\ db.hooks \in 0 .. MaxHooks
      /\ Deleted \in Data
  BY DEF Db, Rows, AllKeys, Data
<1>1. Removed(db, S, about, r) = [kv |-> kv, revs |-> revs, hooks |-> db.hooks]
  <2>1. Without(db, S) = [kv |-> kv, revs |-> db.revs, hooks |-> db.hooks]
    <3>1. Without(db, S) = [db EXCEPT !.kv = kv]
      BY DEF Without
    <3> HIDE DEF kv
    <3> QED
      BY <3>1 DEF Db
  <2>2. Removed(db, S, about, r) = [Without(db, S) EXCEPT !.revs = revs]
    BY DEF Removed
  <2> HIDE DEF kv, revs
  <2> QED
    BY <2>1, <2>2
<1>2. kv \in [Keys -> Values \cup {Absent}]
  BY <1>t
<1>3. ASSUME NEW k \in AllKeys
      PROVE  /\ revs[k] \in [1 .. MaxHooks -> Data]
             /\ \A q \in 1 .. MaxHooks : q # r => revs[k][q] = db.revs[k][q]
             /\ k \in about /\ written => revs[k][r] = Deleted
             /\ k \notin about \/ ~written => revs[k] = db.revs[k]
  <2>1. db.revs[k] \in [1 .. MaxHooks -> Data]
    BY <1>t
  <2>2. CASE k \in about /\ written
    <3>1. revs[k] = [db.revs[k] EXCEPT ![r] = Deleted] /\ r \in 1 .. MaxHooks
      BY <2>2
    <3> HIDE DEF revs, written
    <3> QED
      BY <2>1, <2>2, <3>1, <1>t
  <2>3. CASE ~(k \in about /\ written)
    <3>1. revs[k] = db.revs[k]
      BY <2>3
    <3> HIDE DEF revs, written
    <3> QED
      BY <2>1, <2>3, <3>1
  <2> QED
    BY <2>2, <2>3
<1>4. ASSUME NEW k \in Keys, r # 0
      PROVE  \/ kv[k] = db.kv[k] /\ revs[k] = db.revs[k]
             \/ revs[k][r] = IF kv[k] = Absent THEN Deleted ELSE kv[k]
             \/ "prefix" \in uses /\ kv[k] = Absent
  <2>1. k \in AllKeys /\ k # Pattern
    BY KeysAssumption DEF AllKeys
  <2>2. CASE k \notin S
    <3>1. kv[k] = db.kv[k] /\ k \notin about
      BY <2>1, <2>2
    <3> QED
      BY <1>3, <2>1, <3>1
  <2>3. CASE k \in S /\ about # S
    BY <2>3
  <2>4. CASE k \in S /\ about = S /\ written
    <3>1. revs[k][r] = Deleted
      BY <1>3, <2>1, <2>4
    <3> QED
      BY <3>1, <2>4
  <2>5. CASE k \in S /\ ~written
    <3>1. kv[k] = db.kv[k]
      BY <2>5, <1>4 DEF Present
    <3> QED
      BY <1>3, <2>1, <2>5, <3>1
  <2> QED
    BY <2>2, <2>3, <2>4, <2>5
<1>5. revs \in [AllKeys -> [1 .. MaxHooks -> Data]]
  BY <1>3
<1> HIDE DEF kv, revs, written
<1>6. [kv |-> kv, revs |-> revs, hooks |-> db.hooks] \in Db
  BY <1>t, <1>2, <1>5 DEF Db, Rows, AllKeys
<1> QED
  BY <1>1, <1>3, <1>4, <1>6 DEF Edits

LEMMA ScopedType ==
    ASSUME NEW db \in Db, db.hooks < MaxHooks
    PROVE  /\ Scoped(db) \in Db
           /\ Scoped(db).kv = db.kv /\ Scoped(db).revs = db.revs
           /\ Scoped(db).hooks = db.hooks + 1
BY MaxHooksAssumption DEF Scoped, Db

LEMMA RemovalKind ==
    ASSUME TypeOK, NEW S \in SUBSET Keys, NEW about,
           about = S \/ (about = {Pattern} /\ "prefix" \in uses),
           Removal(S, about)
    PROVE  EditStep \/ AbortStep
<1>1. CASE work' = Removed(work, S, about, revision) /\ UNCHANGED revision
  BY <1>1, RemovedEdits DEF EditStep, Removal, TypeOK
<1>2. CASE Raise
  BY <1>2 DEF AbortStep, Removal
<1> QED
  BY <1>1, <1>2 DEF Removal, Removed, AllKeys

LEMMA Kinds ==
    ASSUME TypeOK, [Next]_vars
    PROVE  EditStep \/ OpenStep \/ AbortStep \/ CommitStep \/ FlushStep \/ UNCHANGED vars
<1>t. work \in Db /\ revision \in 0 .. MaxHooks
  BY DEF TypeOK
<1>1. ASSUME NEW k \in Keys, NEW v \in Values, Set(k, v)
      PROVE  EditStep
  BY <1>1, <1>t, AssignEdits DEF Set, EditStep
<1>2. ASSUME NEW k \in Keys, Unset(k)
      PROVE  EditStep \/ AbortStep
  BY <1>2, RemovalKind DEF Unset
<1>3. ASSUME NEW S \in SUBSET Keys, UnsetKeys(S)
      PROVE  EditStep \/ AbortStep
  BY <1>3, RemovalKind DEF UnsetKeys
<1>4. CASE UnsetPrefix
  BY <1>4, RemovalKind, KeysAssumption DEF UnsetPrefix
<1>5. CASE HookScope
  BY <1>5, <1>t, ScopedType DEF HookScope, OpenStep, Edits
<1>6. ASSUME NEW v \in Values, HookData(v)
      PROVE  OpenStep
  <2>1. revision' \in 0 .. MaxHooks
    BY <1>6, <1>t, MaxHooksAssumption DEF HookData, Db
  <2>2. Edits(work', Scoped(work), revision')
    BY <1>6, <1>t, <2>1, ScopedType, AssignEdits, KeysAssumption DEF HookData
  <2> QED
    BY <1>6, <2>2 DEF HookData, OpenStep
<1>7. CASE HookRaises \/ ProcessEnds
  BY <1>7 DEF HookRaises, ProcessEnds, AbortStep
<1> QED
  BY <1>1, <1>2, <1>3, <1>4, <1>5, <1>6, <1>7 DEF Next, CommitStep, FlushStep

\* Only the kind of removal that fails touches the history variable.
LEMMA HistoryType == TypeOK /\ [Next]_vars => integrity' \in BOOLEAN /\ uses' = uses
BY DEF TypeOK, Next, vars, Set, Unset, UnsetKeys, UnsetPrefix, Removal, HookScope, HookData,
       LeaveScope, HookRaises, ProcessEnds, Flush

LEMMA InitType == Init => TypeOK
<1> SUFFICES ASSUME Init PROVE TypeOK
  OBVIOUS
<1>1. EmptyDb \in Db
  BY MaxHooksAssumption DEF EmptyDb, Db, Rows, Data
<1>2. disk \in Db /\ work \in Db /\ integrity \in BOOLEAN
  BY <1>1 DEF Init
<1>3. revision \in 0 .. MaxHooks
  BY MaxHooksAssumption DEF Init
<1>4. uses \subseteq Calls
  BY DEF Init
<1> QED
  BY <1>2, <1>3, <1>4 DEF TypeOK

LEMMA StepType == TypeOK /\ [Next]_vars => TypeOK'
<1> SUFFICES ASSUME TypeOK, [Next]_vars PROVE TypeOK'
  OBVIOUS
<1> USE DEF TypeOK
<1>1. integrity' \in BOOLEAN /\ uses' \subseteq Calls
  BY HistoryType
<1>2. CASE EditStep
  BY <1>1, <1>2 DEF EditStep, Edits
<1>3. CASE OpenStep
  <2>1. revision' \in 0 .. MaxHooks
    BY <1>3, MaxHooksAssumption DEF OpenStep, Db
  <2> QED
    BY <1>1, <1>3, <2>1 DEF OpenStep, Edits
<1>4. CASE AbortStep
  BY <1>1, <1>4, MaxHooksAssumption DEF AbortStep, Raise
<1>5. CASE CommitStep
  BY <1>1, <1>5, MaxHooksAssumption DEF CommitStep, LeaveScope
<1>6. CASE FlushStep
  BY <1>1, <1>6 DEF FlushStep, Flush
<1>7. CASE UNCHANGED vars
  BY <1>7 DEF vars
<1> QED
  BY <1>2, <1>3, <1>4, <1>5, <1>6, <1>7, Kinds

\* Every variable keeps its type: the databases stay tables of known keys, values and
\* hooks, whatever calls, failures and deaths of the process follow each other.
THEOREM TypeCorrect == Spec => []TypeOK
BY InitType, StepType, PTL DEF Spec

-----------------------------------------------------------------------------
(* Old versions stand: what the connection sees differs from the file in rows of the *)
(* open scope only, and the open scope is the last hook.                             *)

Blank(db) == \A k \in AllKeys, q \in 1 .. MaxHooks : q > db.hooks => db.revs[k][q] = Absent

ScopeInv ==
    /\ revision # 0 => revision = work.hooks
    /\ work.hooks = disk.hooks \/ (revision # 0 /\ work.hooks = disk.hooks + 1)
    /\ Plain /\ revision # 0 => work.hooks = disk.hooks + 1

RowsInv ==
    /\ Blank(disk) /\ Blank(work)
    /\ \A k \in AllKeys, q \in 1 .. MaxHooks : q # revision => work.revs[k][q] = disk.revs[k][q]

VersionInv == ScopeInv /\ RowsInv

LEMMA InitVersion == Init => VersionInv
BY DEF Init, EmptyDb, VersionInv, ScopeInv, RowsInv, Blank, AllKeys

LEMMA EditsBlank ==
    ASSUME NEW a \in Db, NEW b, NEW r \in 0 .. MaxHooks,
           Edits(b, a, r), Blank(a), r <= a.hooks
    PROVE  Blank(b)
BY DEF Edits, Blank, Db

LEMMA StepVersion == TypeOK /\ VersionInv /\ [Next]_vars => VersionInv'
<1> SUFFICES ASSUME TypeOK, VersionInv, [Next]_vars PROVE VersionInv'
  OBVIOUS
<1>t. /\ disk \in Db /\ work \in Db /\ revision \in 0 .. MaxHooks
      /\ disk.hooks \in Nat /\ work.hooks \in Nat /\ MaxHooks \in Nat
  BY MaxHooksAssumption DEF TypeOK, Db
<1>u. uses' = uses
  BY HistoryType
<1>1. CASE EditStep
  <2>1. Blank(work)'
    BY <1>1, <1>t, EditsBlank DEF EditStep, VersionInv, RowsInv, ScopeInv, Blank
  <2>2. ScopeInv'
    BY <1>1, <1>u DEF EditStep, Edits, VersionInv, ScopeInv, Plain
  <2>3. RowsInv'
    BY <1>1, <2>1 DEF EditStep, Edits, VersionInv, RowsInv, Blank
  <2> QED
    BY <2>2, <2>3 DEF VersionInv
<1>2. CASE OpenStep
  <2>1. /\ Scoped(work) \in Db /\ Scoped(work).hooks = work.hooks + 1
        /\ Scoped(work).revs = work.revs
    BY <1>2, <1>t, ScopedType DEF OpenStep
  <2>2. /\ revision = 0 /\ revision' = work.hooks + 1 /\ revision' \in 0 .. MaxHooks
        /\ disk' = disk /\ work'.hooks = work.hooks + 1
    BY <1>2, <1>t, <2>1 DEF OpenStep, Edits
  <2>3. work.hooks = disk.hooks
    BY <2>2 DEF VersionInv, ScopeInv
  <2>4. Blank(Scoped(work))
    BY <1>t, <2>1 DEF VersionInv, RowsInv, Blank
  <2>5. Blank(work')
    BY <1>2, <2>1, <2>2, <2>4, EditsBlank DEF OpenStep
  <2>6. ScopeInv'
    BY <1>t, <2>2, <2>3 DEF ScopeInv
  <2>7. \A k \in AllKeys, q \in 1 .. MaxHooks : q # revision' => work'.revs[k][q] = disk.revs[k][q]
    BY <1>2, <1>t, <2>1, <2>2 DEF OpenStep, Edits, VersionInv, RowsInv
  <2> QED
    BY <2>2, <2>5, <2>6, <2>7 DEF VersionInv, RowsInv, Blank
<1>3. CASE AbortStep
  BY <1>3 DEF AbortStep, Raise, VersionInv, ScopeInv, RowsInv, Blank
<1>4. CASE CommitStep
  BY <1>4 DEF CommitStep, LeaveScope, VersionInv, ScopeInv, RowsInv, Blank
<1>5. CASE FlushStep
  <2>1. ~Plain
    BY <1>5 DEF FlushStep, Flush, Plain
  <2> QED
    BY <1>5, <1>u, <2>1 DEF FlushStep, Flush, VersionInv, ScopeInv, RowsInv, Blank, Plain
<1>6. CASE UNCHANGED vars
  BY <1>6 DEF vars, VersionInv, ScopeInv, RowsInv, Blank, Plain
<1> QED
  BY <1>1, <1>2, <1>3, <1>4, <1>5, <1>6, Kinds

LEMMA VersionInvariant == Spec => [](TypeOK /\ VersionInv)
BY InitType, StepType, InitVersion, StepVersion, PTL DEF Spec

LEMMA StepKeepsRows ==
    ASSUME TypeOK, VersionInv, [Next]_vars, NEW k \in AllKeys, NEW r \in 1 .. disk.hooks
    PROVE  (r = revision /\ r = work.hooks) \/ disk'.revs[k][r] = disk.revs[k][r]
<1>1. disk' = disk \/ disk' = work
  BY Kinds DEF EditStep, OpenStep, AbortStep, CommitStep, LeaveScope, FlushStep, Flush, vars
<1>2. r \in 1 .. MaxHooks
  BY MaxHooksAssumption DEF TypeOK, Db
<1> QED
  BY <1>1, <1>2 DEF VersionInv, RowsInv, ScopeInv

\* Rows about earlier hooks are never written again, although a hook that failed gives
\* its number to the next one.
THEOREM VersionsStand == Spec => OldVersionsStand
<1>1. TypeOK /\ VersionInv /\ [Next]_vars =>
        [\A k \in Keys \cup {Pattern}, r \in 1 .. disk.hooks :
           (r = revision /\ r = work.hooks) \/ disk'.revs[k][r] = disk.revs[k][r]]_vars
  BY StepKeepsRows DEF AllKeys
<1> QED
  BY <1>1, VersionInvariant, PTL DEF Spec, OldVersionsStand

-----------------------------------------------------------------------------
(* The history tells the store, in the file as well as on the connection. *)

Tells(db) == \A k \in Keys : db.kv[k] # Absent \/ "prefix" \notin uses =>
                                AsOf(db, k, db.hooks) = db.kv[k]

TellsInv == "unscoped" \notin uses => Tells(disk) /\ Tells(work)

LEMMA InitTells == Init => TellsInv
BY AsOfNothing DEF Init, EmptyDb, TellsInv, Tells

\* Statements of the last scope keep the history true.
LEMMA EditsTells ==
    ASSUME NEW a \in Db, NEW b, NEW r \in 1 .. MaxHooks,
           Edits(b, a, r), Tells(a), r = a.hooks
    PROVE  Tells(b)
<1> SUFFICES ASSUME NEW k \in Keys, b.kv[k] # Absent \/ "prefix" \notin uses
             PROVE  AsOf(b, k, b.hooks) = b.kv[k]
  BY DEF Tells
<1>t. /\ b.hooks = r /\ r \in Nat \ {0}
      /\ b.kv[k] \in Values \cup {Absent}
  BY MaxHooksAssumption DEF Edits, Db
<1>1. CASE b.kv[k] = a.kv[k] /\ b.revs[k] = a.revs[k]
  <2>1. AsOf(b, k, r) = AsOf(a, k, r)
    BY <1>1, <1>t, AsOfSame DEF SameRows
  <2> QED
    BY <1>1, <1>t, <2>1 DEF Tells
<1>2. CASE b.revs[k][r] = IF b.kv[k] = Absent THEN Deleted ELSE b.kv[k]
  <2>1. b.revs[k][r] # Absent
    BY <1>2, ValuesAssumption
  <2>2. AsOf(b, k, r) = IF b.revs[k][r] = Deleted THEN Absent ELSE b.revs[k][r]
    BY <1>t, <2>1, AsOfLast
  <2> QED
    BY <1>2, <1>t, <2>2, ValuesAssumption
<1> QED
  BY <1>t, <1>1, <1>2 DEF Edits

\* A new row of "hooks" changes nothing of what the history says.
LEMMA ScopedTells ==
    ASSUME NEW db \in Db, db.hooks < MaxHooks, Blank(db), Tells(db)
    PROVE  Tells(Scoped(db))
<1> DEFINE r == db.hooks + 1
<1>1. /\ r \in Nat \ {0} /\ r \in 1 .. MaxHooks /\ r - 1 = db.hooks
      /\ Scoped(db).kv = db.kv /\ Scoped(db).revs = db.revs /\ Scoped(db).hooks = r
  BY ScopedType, MaxHooksAssumption DEF Db
<1>2. ASSUME NEW k \in Keys
      PROVE  AsOf(Scoped(db), k, r) = AsOf(db, k, db.hooks)
  <2>1. Scoped(db).revs[k][r] = Absent
    BY <1>1 DEF Blank, AllKeys
  <2>2. AsOf(Scoped(db), k, r) = AsOf(Scoped(db), k, r - 1)
    BY <1>1, <2>1, AsOfSkip
  <2>3. AsOf(Scoped(db), k, db.hooks) = AsOf(db, k, db.hooks)
    BY <1>1, AsOfSame DEF SameRows, Db
  <2> QED
    BY <1>1, <2>2, <2>3
<1> QED
  BY <1>1, <1>2 DEF Tells

LEMMA StepTells == TypeOK /\ VersionInv /\ TellsInv /\ [Next]_vars => TellsInv'
<1> SUFFICES ASSUME TypeOK, VersionInv, TellsInv, [Next]_vars, "unscoped" \notin uses
             PROVE  Tells(disk)' /\ Tells(work)'
  BY HistoryType DEF TellsInv
<1>t. /\ disk \in Db /\ work \in Db /\ revision \in 0 .. MaxHooks
      /\ Tells(disk) /\ Tells(work) /\ uses' = uses
  BY HistoryType DEF TypeOK, TellsInv
<1>1. CASE EditStep
  <2>1. revision \in 1 .. MaxHooks /\ revision = work.hooks
    BY <1>1, <1>t, MaxHooksAssumption DEF EditStep, MayWrite, VersionInv, ScopeInv
  <2>2. Tells(work')
    BY <1>1, <1>t, <2>1, EditsTells DEF EditStep
  <2> QED
    BY <1>1, <1>t, <2>2 DEF EditStep, Tells
<1>2. CASE OpenStep
  <2>1. Scoped(work) \in Db /\ Scoped(work).hooks = work.hooks + 1 /\ Tells(Scoped(work))
    BY <1>2, <1>t, ScopedType, ScopedTells DEF OpenStep, VersionInv, RowsInv
  <2>2. revision' = Scoped(work).hooks /\ revision' \in 1 .. MaxHooks
    BY <1>2, <1>t, <2>1, MaxHooksAssumption DEF OpenStep, Db
  <2>3. Tells(work')
    BY <1>2, <2>1, <2>2, EditsTells DEF OpenStep
  <2> QED
    BY <1>2, <1>t, <2>3 DEF OpenStep, Tells
<1>3. CASE AbortStep
  BY <1>3, <1>t DEF AbortStep, Raise, Tells
<1>4. CASE CommitStep \/ FlushStep
  BY <1>4, <1>t DEF CommitStep, LeaveScope, FlushStep, Flush, Tells
<1>5. CASE UNCHANGED vars
  BY <1>5, <1>t DEF vars, Tells
<1> QED
  BY <1>1, <1>2, <1>3, <1>4, <1>5, Kinds

LEMMA TellsInvariant == Spec => []TellsInv
BY InitTells, StepTells, VersionInvariant, PTL DEF Spec

\* For every key the last row of the history tells what is stored, in the middle of a
\* hook as well; the exceptions are those of HistoryTellsStore.
THEOREM HistoryIsTold == Spec => []HistoryTellsStore
<1>1. TellsInv => HistoryTellsStore
  BY DEF TellsInv, Tells, HistoryTellsStore
<1> QED
  BY <1>1, TellsInvariant, PTL

-----------------------------------------------------------------------------
(* Refinement: the file is the last version, the connection the draft. *)

VersionsOf(db) == [r \in 1 .. db.hooks |-> [k \in Keys |-> AsOf(db, k, r)]]

LEMMA FunctionIsSeq ==
    ASSUME NEW n \in Nat, NEW S, NEW f \in [1 .. n -> S]
    PROVE  /\ f \in Seq(S)
           /\ Len(f) = n
           /\ n = 0 <=> f = << >>
<1>1. f \in Seq(S)
  BY SeqDef
<1>2. DOMAIN f = 1 .. Len(f) /\ Len(f) \in Nat
  BY <1>1, LenProperties
<1>3. Len(f) = n
  BY <1>2
<1> QED
  BY <1>1, <1>3, EmptySeq

LEMMA VersionsSeq ==
    ASSUME NEW db, db.hooks \in Nat,
           NEW S, \A r \in 1 .. db.hooks : [k \in Keys |-> AsOf(db, k, r)] \in S
    PROVE  /\ VersionsOf(db) \in Seq(S)
           /\ Len(VersionsOf(db)) = db.hooks
           /\ db.hooks = 0 <=> VersionsOf(db) = << >>
<1>1. VersionsOf(db) \in [1 .. db.hooks -> S]
  BY DEF VersionsOf
<1> QED
  BY <1>1, FunctionIsSeq

LEMMA VersionsLen ==
    ASSUME NEW db, db.hooks \in Nat
    PROVE  /\ Len(VersionsOf(db)) = db.hooks
           /\ db.hooks = 0 <=> VersionsOf(db) = << >>
<1> DEFINE S == {[k \in Keys |-> AsOf(db, k, r)] : r \in 1 .. db.hooks}
<1>1. \A r \in 1 .. db.hooks : [k \in Keys |-> AsOf(db, k, r)] \in S
  OBVIOUS
<1> HIDE DEF S
<1> QED
  BY <1>1, VersionsSeq

LEMMA LastOf ==
    ASSUME Plain
    PROVE  Abstract!Last = IF VersionsOf(disk) = << >> THEN [k \in Keys |-> Absent]
                           ELSE VersionsOf(disk)[Len(VersionsOf(disk))]
<1> DEFINE bar == IF Plain THEN [r \in 1 .. disk.hooks |-> [k \in Keys |-> AsOf(disk, k, r)]]
                  ELSE << >>
<1>1. bar = VersionsOf(disk)
  BY DEF VersionsOf
<1>2. Abstract!Last = IF bar = << >> THEN [k \in Keys |-> Absent] ELSE bar[Len(bar)]
  BY DEF Abstract!Last
<1> HIDE DEF bar
<1> QED
  BY <1>1, <1>2

\* The last version is what the file stores.
LEMMA LastVersion ==
    ASSUME TypeOK, TellsInv, Plain
    PROVE  Abstract!Last = disk.kv
<1>t. disk.kv \in [Keys -> Values \cup {Absent}] /\ disk.hooks \in Nat
  BY MaxHooksAssumption DEF TypeOK, Db
<1>1. disk.kv = [k \in Keys |-> AsOf(disk, k, disk.hooks)]
  <2>1. \A k \in Keys : AsOf(disk, k, disk.hooks) = disk.kv[k]
    BY DEF TellsInv, Tells, Plain
  <2> QED
    BY <1>t, <2>1
<1>2. CASE disk.hooks = 0
  <2>1. disk.kv = [k \in Keys |-> Absent]
    BY <1>1, <1>2, AsOfNothing
  <2> QED
    BY <1>2, <1>t, <2>1, VersionsLen, LastOf
<1>3. CASE disk.hooks # 0
  <2>1. VersionsOf(disk) # << >> /\ Len(VersionsOf(disk)) = disk.hooks
    BY <1>3, <1>t, VersionsLen
  <2>2. VersionsOf(disk)[disk.hooks] = [k \in Keys |-> AsOf(disk, k, disk.hooks)]
    BY <1>3, <1>t DEF VersionsOf
  <2> QED
    BY <1>1, <2>1, <2>2, LastOf
<1> QED
  BY <1>2, <1>3

LEMMA InitAbstract == Init => Abstract!Init
<1> SUFFICES ASSUME Init PROVE Abstract!Init
  OBVIOUS
<1>1. disk.hooks = 0 /\ work.kv = EmptyDb.kv
  BY DEF Init, EmptyDb
<1>2. VersionsOf(disk) = << >>
  BY <1>1, VersionsLen
<1> QED
  BY <1>1, <1>2 DEF VersionsOf, Abstract!Init, EmptyDb

\* A hook that commits appends what the connection sees.
LEMMA CommitAppends ==
    ASSUME TypeOK, VersionInv, TellsInv, Plain, CommitStep
    PROVE  VersionsOf(work) = Append(VersionsOf(disk), work.kv)
<1> DEFINE n == disk.hooks
           a == VersionsOf(work)
           b == VersionsOf(disk)
           S == {work.kv} \cup {[k \in Keys |-> AsOf(disk, k, r)] : r \in 1 .. n}
<1>t. /\ n \in Nat /\ work.hooks = n + 1 /\ work.hooks = revision
      /\ work.hooks \in 1 .. MaxHooks
      /\ work.kv \in [Keys -> Values \cup {Absent}]
  BY MaxHooksAssumption DEF TypeOK, Db, VersionInv, ScopeInv, CommitStep, LeaveScope
<1>1. a[n + 1] = work.kv
  <2>1. \A k \in Keys : AsOf(work, k, work.hooks) = work.kv[k]
    BY DEF TellsInv, Tells, Plain
  <2>2. a[n + 1] = [k \in Keys |-> AsOf(work, k, work.hooks)]
    BY <1>t DEF VersionsOf
  <2> QED
    BY <1>t, <2>1, <2>2
<1>2. ASSUME NEW r \in 1 .. n
      PROVE  a[r] = b[r]
  <2>1. ASSUME NEW k \in Keys
        PROVE  AsOf(work, k, r) = AsOf(disk, k, r)
    <3>1. SameRows(work, disk, k, r)
      BY <1>t, MaxHooksAssumption DEF SameRows, VersionInv, RowsInv, AllKeys
    <3> QED
      BY <3>1, AsOfSame
  <2> QED
    BY <1>t, <2>1 DEF VersionsOf
<1>3. b \in Seq(S) /\ Len(b) = n
  <2>1. \A r \in 1 .. n : [k \in Keys |-> AsOf(disk, k, r)] \in S
    OBVIOUS
  <2> HIDE DEF S
  <2> QED
    BY <1>t, <2>1, VersionsSeq
<1>4. work.kv \in S
  OBVIOUS
<1>5. a \in Seq(S) /\ Len(a) = n + 1
  <2>1. ASSUME NEW r \in 1 .. n + 1
        PROVE  a[r] \in S
    <3>1. CASE r = n + 1
      BY <1>1, <1>4, <3>1
    <3>2. CASE r \in 1 .. n
      <4> HIDE DEF a, b, S
      <4> QED
        BY <1>2, <1>3, <3>2, ElementOfSeq
    <3> QED
      BY <1>t, <3>1, <3>2
  <2>2. a \in [1 .. n + 1 -> S]
    <3>1. a = [r \in 1 .. n + 1 |-> a[r]]
      BY <1>t DEF VersionsOf
    <3> HIDE DEF a, S
    <3> QED
      BY <2>1, <3>1
  <2> HIDE DEF a, S
  <2> QED
    BY <1>t, <2>2, FunctionIsSeq
<1> HIDE DEF a, b, S
<1>6. /\ Append(b, work.kv) \in Seq(S)
      /\ Len(Append(b, work.kv)) = n + 1
      /\ \A i \in 1 .. n : Append(b, work.kv)[i] = b[i]
      /\ Append(b, work.kv)[n + 1] = work.kv
  BY <1>3, <1>4, AppendProperties
<1>7. \A i \in 1 .. n + 1 : a[i] = Append(b, work.kv)[i]
  BY <1>t, <1>1, <1>2, <1>6
<1> QED
  BY <1>5, <1>6, <1>7, SeqEqual DEF a, b

\* For a charm that keeps to scopes the mapped variables are what they seem to be.
LEMMA Bars ==
    ASSUME Plain, Plain'
    PROVE  /\ Abstract!vars = <<VersionsOf(disk), work.kv>>
           /\ Abstract!vars' = <<VersionsOf(disk'), work'.kv>>
           /\ Abstract!Edit <=> work'.kv \in [Keys -> Values \cup {Absent}]
                                /\ VersionsOf(disk') = VersionsOf(disk)
           /\ Abstract!Commit <=> VersionsOf(disk') = Append(VersionsOf(disk), work.kv)
                                  /\ work'.kv = work.kv
           /\ Abstract!Abort <=> work'.kv = Abstract!Last /\ VersionsOf(disk') = VersionsOf(disk)
BY DEF VersionsOf, Abstract!vars, Abstract!Edit, Abstract!Store, Abstract!Commit, Abstract!Abort

LEMMA StepAbstract ==
    ASSUME TypeOK, TypeOK', VersionInv, TellsInv, [Next]_vars
    PROVE  [Abstract!Next]_(Abstract!vars)
<1>u. uses' = uses
  BY HistoryType
<1>1. CASE ~Plain
  BY <1>1, <1>u DEF Plain, Abstract!vars
<1>2. CASE Plain
  <2>p. Plain'
    BY <1>2, <1>u DEF Plain
  <2>t. work'.kv \in [Keys -> Values \cup {Absent}]
    BY DEF TypeOK, Db
  <2>1. CASE EditStep \/ OpenStep
    <3>1. VersionsOf(disk') = VersionsOf(disk)
      BY <2>1 DEF EditStep, OpenStep
    <3> QED
      BY <1>2, <2>p, <2>t, <3>1, Bars DEF Abstract!Next
  <2>2. CASE AbortStep
    <3>1. VersionsOf(disk') = VersionsOf(disk) /\ work'.kv = Abstract!Last
      BY <1>2, <2>2, LastVersion DEF AbortStep, Raise
    <3> QED
      BY <1>2, <2>p, <3>1, Bars DEF Abstract!Next
  <2>3. CASE CommitStep
    <3>1. VersionsOf(disk') = Append(VersionsOf(disk), work.kv) /\ work'.kv = work.kv
      BY <1>2, <2>3, CommitAppends DEF CommitStep, LeaveScope
    <3> QED
      BY <1>2, <2>p, <3>1, Bars DEF Abstract!Next
  <2>4. CASE FlushStep
    BY <1>2, <2>4 DEF FlushStep, Flush, Plain
  <2>5. CASE UNCHANGED vars
    BY <1>2, <2>p, <2>5, Bars DEF vars
  <2> QED
    BY <2>1, <2>2, <2>3, <2>4, <2>5, Kinds
<1> QED
  BY <1>1, <1>2

\* For a charm that keeps to scopes, Storage implements the abstract versioned store.
THEOREM ImplementsVersionedStore == Spec => AbstractSpec
<1>1. TypeOK /\ TypeOK' /\ VersionInv /\ TellsInv /\ [Next]_vars
        => [Abstract!Next]_(Abstract!vars)
  BY StepAbstract
<1> QED
  BY <1>1, InitAbstract, VersionInvariant, TellsInvariant, PTL DEF Spec, AbstractSpec, Abstract!Spec
=============================================================================
