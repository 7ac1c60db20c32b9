--------------------------- MODULE VersionedStore ---------------------------
(***************************************************************************)
(* What charmhelpers' unitdata promises (core/unitdata.py, its docstring): *)
(* "a key value storage with support for versioned, transactional          *)
(* operation".  A hook edits a draft; when it succeeds the draft becomes   *)
(* the next version, when it fails or dies the draft is the last version   *)
(* again.  No version ever changes.                                        *)
(***************************************************************************)
EXTENDS Naturals, Sequences

CONSTANTS Keys, Values, Absent

VARIABLES versions,   \* the stores that successful hooks left, oldest first
          draft       \* the store as the running hook sees it

vars == <<versions, draft>>

Store == [Keys -> Values \cup {Absent}]

Last == IF versions = << >> THEN [k \in Keys |-> Absent] ELSE versions[Len(versions)]

Init == /\ versions = << >>
        /\ draft = [k \in Keys |-> Absent]

Edit == /\ draft' \in Store
        /\ UNCHANGED versions

Commit == /\ versions' = Append(versions, draft)
          /\ UNCHANGED draft

Abort == /\ draft' = Last
         /\ UNCHANGED versions

Next == Edit \/ Commit \/ Abort

Spec == Init /\ [][Next]_vars
=============================================================================
