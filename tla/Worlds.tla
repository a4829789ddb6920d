-------------------------------- MODULE Worlds --------------------------------
(***************************************************************************)
(* What the supervisor keeps directories of: worlds and backups.           *)
(***************************************************************************)
EXTENDS Naturals, FiniteSets

CONSTANTS NoWorld  \* the directory does not exist

\* What a world directory holds: the last version the players made, and
\* whether every file of it is there.
World == [ver : Nat, whole : BOOLEAN]

Backup == [stamp : Nat, data : World]

Fresh == [ver |-> 0, whole |-> TRUE]
Torn(w) == [w EXCEPT !.whole = FALSE]

\* What may be left of the backups S when their removal fails or is cut
\* short: some are untouched, some have lost files but still hold HEALTHY.
Leftovers(S) ==
    UNION {{K \cup {[b EXCEPT !.data = Torn(b.data)] : b \in T} : T \in SUBSET (S \ K)}
             : K \in SUBSET S}
=============================================================================
