----------------------------- MODULE WorldCustody -----------------------------
(***************************************************************************)
(* What the supervisor promises about the world, whatever it is doing: an  *)
(* abstract specification without goroutines, call stack, probes, retries  *)
(* or commands.  Only players and Minecraft change a world in place, only  *)
(* while the server runs; everything else happens to a server that is      *)
(* down, and nothing is given up that players made and that is not kept.   *)
(* The promise ends when a running server is let go of.                    *)
(***************************************************************************)
EXTENDS Worlds

CONSTANTS MaxBackups  \* healthy backups kept

VARIABLES
    running,     \* the live server is up
    loose,       \* a running server has been let go of
    world,       \* the live world
    quarantine,  \* worlds set aside
    backups,     \* healthy backups
    ver,         \* the newest version any player has made
    tips         \* worlds served to players, each at its last version

custody == <<running, loose, world, quarantine, backups, ver, tips>>

Init ==
    /\ running = FALSE
    /\ loose = FALSE
    /\ world = Fresh
    /\ quarantine = {}
    /\ backups = {}
    /\ ver = 0
    /\ tips = {Fresh}

Switch == running' = ~running /\ UNCHANGED <<world, quarantine, backups, ver, tips>>

Generate ==
    /\ running /\ world = NoWorld
    /\ world' = Fresh
    /\ UNCHANGED <<running, quarantine, backups, ver, tips>>

Play ==
    /\ running /\ world # NoWorld
    /\ ver' = ver + 1
    /\ world' = [world EXCEPT !.ver = ver']
    /\ tips' = (tips \ {world}) \cup {world'}
    /\ UNCHANGED <<running, quarantine, backups>>

SetAside ==
    /\ ~running /\ world # NoWorld
    /\ quarantine' = quarantine \cup {world}
    /\ world' = NoWorld
    /\ UNCHANGED <<running, backups, ver, tips>>

PutBack ==
    /\ ~running /\ world = NoWorld
    /\ \E w \in quarantine : world' = w /\ quarantine' = quarantine \ {w}
    /\ UNCHANGED <<running, backups, ver, tips>>

\* A backup is copied to where there is no world, perhaps not to the end.
Install ==
    /\ ~running /\ world = NoWorld
    /\ \E b \in backups : world' \in {b.data, Torn(b.data)}
    /\ UNCHANGED <<running, quarantine, backups, ver, tips>>

\* A world is removed, perhaps not to the end: one that no player has been
\* on, or that is in quarantine as well.
Discard ==
    /\ ~running /\ world # NoWorld
    /\ world \notin tips \ quarantine
    /\ world' \in {NoWorld, Torn(world)}
    /\ UNCHANGED <<running, quarantine, backups, ver, tips>>

\* The new backup is a copy of the world as it is, and the newest.
BackUp ==
    /\ ~running
    /\ UNCHANGED <<running, world, quarantine, ver, tips>>
    /\ \E b \in backups' :
           /\ backups' = backups \cup {b}
           /\ b.data = world
           /\ \A c \in backups : c.stamp < b.stamp

Outdated == {b \in backups : Cardinality({c \in backups : c.stamp > b.stamp}) >= MaxBackups}

Prune ==
    /\ ~running
    /\ UNCHANGED <<running, world, quarantine, ver, tips>>
    /\ \E rest \in Leftovers(Outdated) : backups' = (backups \ Outdated) \cup rest

\* Whoever kept the server forgets it while it runs.
LetGo ==
    /\ running /\ ~running'
    /\ loose'
    /\ UNCHANGED <<world, quarantine, backups, ver, tips>>

Next ==
    \/ /\ ~loose /\ ~loose'
       /\ \/ Switch \/ Generate \/ Play
          \/ SetAside \/ PutBack \/ Install \/ Discard
          \/ BackUp \/ Prune
    \/ ~loose /\ LetGo
    \/ loose /\ loose'

Spec == Init /\ [][Next]_custody
=============================================================================
