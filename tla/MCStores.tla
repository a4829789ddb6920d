------------------------------- MODULE MCStores -------------------------------
(***************************************************************************)
(* Bounded instances of the four modules about what is kept: BackupStore,  *)
(* WebStore, StatusQuery and LogPage.  They share no variable, so a        *)
(* behaviour of all of them is an interleaving of a behaviour of each, and *)
(* a property of one is not affected by the steps of another.  Only one of *)
(* them, chosen in the initial state, moves; the others rest.              *)
(***************************************************************************)
EXTENDS BackupStore, WebStore, StatusQuery, LogPage, TLC

VARIABLE moving

storesVars == <<moving, storeVars, webVars, queryVars, pageVars>>

Init ==
    /\ moving \in {"backups", "web", "query", "page"}
    /\ StoreInit /\ WebInit /\ QueryInit /\ PageInit

Next ==
    /\ UNCHANGED moving
    /\ \/ moving = "backups" /\ StoreNext /\ UNCHANGED <<webVars, queryVars, pageVars>>
       \/ moving = "web" /\ WebNext /\ UNCHANGED <<storeVars, queryVars, pageVars>>
       \/ moving = "query" /\ QueryNext /\ UNCHANGED <<storeVars, webVars, pageVars>>
       \/ moving = "page" /\ PageNext /\ UNCHANGED <<storeVars, webVars, queryVars>>

Spec == Init /\ [][Next]_storesVars

TypeOK == StoreTypeOK /\ WebTypeOK /\ QueryTypeOK /\ PageTypeOK

\* No answer, one above the last count that fits, and that count.
ReportedCounts == {-1, 65535, 65536}

\* One line comes twice.
LoggedTexts == <<"a", "b", "a">>
================================================================================
