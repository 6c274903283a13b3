------------------------------ MODULE McdbStore ------------------------------
(***************************************************************************)
(* What installing an mcdb under a name promises to the programs that open *)
(* the name and to the administrator: a name shows no file or a complete   *)
(* database, from its first installation on never "no file" again, and a   *)
(* crash of the system takes all the names back to one earlier moment.     *)
(***************************************************************************)
CONSTANTS Names,      \* file names of databases
          Databases,  \* complete contents
          NoDb        \* the name does not exist

VARIABLES shown,      \* what an open of each name finds
          kept        \* what it would find after a crash

TypeOK == /\ shown \in [Names -> Databases \cup {NoDb}]
          /\ kept \in [Names -> Databases \cup {NoDb}]

Init == /\ shown = [n \in Names |-> NoDb]
        /\ kept = shown

Install(n, c) == /\ shown' = [shown EXCEPT ![n] = c]
                 /\ UNCHANGED kept

Persist == kept' = shown /\ UNCHANGED shown

Crash == shown' = kept /\ UNCHANGED kept

Next == \/ \E n \in Names, c \in Databases : Install(n, c)
        \/ Persist
        \/ Crash

Spec == Init /\ [][Next]_<<shown, kept>>
=============================================================================
