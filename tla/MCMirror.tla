-------------------------------- MODULE MCMirror --------------------------------
(***************************************************************************)
(* What is mirrored to Postgres, for TLC.  The transactions and the        *)
(* watchlist share the adapter but no record: the initial state chooses    *)
(* the one whose operations are looked at.                                 *)
(***************************************************************************)
EXTENDS MCTransactionMirror, Watchlist, TLC

VARIABLE mirrored

mirroredVars == <<vars, mirrorVars, watchVars, adapterVars, mirrored>>

MirroredInit ==
    /\ mirrored \in {"submissions", "polls", "watchlist"}
    /\ MirrorInit
    /\ WatchInit

\* Submissions and polls of one record are looked at apart, restarts with the first.
MirroredNext ==
    /\ UNCHANGED mirrored
    /\ \/ mirrored = "submissions" /\ MirrorNext /\ poller' = poller /\ UNCHANGED watchVars
       \/ mirrored = "polls" /\ MirrorNext /\ submitter' = submitter /\ restarts' = restarts
             /\ UNCHANGED watchVars
       \/ mirrored = "watchlist" /\ WatchNext /\ UNCHANGED <<vars, mirrorVars>>

MirroredSpec == MirroredInit /\ [][MirroredNext]_mirroredVars

\* The histories of the lifecycle guard no step and occur in no property here.
View == <<WithoutHistory, watchVars, mirrored>>

Symmetric == Permutations(EntryIds)

=============
