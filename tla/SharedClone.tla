----------------------------- MODULE SharedClone -----------------------------
(***************************************************************************)
(* What the project lock promises about the folder of a cached project:    *)
(* any number of users may work in it together or one user alone, and the  *)
(* folder only comes, goes or breaks in the hands of the user that is      *)
(* alone.  Two things happen without the lock: the empty parent folder is  *)
(* made before the lock file can exist, and the volume may be lost, which  *)
(* ends everybody's use of it.                                             *)
(***************************************************************************)
CONSTANT Users
VARIABLES readers, writer, folder

sharedVars == <<readers, writer, folder>>

Folders == {"lost", "absent", "partial", "clone"}

Init == readers = {} /\ writer = {} /\ folder = "lost"

EnterShared(u) ==
    /\ writer = {}
    /\ readers' = readers \cup {u}
    /\ UNCHANGED <<writer, folder>>

EnterAlone(u) ==
    /\ readers = {} /\ writer = {}
    /\ writer' = {u}
    /\ UNCHANGED <<readers, folder>>

\* The user that is alone rebuilds the folder, and may leave it that way.
Rebuild(u) ==
    /\ writer = {u}
    /\ writer' \in {{}, {u}}
    /\ folder' \in Folders \ {"lost"}
    /\ UNCHANGED readers

LeaveShared(u) ==
    /\ readers' = readers \ {u}
    /\ UNCHANGED <<writer, folder>>

MakeParent ==
    /\ folder = "lost"
    /\ folder' = "absent"
    /\ UNCHANGED <<readers, writer>>

LoseVolume == readers' = {} /\ writer' = {} /\ folder' = "lost"

Next ==
    \/ \E u \in Users : EnterShared(u) \/ EnterAlone(u) \/ Rebuild(u) \/ LeaveShared(u)
    \/ MakeParent \/ LoseVolume

Spec == Init /\ [][Next]_sharedVars
=============================================================================
