---------------------------- MODULE NodePromise ----------------------------
(***************************************************************************)
(* What the CSI node service promises about a target path: it shows at     *)
(* most one published volume, mounted with the arguments of one publish    *)
(* request, and these change only after the mount has gone.                *)
(***************************************************************************)
CONSTANTS
    Targets,   \* target paths of this node
    Requests   \* arguments of a NodePublishVolume call

VARIABLE shown   \* target -> requests whose mounts it shows

Init == shown = [t \in Targets |-> {}]

\* A publish mounts; another, or the same one again, never does on top of it.
Mount(t, r) ==
    /\ shown[t] = {}
    /\ shown' = [shown EXCEPT ![t] = {r}]

\* An unpublish or an administrator unmounts.
Unmount(t) ==
    /\ shown[t] # {}
    /\ shown' = [shown EXCEPT ![t] = {}]

\* The node restarts, and with it its mount table.
Restart == shown' = [t \in Targets |-> {}]

Next == \/ \E t \in Targets : Unmount(t) \/ \E r \in Requests : Mount(t, r)
        \/ Restart

Spec == Init /\ [][Next]_shown

=============================================================================
