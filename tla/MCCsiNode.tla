----------------------------- MODULE MCCsiNode -----------------------------
(* CsiNode for one target and the requests of three volumes, of which two  *)
(* are one export, deleted and created again.                              *)
EXTENDS CsiNode

MCWorkers == {"g1", "g2"}

MCTargets == {"pod"}

MCLocks == 1..2

Export(id) == [id |-> id, source |-> "core:/vol", proto |-> "nfs", variant |-> "4.1"]

Share == [id |-> "share", source |-> "//core/share", proto |-> "smb", variant |-> "encrypted"]

MCRequests ==
    {[h |-> Export("old"), ro |-> FALSE, flags |-> {Flag("noexec")}],
     [h |-> Export("new"), ro |-> FALSE, flags |-> {Flag("noexec")}],
     [h |-> Share, ro |-> TRUE, flags |-> {Flag("exec"), [key |-> "actimeo", val |-> "60"]}],
     [h |-> Share, ro |-> TRUE, flags |-> {Flag("ro")}]}

\* The volume mounted by hand with the driver's options, and a directory of
\* it bound there.
ByHand == [source |-> "core:/vol", fs |-> "nfs4", root |-> "/", ro |-> FALSE,
           options |-> Base(Export("old")) \cup {Flag("noexec")}]

MCForeign == {ByHand, [ByHand EXCEPT !.root = "/sub"]}

=============================================================================
