----------------------------- MODULE MCCsiVolume -----------------------------
(* Instances of CsiVolume: one controller process, or two.                 *)
EXTENDS CsiVolume

Volume(proto, name, export, path, mode, cap, deleteData) ==
    [proto |-> proto, name |-> name, export |-> export, path |-> path,
     mode |-> mode, cap |-> cap, deleteData |-> deleteData]

\* a and b differ in a parameter that only the fingerprint shows; c has the
\* name of a under another export prefix; d has it for the other protocol.
MCOpts ==
    [s \in {"a", "b", "c", "d"} |->
        CASE s = "a" -> Volume("nfs", "vol", "/x/vol", "/nfs/vol", 1, 1, TRUE)
          [] s = "b" -> Volume("nfs", "vol", "/x/vol", "/nfs/vol", 2, 0, FALSE)
          [] s = "c" -> Volume("nfs", "vol", "/y/vol", "/nfs/vol", 1, 1, TRUE)
          [] s = "d" -> Volume("smb", "vol", "/x/vol", "/smb/vol", 1, 1, TRUE)]

OneProcess == [w \in Workers |-> "controller-0"]

TwoProcesses == [w \in Workers |-> w]

=============================================================================
