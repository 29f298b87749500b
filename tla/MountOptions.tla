---------------------------- MODULE MountOptions ----------------------------
(***************************************************************************)
(* The mount options of the CSI node service: what it mounts a volume      *)
(* with, and when it accepts a mount it finds as the one asked for         *)
(* (internal/csidriver/mount.go and node.go).                              *)
(*                                                                         *)
(* An option is a key and a value; the value of a flag is "".  A list of   *)
(* options is a set: the code sorts, drops duplicates and ignores order    *)
(* and letter case.                                                        *)
(***************************************************************************)
EXTENDS Naturals

Flag(k) == [key |-> k, val |-> ""]

KeysIn(options) == {o.key : o \in options}

Flags(options) == {o \in options : o.val = ""}

Values(options) == options \ Flags(options)

\* The keys callers may not use.  Of reservedMountOptionKeys only those are
\* listed that the driver sets or looks at itself; it refuses the others alike.
Reserved == {"vers", "sec", "soft", "softerr", "seal", "credentials", "nosharesock",
             "dev", "suid", "ro", "rw"}

\* rejectControlledMountOptions refuses these too, for NFS.
ReservedFor(proto) == IF proto = "nfs" THEN {"timeo", "retrans"} ELSE {}

Contradictory == {{"exec", "noexec"}, {"atime", "noatime"}, {"sync", "async"}}

\* sanitizedMountFlags and rejectControlledMountOptions return no error.
Sane(proto, flags) ==
    /\ KeysIn(flags) \cap (Reserved \cup ReservedFor(proto)) = {}
    /\ \A o, p \in flags : o.key = p.key => o = p
    /\ \A pair \in Contradictory : ~(pair \subseteq KeysIn(flags))

\* A volume handle: the source it mounts, the protocol and its variant.
FSType(h) == IF h.proto = "smb" THEN "cifs" ELSE IF h.variant = "3" THEN "nfs" ELSE "nfs4"

\* What NodePublishVolume mounts each volume with.
Base(h) ==
    {Flag("nodev"), Flag("nosuid")} \cup
    IF h.proto = "smb"
    THEN {[key |-> "vers", val |-> "3.1.1"], Flag("nosharesock"), [key |-> "actimeo", val |-> "30"],
          [key |-> "credentials", val |-> "file"]}
         \cup (IF h.variant = "encrypted" THEN {Flag("seal")} ELSE {})
    ELSE {[key |-> "vers", val |-> h.variant], [key |-> "sec", val |-> "sys"], Flag("hard"),
          [key |-> "timeo", val |-> "600"], [key |-> "retrans", val |-> "2"]}
         \cup (IF h.variant = "3" THEN {Flag("nolock")} ELSE {})

\* mergeMountOptions: a supplied value replaces the value of the base, flags
\* are joined.  The read-only state is kept apart.
Merge(base, flags) ==
    Flags(base) \cup Flags(flags) \cup Values(flags)
        \cup {o \in Values(base) : o.key \notin KeysIn(Values(flags))}

\* validateMountedVolumeIdentity: source and type, and the volume's root.
SameVolume(h, m) == m.source = h.source /\ m.fs = FSType(h) /\ m.root = "/"

\* validateExistingMount and validateRequestedMountOptions: mount m, as the
\* kernel lists it, is one of h with the options every mount of this driver
\* has and those asked for.
Acceptable(h, m, ro, flags) ==
    /\ SameVolume(h, m)
    /\ m.ro = ro
    /\ {Flag("nodev"), Flag("nosuid")} \subseteq m.options
    /\ h.proto = "smb" =>
         /\ [key |-> "vers", val |-> "3.1.1"] \in m.options
         /\ h.variant = "encrypted" => Flag("seal") \in m.options
    /\ h.proto = "nfs" =>
         /\ {[key |-> "vers", val |-> h.variant], [key |-> "sec", val |-> "sys"], Flag("hard"),
             [key |-> "timeo", val |-> "600"], [key |-> "retrans", val |-> "2"]} \subseteq m.options
         /\ m.options \cap {Flag("soft"), Flag("softerr")} = {}
    /\ flags \subseteq m.options

\* What the kernel lists of the options a mount was made with: not the file of
\* credentials, and not the options that only name a default of its own.
Listed(options) ==
    {o \in options : o.key \notin {"credentials", "exec", "atime", "async"}}

\* Options asked for that a mount made with them does not list.
Unlisted(flags) == flags \ Listed(flags)

=============================================================================
