--------------------------- MODULE MCCatalogMount ---------------------------
(***************************************************************************)
(* The start of the daemon: the checks of the mount script and of main     *)
(* (CatalogMount), and what fuse_main does then to mount the file system   *)
(* and in the end to unmount it (FuseMount).  They share no state, so a    *)
(* behaviour is one of either: the catalog files are small, up to two      *)
(* lines one short of the least entry size, of it, and twice as wide; two  *)
(* daemons meet on one mountpoint.                                         *)
(***************************************************************************)
EXTENDS CatalogMount, FuseMount

VARIABLE part    \* "script" or "mount"

Widths == {12, 13, 26}
MCFiles ==
    {[present |-> TRUE, writable |-> TRUE, lens |-> l, ends |-> e] :
        l \in BoundedSeq(Widths, 2), e \in BOOLEAN}
    \cup {[present |-> TRUE, writable |-> FALSE, lens |-> <<13, 13>>, ends |-> TRUE],
          [present |-> FALSE, writable |-> TRUE, lens |-> <<>>, ends |-> TRUE]}
OneFile == CHOOSE f \in MCFiles : TRUE

MCMinLens == {Unset, 11, 12, 25}

Setting(starts, users, blkdev, mount_max, link, events) ==
    [starts |-> starts, user |-> [d1 |-> users[1], d2 |-> users[2], k1 |-> users[3]],
     blkdev |-> blkdev, mount_max |-> mount_max, link |-> link, events |-> events]

NoDaemon == Setting({}, <<"u", "u", "u">>, FALSE, 1, FALSE, 0)

MCSettings ==
    {NoDaemon,
     Setting({"d1"}, <<"u", "u", "u">>, FALSE, 1, FALSE, 3),
     Setting({"d1", "d2"}, <<"u", "u", "u">>, FALSE, 2, FALSE, 1),
     Setting({"d1", "d2"}, <<"u", "v", "u">>, FALSE, 1, FALSE, 1),
     Setting({"d1", "d2"}, <<"root", "u", "u">>, FALSE, 2, TRUE, 1),
     Setting({"d1", "d2"}, <<"root", "root", "root">>, TRUE, 2, FALSE, 1)}

MCInit ==
    /\ part \in {"script", "mount"}
    /\ Init /\ (part = "mount" => file = OneFile /\ fuse /\ minlen = Unset)
    /\ MountInit
    /\ part = "script" <=> env = NoDaemon

MCNext ==
    \/ part = "script" /\ Next /\ UNCHANGED <<part, mountVars>>
    \/ part = "mount" /\ MountNext /\ UNCHANGED <<part, vars>>

MCVars == <<part, vars, mountVars>>
MCSpec ==
    /\ MCInit /\ [][MCNext]_MCVars
    /\ WF_vars(part = "script" /\ Script)
    /\ MountFairness   \* NoDaemon has no steps that could be due
=============================================================================
