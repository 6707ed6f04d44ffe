---------------------------- MODULE MCMediumSwap ----------------------------
(* Small instance of MediumSwap: an image list that also names a package   *)
(* of each root, one that forgets live-boot-irf, and malformed ones.       *)
EXTENDS MediumSwap

CONSTANTS Extra, Keep

E(s, n) == [scope |-> s, name |-> n, extra |-> FALSE]

MCPackage == {LiveBoot, LiveBootIrf, DiskBoot, DiskBootIrf, Extra, Keep}

MCLists ==
  {<<>>,
   <<E("root", LiveBoot), E("initramfs", LiveBootIrf), E("root", Extra)>>,
   <<E("root", Extra), E("initramfs", Extra), E("initramfs", LiveBootIrf)>>,
   <<E("root", LiveBoot)>>,
   <<E("root", Extra), E("root", Extra)>>,
   <<E("root", BadName)>>,
   <<E("elsewhere", Extra)>>,
   <<[E("root", Extra) EXCEPT !.extra = TRUE]>>}
=============================================================================
