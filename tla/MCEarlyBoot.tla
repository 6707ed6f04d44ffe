---------------------------- MODULE MCEarlyBoot ----------------------------
(* Instance of EarlyBoot: storage behind two modular buses and without     *)
(* any, a second ISO without the squashfs, two disks with the same tag.    *)
EXTENDS EarlyBoot

CONSTANTS hub, hba, cd, vcd, iso, disk, clone, uuid, path

MCAlias == {hub, hba}
MCBlock == {cd, vcd, iso, disk, clone}
MCParent ==
  [x \in MCAlias \cup MCBlock |->
     IF x = hba THEN hub ELSE IF x \in {cd, disk} THEN hba ELSE Bus]
MCTagged == [t \in {uuid, path} |-> IF t = uuid THEN {disk, clone} ELSE {disk}]
MCCmdline == {<<>>, <<path>>, <<uuid, path>>, <<path, uuid>>, <<path, BadForm>>}
=============================================================================
