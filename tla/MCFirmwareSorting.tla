------------------------- MODULE MCFirmwareSorting -------------------------
(* Instance of FirmwareSorting: two packages and the ignore list, a path   *)
(* pattern that splits a driver's block, a link listed before or after its *)
(* target, and one licence statement of each sort.                         *)
EXTENDS FirmwareSorting

CONSTANTS wifi, bt, drv, other, blob, chip, link, vendor, notice, gpl, odd, sV, sG

MCFamily    == <<wifi, bt, Ignore>>
MCDriversOf == [f \in {wifi, bt, Ignore} |-> IF f = wifi THEN {drv} ELSE IF f = Ignore THEN {other} ELSE {}]
MCPathsOf   == [f \in {wifi, bt, Ignore} |-> IF f = bt THEN {chip} ELSE {}]
MCLicenceId == [v \in {vendor} |-> sV]
MCFree      == [w \in {gpl} |-> {<<"term", sG>>, <<"text", gpl>>}]

Table(a, b) == [f \in {wifi, bt} |-> IF f = wifi THEN a ELSE b]
MCDeclarations == {Table({sV}, {sV}), Table({sV}, {sV, sG})}

MCLines ==
  {[kind |-> "rule"]}
    \cup [kind : {"driver"}, driver : {drv, other}]
    \cup [kind : {"file"}, path : {blob, chip}]
    \cup [kind : {"link"}, path : {link}, target : {blob, chip}]
    \cup [kind : {"cites"}, text : {vendor, notice}]
    \cup [kind : {"worded"}, word : {gpl, odd}]
=============================================================================
