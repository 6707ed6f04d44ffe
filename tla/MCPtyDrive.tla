----------------------------- MODULE MCPtyDrive -----------------------------
(* Instance of PtyDrive: expects whose texts overlap, a send longer than   *)
(* the terminal takes, an empty script.                                    *)
EXTENDS PtyDrive

CONSTANTS a, b

E(t) == [op |-> "expect", text |-> t]
S(t) == [op |-> "send",   text |-> t]

MCScript ==
  {<<>>,
   <<E(<<a, b>>), E(<<b>>)>>,
   <<E(<<a, a>>), E(<<a>>)>>,
   <<S(<<a, b, a>>), E(<<a>>)>>,
   <<E(<<a>>), S(<<b>>), E(<<a>>), E(<<b>>)>>}
=============================================================================
