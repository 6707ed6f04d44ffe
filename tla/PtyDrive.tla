------------------------------ MODULE PtyDrive ------------------------------
(***************************************************************************)
(* pty-drive.c: a script of sends and expects run against a command on a   *)
(* pseudo-terminal.  Two processes and the two bounded queues of the       *)
(* terminal between them; a clock that passes the deadline once.  The      *)
(* command and the terminal are external: the command writes, reads and    *)
(* exits as it likes, or waits for the terminal to hang up; what the       *)
(* terminal echoes counts as written by the command.                       *)
(***************************************************************************)
EXTENDS Naturals, FiniteSets, Sequences

CONSTANTS
  Symbol,    \* characters
  Script,    \* the scripts considered: sequences of [op, text]
  Status,    \* exit statuses of the command
  InCap,     \* what the terminal takes from the driver before a write blocks
  OutCap,    \* what it takes from the command before a write blocks
  MaxOut     \* bound: characters the command writes

Line == [op : {"send", "expect"}, text : Seq(Symbol)]

ASSUME ScriptAssumption == Script \subseteq Seq(Line)
ASSUME CapAssumption    == InCap \in Nat \ {0} /\ OutCap \in Nat \ {0} /\ MaxOut \in Nat
ASSUME StatusAssumption == Status \subseteq 0..255

NoStatus == 256          \* still running; exit statuses are below it
Killed   == 128 + 9      \* SIGKILL

VARIABLES
  script,
  dpc,       \* where the driver is
  line,      \* script lines done
  left,      \* what send has still to write
  out, mark, \* transcript and where the next expect searches from
  inq, outq, \* the terminal: towards the command, towards the driver
  late,      \* the deadline has passed
  status,    \* what the driver exited with, or NoStatus
  cmd,       \* the command's exit status, NoStatus while it runs
  sticky,    \* the command only leaves when the terminal hangs up
  wrote,     \* history: everything the command wrote
  hits       \* history: per matched expect, [from, to] in the transcript

driver   == <<dpc, line, left, out, mark, status, hits>>
terminal == <<inq, outq>>
command  == <<cmd, sticky, wrote>>
vars     == <<script, driver, terminal, command, late>>

Init ==
  /\ script \in Script
  /\ dpc = "next" /\ line = 0 /\ left = <<>>
  /\ out = <<>> /\ mark = 0
  /\ inq = 0 /\ outq = <<>>
  /\ late = FALSE /\ status = NoStatus
  /\ cmd = NoStatus /\ sticky \in BOOLEAN /\ wrote = <<>>
  /\ hits = <<>>

At(pc) == dpc = pc /\ status = NoStatus

(* fail: the transcript so far is printed and the command is killed.       *)
Fail(code) ==
  /\ status' = code
  /\ dpc' = "failed"
  /\ cmd' = IF cmd = NoStatus THEN Killed ELSE cmd
  /\ UNCHANGED <<script, line, left, out, mark, hits, terminal, sticky, wrote, late>>

NextLine ==
  /\ At("next")
  /\ IF line = Len(script) THEN dpc' = "drain" /\ UNCHANGED left
     ELSE LET l == script[line + 1]
          IN dpc' = l.op /\ left' = l.text
  /\ UNCHANGED <<script, line, out, mark, status, hits, terminal, command, late>>

(* send: write until everything is written; a full terminal blocks.        *)
Send ==
  /\ At("send")
  /\ IF left = <<>> THEN dpc' = "next" /\ line' = line + 1 /\ UNCHANGED <<left, inq>>
     ELSE /\ cmd = NoStatus
          /\ inq < InCap
          /\ \E n \in 1..Len(left) :
               /\ inq + n <= InCap
               /\ inq' = inq + n /\ left' = SubSeq(left, n + 1, Len(left))
          /\ UNCHANGED <<dpc, line>>
  /\ UNCHANGED <<script, out, mark, status, hits, outq, command, late>>

(* Nobody has the other side open any more: write fails with EIO, also one *)
(* that was blocked.                                                       *)
SendRefused == At("send") /\ left # <<>> /\ cmd # NoStatus /\ Fail(125)

(* Where the text first appears after the previous match: memmem.          *)
Occurs(from) == {i \in from..Len(out) - Len(left) : SubSeq(out, i + 1, i + Len(left)) = left}

Hit == CHOOSE i \in Occurs(mark) : \A j \in Occurs(mark) : i <= j

(* The search goes on from the match's beginning. *)
ExpectedOverlapping ==
  /\ At("expect")
  /\ Occurs(mark) # {}
  /\ mark' = Hit
  /\ hits' = Append(hits, [from |-> Hit, to |-> Hit + Len(left)])
  /\ dpc' = "next" /\ line' = line + 1
  /\ UNCHANGED <<script, left, out, status, terminal, command, late>>

Expected ==
  /\ At("expect")
  /\ Occurs(mark) # {}
  /\ mark' = Hit + Len(left)
  /\ hits' = Append(hits, [from |-> Hit, to |-> Hit + Len(left)])
  /\ dpc' = "next" /\ line' = line + 1
  /\ UNCHANGED <<script, left, out, status, terminal, command, late>>

(* A closed terminal: nothing more to read and nobody to write it.         *)
Closed == outq = <<>> /\ cmd # NoStatus

(* pump: some of what the terminal has, into the transcript.               *)
Take ==
  \E n \in 1..Len(outq) :
    /\ out' = out \o SubSeq(outq, 1, n)
    /\ outq' = SubSeq(outq, n + 1, Len(outq))

WaitForText ==
  /\ At("expect") /\ Occurs(mark) = {} /\ ~late
  /\ Take
  /\ UNCHANGED <<script, dpc, line, left, mark, status, hits, inq, command, late>>

(* poll reports the hangup without looking at what is left to read. *)
ClosedEarly ==
  /\ At("expect") /\ Occurs(mark) = {} /\ ~late
  /\ cmd # NoStatus
  /\ dpc' = "next" /\ line' = line + 1
  /\ UNCHANGED <<script, left, out, mark, status, hits, terminal, command, late>>

ClosedWhileWaiting == At("expect") /\ Occurs(mark) = {} /\ ~late /\ Closed /\ Fail(1)

(* The deadline is looked at only when there is output. *)
TimedOutOnOutput ==
  At("expect") /\ Occurs(mark) = {} /\ late /\ outq # <<>> /\ Fail(124)

TimedOut == At("expect") /\ Occurs(mark) = {} /\ late /\ Fail(124)

(* After the script: drain until the command closes its side or time is up.*)
Drain ==
  /\ At("drain") /\ ~late
  /\ Take
  /\ UNCHANGED <<script, dpc, line, left, mark, status, hits, inq, command, late>>

(* Drained without reading what the command had left. *)
DrainedUnread ==
  /\ At("drain") /\ (late \/ cmd # NoStatus)
  /\ dpc' = "wait"
  /\ UNCHANGED <<script, line, left, out, mark, status, hits, terminal, command, late>>

Drained ==
  /\ At("drain") /\ (late \/ Closed)
  /\ dpc' = "wait"
  /\ UNCHANGED <<script, line, left, out, mark, status, hits, terminal, command, late>>

(* waitpid(WNOHANG) every 20 ms: the command's status, even when late.     *)
Reap ==
  /\ At("wait") /\ cmd # NoStatus
  /\ status' = cmd
  /\ dpc' = "ended"
  /\ UNCHANGED <<script, line, left, out, mark, hits, terminal, command, late>>

GiveUp == At("wait") /\ cmd = NoStatus /\ late /\ Fail(124)

Driver == NextLine \/ Send \/ SendRefused \/ Expected \/ WaitForText \/ ClosedWhileWaiting \/ TimedOut
            \/ Drain \/ Drained \/ Reap \/ GiveUp
-----------------------------------------------------------------------------
Writes ==
  /\ cmd = NoStatus /\ Len(outq) < OutCap /\ Len(wrote) < MaxOut
  /\ \E s \in Symbol : outq' = Append(outq, s) /\ wrote' = Append(wrote, s)
  /\ UNCHANGED <<script, driver, inq, cmd, sticky, late>>

Reads ==
  /\ cmd = NoStatus /\ inq > 0
  /\ inq' = inq - 1
  /\ UNCHANGED <<script, driver, outq, command, late>>

(* Of itself, unless it reads until the terminal hangs up - which it does  *)
(* when the driver is gone.                                                *)
Exits ==
  /\ cmd = NoStatus /\ (sticky => status # NoStatus)
  /\ cmd' \in Status
  /\ UNCHANGED <<script, driver, terminal, sticky, wrote, late>>

DeadlinePasses ==
  /\ ~late /\ status = NoStatus
  /\ late' = TRUE
  /\ UNCHANGED <<script, driver, terminal, command>>

Next == Driver \/ Writes \/ Reads \/ Exits \/ DeadlinePasses

Spec     == Init /\ [][Next]_vars
FairSpec == Spec /\ WF_vars(Driver) /\ WF_vars(DeadlinePasses)
-----------------------------------------------------------------------------
Expects == {i \in 1..Len(script) : script[i].op = "expect"}

(* Every variable keeps its type; the search never starts beyond what has  *)
(* been read.                                                              *)
TypeOK ==
  /\ script \in Script
  /\ dpc \in {"next", "send", "expect", "drain", "wait", "failed", "ended"}
  /\ line \in 0..Len(script) /\ left \in Seq(Symbol)
  /\ out \in Seq(Symbol) /\ mark \in 0..Len(out)
  /\ inq \in 0..InCap /\ outq \in Seq(Symbol) /\ Len(outq) <= OutCap
  /\ late \in BOOLEAN /\ sticky \in BOOLEAN
  /\ status \in Status \cup {NoStatus, 1, 124, 125}
  /\ cmd \in Status \cup {NoStatus, Killed}

(* Expects are met in order by disjoint stretches of the output, each the  *)
(* text of its own line: no output answers two expects.                    *)
MatchesAreDisjoint ==
  \A i \in 1..Len(hits) :
    /\ i > 1 => hits[i - 1].to <= hits[i].from
    /\ LET nth == CHOOSE l \in Expects : Cardinality({k \in Expects : k <= l}) = i
       IN SubSeq(out, hits[i].from + 1, hits[i].to) = script[nth].text

(* The driver returns a command's own status only after every expect has   *)
(* matched and the command has really ended with it.  To the caller the    *)
(* driver's own 1, 124 and 125 look like a command's: any other status is  *)
(* the command's.                                                          *)
OwnStatusMeansMatched ==
  dpc = "ended" \/ status \notin {NoStatus, 1, 124, 125} =>
    cmd = status /\ Len(hits) = Cardinality(Expects)

(* The transcript is what the command wrote, in order, with nothing lost;  *)
(* all of it when the run ends in time with the command's status.          *)
TranscriptIsOutput ==
  /\ out \o outq = wrote
  /\ dpc = "ended" /\ ~late => out = wrote

(* The driver ends, by its deadline at the latest, unless it is blocked in *)
(* a send to a command that lives and does not read.                       *)
EndsUnlessSendBlocks ==
  []<>(status # NoStatus \/ (dpc = "send" /\ inq = InCap /\ cmd = NoStatus))

(* "124 on a timeout (default 30s, for the whole run)".                    *)
EndsByTheDeadline == <>(status # NoStatus)
=============================================================================
