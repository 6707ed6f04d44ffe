-------------------------- MODULE FrozenRepository --------------------------
(***************************************************************************)
(* What a job is promised of the native repository: one published          *)
(* generation, taken whole, the same for all its targets.                  *)
(***************************************************************************)
EXTENDS Naturals

CONSTANTS Target, None

VARIABLES
  published,   \* generations published so far
  frozen,      \* the job's generation, or None
  answers      \* target |-> the generation it was handed, or None

Init == published = 0 /\ frozen = None /\ answers = [t \in Target |-> None]

Publish == published' = published + 1 /\ UNCHANGED <<frozen, answers>>

(* The job's generation is chosen once; a later one may be out by then.    *)
Freeze ==
  /\ frozen = None
  /\ frozen' \in 0..published
  /\ UNCHANGED <<published, answers>>

Hand(t) ==
  /\ frozen # None
  /\ answers' = [answers EXCEPT ![t] = frozen]
  /\ UNCHANGED <<published, frozen>>

Next == Publish \/ Freeze \/ \E t \in Target : Hand(t)

Spec == Init /\ [][Next]_<<published, frozen, answers>>
=============================================================================
