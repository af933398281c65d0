----------------------------- MODULE KeptContent -----------------------------
(***************************************************************************)
(* What the owner of a partition is promised while tools convert it where  *)
(* it lies: a job that reports success, or that was paused, has kept all   *)
(* content; one that was interrupted may have lost some, but only a short  *)
(* run of sectors; and a sector the device cannot read any more is lost.   *)
(***************************************************************************)
EXTENDS Integers

CONSTANTS Data,      \* the sectors of the partition's file system
          MaxLoss    \* the longest run one interruption may cost

VARIABLES kept,      \* the sectors whose content can be got back
          busy,      \* a job is under way
          result     \* of the last job

vars == <<kept, busy, result>>

Init == kept = Data /\ ~busy /\ result = "none"

Start == ~busy /\ busy' = TRUE /\ UNCHANGED <<kept, result>>

Finish == /\ busy /\ busy' = FALSE
          /\ result' \in {"success", "paused"}
          /\ UNCHANGED kept

Interrupt == /\ busy /\ busy' = FALSE
             /\ result' \in {"error", "crash"}
             /\ \E first \in Data : kept \ kept' \subseteq first..first + MaxLoss - 1
             /\ kept' \subseteq kept

Unreadable == /\ busy /\ UNCHANGED <<busy, result>>
              /\ \E sector \in Data : kept' \in {kept, kept \ {sector}}

Next == Start \/ Finish \/ Interrupt \/ Unreadable

Spec == Init /\ [][Next]_vars
==============================================================================
