---------------------------- MODULE CryptService ----------------------------
(***************************************************************************)
(* What EncryptionThreadPoolDoWork promises its callers, whatever the      *)
(* number of pool threads: a call on n data units transforms every one of  *)
(* the n units exactly once, and returns only when all of them are done.   *)
(* A unit transformed twice would be encrypted twice, one left out would   *)
(* stay as it was: both corrupt the volume silently.                       *)
(***************************************************************************)
EXTENDS Integers

CONSTANTS Clients,   \* threads that call DoWork
          MaxUnits   \* largest unit count of a call

VARIABLES units,     \* units[c]: unit count of the call of c, 0 between calls
          applied    \* applied[c][u]: how often unit u of that call was transformed

vars == <<units, applied>>

Units == 1..MaxUnits

Init == /\ units = [c \in Clients |-> 0]
        /\ applied = [c \in Clients |-> [u \in Units |-> 0]]

(* A call arrives with n units, none of them transformed yet.              *)
Call(c, n) == /\ units[c] = 0
              /\ units' = [units EXCEPT ![c] = n]
              /\ UNCHANGED applied

(* Some of the units still untouched are transformed, in any order and in  *)
(* any grouping.                                                           *)
Transform(c, S) == /\ S \subseteq {u \in 1..units[c] : applied[c][u] = 0}
                   /\ applied' = [applied EXCEPT ![c] =
                          [u \in Units |-> IF u \in S THEN @[u] + 1 ELSE @[u]]]
                   /\ UNCHANGED units

Return(c) == /\ units[c] # 0
             /\ \A u \in 1..units[c] : applied[c][u] = 1
             /\ units' = [units EXCEPT ![c] = 0]
             /\ applied' = [applied EXCEPT ![c] = [u \in Units |-> 0]]

Next == \E c \in Clients : \/ \E n \in Units : Call(c, n)
                           \/ \E S \in SUBSET Units : Transform(c, S)
                           \/ Return(c)

Spec == Init /\ [][Next]_vars
=============================================================================
