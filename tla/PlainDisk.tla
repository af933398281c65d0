------------------------------ MODULE PlainDisk ------------------------------
(***************************************************************************)
(* What a mounted encrypted device promises to the file system above it:   *)
(* it is a disk of plain sectors.  Any number of requests are under way at *)
(* once; the sectors of a request are transferred in any order, each at    *)
(* some moment before its result is settled; a request that succeeds has   *)
(* transferred all of its sectors, one that fails any part of them.        *)
(***************************************************************************)
EXTENDS Integers

CONSTANTS Irps,      \* the requestors; the data a requestor writes is its name
          Sectors,
          MaxLength, \* bound: sectors of a request
          NoIrp      \* what an untouched sector holds; also: no request

VARIABLES plain,     \* plain[s]: who wrote sector s last
          irp,       \* irp[i]: the request of i, NoRequest when it has none
          moved,     \* moved[i]: the sectors of it that have been transferred
          seen       \* seen[i]: what a read found in them

NoRequest == [op |-> "none", first |-> 0, len |-> 0, status |-> "pending"]

Span(first, len) == first..first + len - 1

RequestSectors(i) == Span(irp[i].first, irp[i].len)

Init == /\ plain = [s \in Sectors |-> NoIrp]
        /\ irp = [i \in Irps |-> NoRequest]
        /\ moved = [i \in Irps |-> {}]
        /\ seen = [i \in Irps |-> [s \in {} |-> NoIrp]]

(* What may be asked of the disk.                                          *)
Requests == {r \in [op : {"read", "write"}, first : Sectors, len : 1..MaxLength,
                    status : {"pending"}] : Span(r.first, r.len) \subseteq Sectors}

Issue(i) ==
  /\ irp'[i] \in Requests
  /\ irp' = [irp EXCEPT ![i] = irp'[i]]
  /\ UNCHANGED <<plain, moved, seen>>

Pending(i) == irp[i].op # "none" /\ irp[i].status = "pending"

Write(i, S) ==
  /\ Pending(i) /\ irp[i].op = "write" /\ S \subseteq RequestSectors(i)
  /\ plain' = [s \in Sectors |-> IF s \in S THEN i ELSE plain[s]]
  /\ moved' = [moved EXCEPT ![i] = @ \cup S]
  /\ UNCHANGED <<irp, seen>>

(* A sector is read once.                                                  *)
Read(i, S) ==
  /\ Pending(i) /\ irp[i].op = "read" /\ S \subseteq RequestSectors(i) \ moved[i]
  /\ seen' = [seen EXCEPT ![i] = [s \in DOMAIN @ \cup S |->
                                    IF s \in S THEN plain[s] ELSE @[s]]]
  /\ moved' = [moved EXCEPT ![i] = @ \cup S]
  /\ UNCHANGED <<plain, irp>>

Settle(i, status) ==
  /\ Pending(i)
  /\ status = "ok" => moved[i] = RequestSectors(i)
  /\ irp' = [irp EXCEPT ![i].status = status]
  /\ UNCHANGED <<plain, moved, seen>>

(* A request that is refused at once needs no result.                      *)
Answer(i) ==
  /\ irp[i] # NoRequest
  /\ Pending(i) => moved[i] = {}
  /\ irp' = [irp EXCEPT ![i] = NoRequest]
  /\ moved' = [moved EXCEPT ![i] = {}]
  /\ seen' = [seen EXCEPT ![i] = [s \in {} |-> NoIrp]]
  /\ UNCHANGED plain

Serve(i) == \/ \E S \in SUBSET RequestSectors(i) : Write(i, S) \/ Read(i, S)
            \/ \E status \in {"ok", "failed"} : Settle(i, status)

Next == \E i \in Irps : IF irp[i] = NoRequest THEN Issue(i) ELSE Serve(i) \/ Answer(i)

Spec == Init /\ [][Next]_<<plain, irp, moved, seen>>
==============================================================================
