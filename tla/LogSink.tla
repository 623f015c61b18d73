------------------------------ MODULE LogSink -------------------------------
(***************************************************************************)
(* What LogThread promises to an analysis: messages are appended to a log  *)
(* until the owner collects; collecting returns one message per origin     *)
(* address, the last one, and every message without an address in order.   *)
(* A CWE warning without address makes collecting fail.  A dropped sink    *)
(* returns nothing.                                                        *)
(***************************************************************************)
EXTENDS Sequences, Naturals

CONSTANTS Message, Address, NoAddress, NoMessage

VARIABLES log, phase, output

(* The last message of the log of the given kind and address, if any. *)
LastOf(l, kind, a) ==
    LET hits == {i \in 1 .. Len(l) : l[i].kind = kind /\ l[i].address = a}
    IN  IF hits = {} THEN NoMessage
        ELSE l[CHOOSE i \in hits : \A j \in hits : j <= i]

(* The positions of the messages without an address among the first n. *)
GeneralPositions(l, n) == {i \in 1 .. n : l[i].kind = "log" /\ l[i].address = NoAddress}

(* f lists the n elements of a set of positions in increasing order. *)
Enumerates(f, n, positions) ==
    /\ f \in [1 .. n -> positions]
    /\ \A j, k \in 1 .. n : j < k => f[j] < f[k]
    /\ \A i \in positions : \E k \in 1 .. n : f[k] = i

(* What is collected from l when f lists its messages without an address. *)
Digest(l, f, n) == [logs |-> [a \in Address |-> LastOf(l, "log", a)],
                    general |-> [k \in 1 .. n |-> l[f[k]]],
                    cwes |-> [a \in Address |-> LastOf(l, "cwe", a)]]

IsMalformed(m) == m.kind = "cwe" /\ m.address = NoAddress

HasMalformed(l) == \E i \in 1 .. Len(l) : IsMalformed(l[i])

Init == log = <<>> /\ phase = "open" /\ output = NoMessage

Log(m) ==
    /\ phase = "open"
    /\ log' = Append(log, m)
    /\ UNCHANGED <<phase, output>>

BeginCollect == phase = "open" /\ phase' = "collecting" /\ UNCHANGED <<log, output>>

BeginDrop == phase = "open" /\ phase' = "dropping" /\ UNCHANGED <<log, output>>

Return ==
    /\ phase = "collecting"
    /\ ~HasMalformed(log)
    /\ phase' = "collected"
    /\ LET general == GeneralPositions(log, Len(log)) IN
         \E n \in 0 .. Len(log) : \E f \in [1 .. n -> general] :
           Enumerates(f, n, general) /\ output' = Digest(log, f, n)
    /\ UNCHANGED log

Fail ==
    /\ phase = "collecting"
    /\ HasMalformed(log)
    /\ phase' = "failed"
    /\ UNCHANGED <<log, output>>

Discard == phase = "dropping" /\ phase' = "dropped" /\ UNCHANGED <<log, output>>

Next == \/ \E m \in Message : Log(m)
        \/ BeginCollect \/ BeginDrop \/ Return \/ Fail \/ Discard

Spec == Init /\ [][Next]_<<log, phase, output>>
=============================================================================
