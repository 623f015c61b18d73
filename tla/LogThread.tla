----------------------------- MODULE LogThread ------------------------------
(***************************************************************************)
(* The log collector of utils/log.rs: analyses send messages over an       *)
(* unbounded channel to a collector thread which deduplicates them; the    *)
(* owner of the LogThread stops the thread with a Terminate message and    *)
(* joins it, either to collect the logs or because it drops the object.    *)
(*                                                                         *)
(* Senders are clones of the channel's sender.  The pointer inference      *)
(* keeps its clone beyond collect() and ignores failed sends; the contexts *)
(* of the CWE119 check unwrap them, and send only while the check runs.    *)
(* The channel is the history `sent` together with the number of messages  *)
(* already received from it; it is FIFO over all senders.                  *)
(***************************************************************************)
EXTENDS Naturals, Sequences

CONSTANTS
    Sender,      \* clones of the message sender
    Unwrapping,  \* the senders whose call sites unwrap the result of a send
    Address,     \* origin addresses (of TIDs and of CWE warnings)
    NoAddress,   \* a general log message, or a CWE warning without addresses
    NoMessage,   \* no entry / no output
    Text,        \* what distinguishes messages of the same origin
    MaxMessages  \* bound on the messages sent by each sender

ASSUME LogThreadAssumption ==
    /\ Unwrapping \subseteq Sender
    /\ NoAddress \notin Address
    /\ MaxMessages \in Nat

Message == [kind : {"log", "cwe"}, address : Address \cup {NoAddress}, text : Text]

Terminate == [kind |-> "terminate", address |-> NoAddress]

ASSUME NoMessageAssumption == NoMessage \notin Message

VARIABLES
    sent,               \* every message the channel accepted, in order
    received,           \* how many of them the collector has received
    logs_with_address, general_logs, collected_cwes,  \* locals of the collector
    thread,             \* "running", "finished" or "panicked"
    owner,              \* what the owner of the LogThread is doing
    output,             \* what collect() returned
    count,              \* messages sent by each sender
    failed              \* senders whose unwrapped send failed

collector == <<logs_with_address, general_logs, collected_cwes>>
vars == <<sent, received, collector, thread, owner, output, count, failed>>

OptMessage == Message \cup {NoMessage}

TypeOK ==
    /\ sent \in Seq(Message \cup {Terminate})
    /\ received \in 0 .. Len(sent)
    /\ logs_with_address \in [Address -> OptMessage]
    /\ general_logs \in Seq(Message)
    /\ collected_cwes \in [Address -> OptMessage]
    /\ thread \in {"running", "finished", "panicked"}
    /\ owner \in {"active", "collecting", "dropping", "collected", "failed", "dropped"}
    /\ count \in [Sender -> 0 .. MaxMessages]
    /\ failed \subseteq Unwrapping
-----------------------------------------------------------------------------
(* LogThread::spawn *)
Init ==
    /\ sent = <<>>
    /\ received = 0
    /\ logs_with_address = [a \in Address |-> NoMessage]
    /\ general_logs = <<>>
    /\ collected_cwes = [a \in Address |-> NoMessage]
    /\ thread = "running"
    /\ owner = "active"
    /\ output = NoMessage
    /\ count = [s \in Sender |-> 0]
    /\ failed = {}

(***************************************************************************)
(* Sending: once the collector thread has ended its receiver is gone and   *)
(* the send fails.  An unwrapped failure panics in the thread of the owner *)
(* (check_cwe), whose unwinding drops the LogThread.                       *)
(***************************************************************************)
ChannelSend(m) == sent' = IF thread = "running" THEN Append(sent, m) ELSE sent

SendStep(s, m) ==
    /\ count[s] < MaxMessages
    /\ count' = [count EXCEPT ![s] = @ + 1]
    /\ ChannelSend(m)
    /\ UNCHANGED <<received, collector, thread, output>>

Send(s, m) ==
    /\ s \in Unwrapping => owner = "active" /\ thread = "running"
    /\ SendStep(s, m)
    /\ UNCHANGED <<owner, failed>>

SendUnwrapPanics(s, m) ==
    /\ s \in Unwrapping
    /\ owner = "active"
    /\ thread # "running"
    /\ SendStep(s, m)
    /\ failed' = failed \cup {s}
    /\ owner' = "dropping"

(***************************************************************************)
(* collect_and_deduplicate: the arms of its receive loop.                  *)
(***************************************************************************)
Receive(m) ==
    /\ thread = "running"
    /\ received < Len(sent)
    /\ m = sent[received + 1]
    /\ received' = received + 1
    /\ UNCHANGED <<sent, owner, output, count, failed>>

ReceiveLogKeepsFirst(m) ==
    /\ Receive(m)
    /\ m.kind = "log"
    /\ IF m.address \in Address
       THEN /\ logs_with_address' = [logs_with_address EXCEPT
                                        ![m.address] = IF @ = NoMessage THEN m ELSE @]
            /\ UNCHANGED general_logs
       ELSE /\ general_logs' = Append(general_logs, m)
            /\ UNCHANGED logs_with_address
    /\ UNCHANGED <<collected_cwes, thread>>

ReceiveLog(m) ==
    /\ Receive(m)
    /\ m.kind = "log"
    /\ IF m.address \in Address
       THEN /\ logs_with_address' = [logs_with_address EXCEPT ![m.address] = m]
            /\ UNCHANGED general_logs
       ELSE /\ general_logs' = Append(general_logs, m)
            /\ UNCHANGED logs_with_address
    /\ UNCHANGED <<collected_cwes, thread>>

ReceiveCwe(m) ==
    /\ Receive(m)
    /\ m.kind = "cwe"
    /\ m.address \in Address
    /\ collected_cwes' = [collected_cwes EXCEPT ![m.address] = m]
    /\ UNCHANGED <<logs_with_address, general_logs, thread>>

ReceiveMalformedCwe(m) ==
    /\ Receive(m)
    /\ m.kind = "cwe"
    /\ m.address = NoAddress
    /\ thread' = "panicked"
    /\ UNCHANGED collector

ReceiveTerminate(m) ==
    /\ Receive(m)
    /\ m.kind = "terminate"
    /\ thread' = "finished"
    /\ UNCHANGED collector

CollectorStep ==
    \E m \in Message \cup {Terminate} :
        \/ ReceiveLog(m)
        \/ ReceiveCwe(m)
        \/ ReceiveMalformedCwe(m)
        \/ ReceiveTerminate(m)

(***************************************************************************)
(* The owner: collect() and drop() send Terminate and join the thread.     *)
(* collect() consumes the LogThread, so its drop runs at the end; its      *)
(* second Terminate meets a disconnected channel and has no effect.        *)
(***************************************************************************)
BeginCollectWithoutTerminate ==
    /\ owner = "active"
    /\ owner' = "collecting"
    /\ UNCHANGED <<sent, received, collector, thread, output, count, failed>>

BeginCollect ==
    /\ owner = "active"
    /\ owner' = "collecting"
    /\ ChannelSend(Terminate)
    /\ UNCHANGED <<received, collector, thread, output, count, failed>>

CollectWithoutJoin ==
    /\ owner = "collecting"
    /\ owner' = "collected"
    /\ output' = [logs |-> logs_with_address, general |-> general_logs,
                  cwes |-> collected_cwes]
    /\ UNCHANGED <<sent, received, collector, thread, count, failed>>

CollectJoin ==
    /\ owner = "collecting"
    /\ thread = "finished"
    /\ owner' = "collected"
    /\ output' = [logs |-> logs_with_address, general |-> general_logs,
                  cwes |-> collected_cwes]
    /\ UNCHANGED <<sent, received, collector, thread, count, failed>>

(* join().unwrap() re-raises the panic of the collector. *)
CollectUnwrapPanics ==
    /\ owner = "collecting"
    /\ thread = "panicked"
    /\ owner' = "failed"
    /\ UNCHANGED <<sent, received, collector, thread, output, count, failed>>

BeginDrop ==
    /\ owner = "active"
    /\ owner' = "dropping"
    /\ ChannelSend(Terminate)
    /\ UNCHANGED <<received, collector, thread, output, count, failed>>

DropJoin ==
    /\ owner = "dropping"
    /\ thread # "running"
    /\ owner' = "dropped"
    /\ UNCHANGED <<sent, received, collector, thread, output, count, failed>>

OwnerJoins == CollectJoin \/ CollectUnwrapPanics \/ DropJoin

Next ==
    \/ \E s \in Sender, m \in Message : Send(s, m) \/ SendUnwrapPanics(s, m)
    \/ CollectorStep
    \/ BeginCollect
    \/ BeginDrop
    \/ OwnerJoins

Spec == Init /\ [][Next]_vars

(* The collector thread is scheduled, and so is a join whose thread ended. *)
FairSpec == Spec /\ WF_vars(CollectorStep) /\ WF_vars(OwnerJoins)
-----------------------------------------------------------------------------
(***************************************************************************)
(* Properties.                                                             *)
(***************************************************************************)

(***************************************************************************)
(* "In such a case only the last message received is kept": at every point *)
(* an address maps to the last message received for it, and nothing that   *)
(* was received for an address is without a representative.                *)
(***************************************************************************)
IsLastOf(s, n, m, kind, a) ==
    \E i \in 1 .. n :
        /\ s[i] = m
        /\ m.kind = kind /\ m.address = a
        /\ \A j \in i + 1 .. n : ~(s[j].kind = kind /\ s[j].address = a)

NoneOf(s, n, kind, a) ==
    \A i \in 1 .. n : ~(s[i].kind = kind /\ s[i].address = a)

(* The entry of an address after the first n messages of s. *)
Represents(s, n, entry, kind, a) ==
    IF entry = NoMessage THEN NoneOf(s, n, kind, a) ELSE IsLastOf(s, n, entry, kind, a)

LastMessageKept ==
    \A a \in Address :
        /\ Represents(sent, received, logs_with_address[a], "log", a)
        /\ Represents(sent, received, collected_cwes[a], "cwe", a)

(***************************************************************************)
(* A message accepted by the channel before Terminate is never lost: once  *)
(* the collector has finished, everything in front of the first Terminate  *)
(* has been received.                                                      *)
(***************************************************************************)
FinishedAtFirstTerminate ==
    thread = "finished" =>
        /\ received > 0
        /\ sent[received] = Terminate
        /\ \A i \in 1 .. received - 1 : sent[i] # Terminate

(***************************************************************************)
(* Unwrapping a send in the CWE119 check is safe unless the collector was  *)
(* brought down by a CWE warning without address.                          *)
(***************************************************************************)
UnwrapFailsOnlyAfterMalformedCwe ==
    failed # {} => \E i \in 1 .. received :
                      sent[i].kind = "cwe" /\ sent[i].address = NoAddress

(***************************************************************************)
(* The detailed collector implements LogSink: the abstract log is what the *)
(* channel accepted in front of the first Terminate.                       *)
(***************************************************************************)
FirstTerminate ==
    LET ends == {i \in 1 .. Len(sent) : sent[i] = Terminate}
    IN  IF ends = {} THEN Len(sent) + 1
        ELSE CHOOSE i \in ends : \A j \in ends : i <= j

Sink == INSTANCE LogSink WITH
    log <- SubSeq(sent, 1, FirstTerminate - 1),
    phase <- IF owner = "active" THEN "open" ELSE owner

ImplementsLogSink == Sink!Spec

(***************************************************************************)
(* collect() and drop() return even while clones of the sender are still   *)
(* alive and sending.                                                      *)
(***************************************************************************)
OwnerIsReleased ==
    owner \in {"collecting", "dropping"} ~> owner \in {"collected", "failed", "dropped"}
=============================================================================
