-------------------------- MODULE LogThreadProofs ---------------------------
(***************************************************************************)
(* Proofs about the log collector for any number of senders, addresses and *)
(* messages.                                                               *)
(***************************************************************************)
EXTENDS LogThread, TLAPS

(* Appending to the channel keeps the messages accepted before. *)
LEMMA ChannelSendStep ==
    ASSUME sent \in Seq(Message \cup {Terminate}), NEW m \in Message \cup {Terminate},
           ChannelSend(m)
    PROVE  /\ sent' \in Seq(Message \cup {Terminate})
           /\ Len(sent') >= Len(sent)
           /\ \A i \in 1 .. Len(sent) : sent'[i] = sent[i]
BY DEF ChannelSend

(* A step of the collector receives the next message of the channel. *)
LEMMA ReceiveStep ==
    ASSUME TypeOK, NEW m, Receive(m)
    PROVE  /\ received' = received + 1 /\ received' \in 1 .. Len(sent)
           /\ sent' = sent /\ m = sent[received']
           /\ m \in Message \cup {Terminate}
<1>. USE DEF TypeOK, Receive
<1>1. received \in Nat /\ Len(sent) \in Nat /\ received < Len(sent)
  OBVIOUS
<1>2. received + 1 \in 1 .. Len(sent)
  BY <1>1
<1>. QED BY <1>2

LEMMA NextType == TypeOK /\ [Next]_vars => TypeOK'
<1>. SUFFICES ASSUME TypeOK, [Next]_vars PROVE TypeOK'
  OBVIOUS
<1>. USE DEF TypeOK
<1>1. ASSUME NEW s \in Sender, NEW m \in Message, SendStep(s, m),
             owner' \in {"active", "collecting", "dropping", "collected", "failed", "dropped"},
             failed' \subseteq Unwrapping
      PROVE  TypeOK'
  <2>1. sent' \in Seq(Message \cup {Terminate}) /\ Len(sent') >= Len(sent)
    BY <1>1, ChannelSendStep DEF SendStep
  <2>2. received' \in 0 .. Len(sent')
    BY <1>1, <2>1 DEF SendStep
  <2>3. count' \in [Sender -> 0 .. MaxMessages]
    BY <1>1, LogThreadAssumption DEF SendStep
  <2>. QED BY <1>1, <2>1, <2>2, <2>3 DEF SendStep, collector
<1>2. ASSUME NEW s \in Sender, NEW m \in Message, Send(s, m)
      PROVE  TypeOK'
  BY <1>1, <1>2 DEF Send
<1>3. ASSUME NEW s \in Sender, NEW m \in Message, SendUnwrapPanics(s, m)
      PROVE  TypeOK'
  BY <1>1, <1>3 DEF SendUnwrapPanics
<1>4. ASSUME NEW m \in Message \cup {Terminate}, ReceiveLog(m)
      PROVE  TypeOK'
  <2>1. m \in Message
    BY <1>4 DEF ReceiveLog, Terminate
  <2>2. received' \in 0 .. Len(sent')
    BY <1>4, ReceiveStep DEF ReceiveLog
  <2>3. logs_with_address' \in [Address -> OptMessage]
    BY <1>4, <2>1 DEF ReceiveLog, OptMessage
  <2>4. general_logs' \in Seq(Message)
    BY <1>4, <2>1 DEF ReceiveLog
  <2>. QED BY <1>4, <2>2, <2>3, <2>4 DEF ReceiveLog, Receive
<1>5. ASSUME NEW m \in Message \cup {Terminate}, ReceiveCwe(m)
      PROVE  TypeOK'
  <2>1. m \in Message
    BY <1>5 DEF ReceiveCwe, Terminate
  <2>2. received' \in 0 .. Len(sent')
    BY <1>5, ReceiveStep DEF ReceiveCwe
  <2>. QED BY <1>5, <2>1, <2>2 DEF ReceiveCwe, Receive, OptMessage
<1>6. ASSUME NEW m \in Message \cup {Terminate},
             ReceiveMalformedCwe(m) \/ ReceiveTerminate(m)
      PROVE  TypeOK'
  <2>1. received' \in 0 .. Len(sent')
    BY <1>6, ReceiveStep DEF ReceiveMalformedCwe, ReceiveTerminate
  <2>. QED BY <1>6, <2>1
          DEF ReceiveMalformedCwe, ReceiveTerminate, Receive, collector
<1>7. ASSUME BeginCollect \/ BeginDrop
      PROVE  TypeOK'
  <2>1. sent' \in Seq(Message \cup {Terminate}) /\ Len(sent') >= Len(sent)
    BY <1>7, ChannelSendStep DEF BeginCollect, BeginDrop
  <2>2. received' \in 0 .. Len(sent')
    BY <1>7, <2>1 DEF BeginCollect, BeginDrop
  <2>. QED BY <1>7, <2>1, <2>2 DEF BeginCollect, BeginDrop, collector
<1>8. CASE OwnerJoins
  BY <1>8 DEF OwnerJoins, CollectJoin, CollectUnwrapPanics, DropJoin, collector
<1>9. CASE UNCHANGED vars
  BY <1>9 DEF vars, collector
<1>. QED BY <1>2, <1>3, <1>4, <1>5, <1>6, <1>7, <1>8, <1>9
        DEF Next, CollectorStep

(***************************************************************************)
(* Type correctness of the channel, the collector and the owner.           *)
(***************************************************************************)
THEOREM TypeCorrect == Spec => []TypeOK
<1>1. Init => TypeOK
  BY LogThreadAssumption DEF Init, TypeOK, OptMessage
<1>. QED BY <1>1, NextType, PTL DEF Spec

(* Steps other than the collector's leave its maps and its input alone. *)
LEMMA OthersKeepReceived ==
    ASSUME TypeOK, [Next]_vars, ~CollectorStep
    PROVE  /\ UNCHANGED <<received, collector, thread>>
           /\ \A i \in 1 .. received : sent'[i] = sent[i]
<1>1. ASSUME NEW m \in Message \cup {Terminate}, ChannelSend(m)
      PROVE  \A i \in 1 .. received : sent'[i] = sent[i]
  <2>1. sent \in Seq(Message \cup {Terminate}) /\ received \in 0 .. Len(sent)
    BY DEF TypeOK
  <2>2. \A i \in 1 .. Len(sent) : sent'[i] = sent[i]
    BY <1>1, <2>1, ChannelSendStep
  <2>3. Len(sent) \in Nat
    BY <2>1
  <2>. QED BY <2>1, <2>2, <2>3
<1>2. ASSUME NEW s \in Sender, NEW m \in Message, SendStep(s, m)
      PROVE  \A i \in 1 .. received : sent'[i] = sent[i]
  BY <1>1, <1>2 DEF SendStep
<1>3. \/ sent' = sent
      \/ \E s \in Sender, m \in Message : SendStep(s, m)
      \/ BeginCollect \/ BeginDrop
  BY DEF Next, Send, SendUnwrapPanics, OwnerJoins, CollectJoin,
         CollectUnwrapPanics, DropJoin, vars
<1>4. UNCHANGED <<received, collector, thread>>
  BY DEF Next, Send, SendUnwrapPanics, SendStep, OwnerJoins, CollectJoin, BeginCollect,
         BeginDrop, CollectUnwrapPanics, DropJoin, vars
<1>5. CASE BeginCollect \/ BeginDrop
  BY <1>1, <1>5 DEF BeginCollect, BeginDrop
<1>. QED BY <1>2, <1>3, <1>4, <1>5

(* What receiving one more message means for the entry of an address. *)
LEMMA NewEntry ==
    ASSUME NEW s, NEW n \in Nat, NEW m, m # NoMessage, s[n + 1] = m
    PROVE  Represents(s, n + 1, m, m.kind, m.address)
<1>1. n + 1 \in 1 .. n + 1 /\ (n + 1) + 1 .. n + 1 = {}
  OBVIOUS
<1>. QED BY <1>1 DEF Represents, IsLastOf

LEMMA OldEntry ==
    ASSUME NEW s, NEW n \in Nat, NEW entry, NEW kind, NEW a,
           Represents(s, n, entry, kind, a),
           s[n + 1].kind # kind \/ s[n + 1].address # a
    PROVE  Represents(s, n + 1, entry, kind, a)
<1>1. CASE entry = NoMessage
  <2>1. ASSUME NEW i \in 1 .. n + 1 PROVE ~(s[i].kind = kind /\ s[i].address = a)
    <3>1. i \in 1 .. n \/ i = n + 1
      OBVIOUS
    <3>. QED BY <1>1, <3>1 DEF Represents, NoneOf
  <2>. QED BY <1>1, <2>1 DEF Represents, NoneOf
<1>2. CASE entry # NoMessage
  <2>1. PICK i \in 1 .. n :
            /\ s[i] = entry /\ entry.kind = kind /\ entry.address = a
            /\ \A j \in i + 1 .. n : ~(s[j].kind = kind /\ s[j].address = a)
    BY <1>2 DEF Represents, IsLastOf
  <2>2. ASSUME NEW j \in i + 1 .. n + 1 PROVE ~(s[j].kind = kind /\ s[j].address = a)
    <3>1. j \in i + 1 .. n \/ j = n + 1
      OBVIOUS
    <3>. QED BY <2>1, <3>1
  <2>3. i \in 1 .. n + 1
    OBVIOUS
  <2>. QED BY <1>2, <2>1, <2>2, <2>3 DEF Represents, IsLastOf
<1>. QED BY <1>1, <1>2

LEMMA UntouchedEntry ==
    ASSUME NEW n \in Nat, NEW s, NEW t, \A i \in 1 .. n : t[i] = s[i],
           NEW entry, NEW kind, NEW a, Represents(s, n, entry, kind, a)
    PROVE  Represents(t, n, entry, kind, a)
<1>1. \A i \in 1 .. n : \A j \in i + 1 .. n : t[j] = s[j]
  OBVIOUS
<1>. QED BY <1>1 DEF Represents, NoneOf, IsLastOf

(***************************************************************************)
(* The collector keeps exactly the last message of every origin.           *)
(***************************************************************************)
THEOREM DeduplicationCorrect == Spec => []LastMessageKept
<1>1. Init => LastMessageKept
  BY DEF Init, LastMessageKept, Represents, NoneOf
<1>2. TypeOK /\ LastMessageKept /\ [Next]_vars => LastMessageKept'
  <2>. SUFFICES ASSUME TypeOK, LastMessageKept, [Next]_vars, NEW a \in Address
                PROVE  /\ Represents(sent', received', logs_with_address'[a], "log", a)
                       /\ Represents(sent', received', collected_cwes'[a], "cwe", a)
    BY DEF LastMessageKept
  <2>0. /\ Represents(sent, received, logs_with_address[a], "log", a)
        /\ Represents(sent, received, collected_cwes[a], "cwe", a)
        /\ received \in Nat
    BY DEF LastMessageKept, TypeOK
  <2>1. CASE ~CollectorStep
    BY <2>0, <2>1, OthersKeepReceived, UntouchedEntry DEF collector
  <2>2. ASSUME NEW m, Receive(m)
        PROVE  received' = received + 1 /\ sent' = sent /\ m = sent[received + 1]
    BY <2>2, ReceiveStep
  <2>3. ASSUME NEW m \in Message \cup {Terminate}, ReceiveLog(m)
        PROVE  /\ Represents(sent', received', logs_with_address'[a], "log", a)
               /\ Represents(sent', received', collected_cwes'[a], "cwe", a)
    <3>1. m # NoMessage
      BY <2>3, NoMessageAssumption DEF ReceiveLog, Terminate
    <3>2. Represents(sent', received', collected_cwes'[a], "cwe", a)
      BY <2>0, <2>2, <2>3, OldEntry DEF ReceiveLog
    <3>3. CASE m.address = a
      <4>1. logs_with_address'[a] = m
        BY <2>3, <3>3 DEF ReceiveLog, TypeOK
      <4>. QED BY <2>0, <2>2, <2>3, <3>1, <3>2, <3>3, <4>1, NewEntry DEF ReceiveLog
    <3>4. CASE m.address # a
      <4>1. logs_with_address'[a] = logs_with_address[a]
        BY <2>3, <3>4 DEF ReceiveLog, TypeOK
      <4>. QED BY <2>0, <2>2, <2>3, <3>2, <3>4, <4>1, OldEntry DEF ReceiveLog
    <3>. QED BY <3>3, <3>4
  <2>4. ASSUME NEW m \in Message \cup {Terminate}, ReceiveCwe(m)
        PROVE  /\ Represents(sent', received', logs_with_address'[a], "log", a)
               /\ Represents(sent', received', collected_cwes'[a], "cwe", a)
    <3>1. m # NoMessage
      BY <2>4, NoMessageAssumption DEF ReceiveCwe, Terminate
    <3>2. Represents(sent', received', logs_with_address'[a], "log", a)
      BY <2>0, <2>2, <2>4, OldEntry DEF ReceiveCwe
    <3>3. CASE m.address = a
      <4>1. collected_cwes'[a] = m
        BY <2>4, <3>3 DEF ReceiveCwe, TypeOK
      <4>. QED BY <2>0, <2>2, <2>4, <3>1, <3>2, <3>3, <4>1, NewEntry DEF ReceiveCwe
    <3>4. CASE m.address # a
      <4>1. collected_cwes'[a] = collected_cwes[a]
        BY <2>4, <3>4 DEF ReceiveCwe, TypeOK
      <4>. QED BY <2>0, <2>2, <2>4, <3>2, <3>4, <4>1, OldEntry DEF ReceiveCwe
    <3>. QED BY <3>3, <3>4
  <2>5. ASSUME NEW m \in Message \cup {Terminate},
               ReceiveMalformedCwe(m) \/ ReceiveTerminate(m)
        PROVE  /\ Represents(sent', received', logs_with_address'[a], "log", a)
               /\ Represents(sent', received', collected_cwes'[a], "cwe", a)
    <3>1. m.kind = "terminate" \/ m.address # a
      BY <2>5, LogThreadAssumption DEF ReceiveMalformedCwe, ReceiveTerminate
    <3>2. logs_with_address' = logs_with_address /\ collected_cwes' = collected_cwes
      BY <2>5 DEF ReceiveMalformedCwe, ReceiveTerminate, collector
    <3>. QED BY <2>0, <2>2, <2>5, <3>1, <3>2, OldEntry
            DEF ReceiveMalformedCwe, ReceiveTerminate
  <2>. QED BY <2>1, <2>3, <2>4, <2>5 DEF CollectorStep
<1>. QED BY <1>1, <1>2, TypeCorrect, PTL DEF Spec

(* Until it has finished, the collector has not received Terminate. *)
StopInv ==
    /\ FinishedAtFirstTerminate
    /\ thread # "finished" => \A i \in 1 .. received : sent[i] # Terminate

LEMMA StopsAtTerminate == Spec => []StopInv
<1>1. Init => StopInv
  BY DEF Init, FinishedAtFirstTerminate, StopInv
<1>2. TypeOK /\ StopInv /\ [Next]_vars => StopInv'
  <2>. SUFFICES ASSUME TypeOK, StopInv, [Next]_vars PROVE StopInv'
    OBVIOUS
  <2>. USE DEF StopInv
  <2>1. CASE ~CollectorStep
    <3>1. /\ received' = received /\ thread' = thread
          /\ \A i \in 1 .. received : sent'[i] = sent[i]
      BY <2>1, OthersKeepReceived
    <3>2. received > 0 => received \in 1 .. received
      BY DEF TypeOK
    <3>3. \A i \in 1 .. received - 1 : i \in 1 .. received
      BY DEF TypeOK
    <3>. QED BY <3>1, <3>2, <3>3 DEF FinishedAtFirstTerminate
  <2>2. ASSUME NEW m \in Message \cup {Terminate}, Receive(m)
        PROVE  /\ \A i \in 1 .. received' - 1 : sent'[i] # Terminate
               /\ received' > 0 /\ sent'[received'] = m
               /\ m # Terminate => \A i \in 1 .. received' : sent'[i] # Terminate
    <3>1. /\ received \in Nat /\ received' = received + 1 /\ sent' = sent
          /\ m = sent[received'] /\ thread = "running"
      BY <2>2, ReceiveStep DEF TypeOK, Receive
    <3>2. 1 .. received' - 1 = 1 .. received /\ 1 .. received' = (1 .. received) \cup {received'}
      BY <3>1
    <3>. QED BY <3>1, <3>2
  <2>3. ASSUME NEW m \in Message \cup {Terminate}, ReceiveLog(m) \/ ReceiveCwe(m)
        PROVE  StopInv'
    BY <2>2, <2>3 DEF ReceiveLog, ReceiveCwe, Receive, Terminate, FinishedAtFirstTerminate
  <2>4. ASSUME NEW m \in Message \cup {Terminate}, ReceiveMalformedCwe(m)
        PROVE  StopInv'
    BY <2>2, <2>4 DEF ReceiveMalformedCwe, Terminate, FinishedAtFirstTerminate
  <2>5. ASSUME NEW m \in Message \cup {Terminate}, ReceiveTerminate(m)
        PROVE  StopInv'
    <3>1. m = Terminate
      BY <2>5 DEF ReceiveTerminate, Message
    <3>. QED BY <2>2, <2>5, <3>1 DEF ReceiveTerminate, FinishedAtFirstTerminate
  <2>. QED BY <2>1, <2>3, <2>4, <2>5 DEF CollectorStep
<1>. QED BY <1>1, <1>2, TypeCorrect, PTL DEF Spec

(***************************************************************************)
(* The collector stops at the first Terminate of the channel and not       *)
(* before, unless it panics.                                               *)
(***************************************************************************)
THEOREM NothingLostBeforeTerminate == Spec => []FinishedAtFirstTerminate
<1>1. StopInv => FinishedAtFirstTerminate
  BY DEF StopInv
<1>. QED BY <1>1, StopsAtTerminate, PTL

MalformedReceived ==
    \E i \in 1 .. received : sent[i].kind = "cwe" /\ sent[i].address = NoAddress

(* As long as the owner is active nobody has sent Terminate, so the collector *)
(* can only have ended by a panic.                                           *)
UnwrapInv ==
    /\ owner = "active" => thread # "finished"
                           /\ \A i \in 1 .. Len(sent) : sent[i] # Terminate
    /\ thread = "panicked" => MalformedReceived
    /\ failed # {} => thread = "panicked"

LEMMA UnwrapInvariant == Spec => []UnwrapInv
<1>1. Init => UnwrapInv
  BY DEF Init, UnwrapInv
<1>2. TypeOK /\ UnwrapInv /\ [Next]_vars => UnwrapInv'
  <2>. SUFFICES ASSUME TypeOK, UnwrapInv, [Next]_vars PROVE UnwrapInv'
    OBVIOUS
  <2>1. CASE ~CollectorStep
    <3>1. /\ received' = received /\ thread' = thread
          /\ \A i \in 1 .. received : sent'[i] = sent[i]
      BY <2>1, OthersKeepReceived
    <3>2. MalformedReceived => MalformedReceived'
      BY <3>1 DEF MalformedReceived
    <3>3. failed' # {} => thread' = "panicked"
      BY <2>1, <3>1 DEF UnwrapInv, TypeOK, Next, Send, SendUnwrapPanics, OwnerJoins,
             CollectJoin, CollectUnwrapPanics, DropJoin, BeginCollect, BeginDrop, vars
    <3>4. ASSUME owner' = "active" PROVE \A i \in 1 .. Len(sent') : sent'[i] # Terminate
      <4>1. owner = "active" /\ (sent' = sent \/ \E m \in Message : sent' = Append(sent, m))
        BY <2>1, <3>4 DEF Next, Send, SendUnwrapPanics, SendStep, ChannelSend, OwnerJoins,
               CollectJoin, CollectUnwrapPanics, DropJoin, BeginCollect, BeginDrop, vars
      <4>2. \A m \in Message : m # Terminate
        BY DEF Message, Terminate
      <4>. QED BY <4>1, <4>2 DEF UnwrapInv, TypeOK
    <3>5. owner' = "active" => owner = "active"
      BY <2>1 DEF Next, Send, SendUnwrapPanics, OwnerJoins, CollectJoin,
             CollectUnwrapPanics, DropJoin, BeginCollect, BeginDrop, vars
    <3>. QED BY <3>1, <3>2, <3>3, <3>4, <3>5 DEF UnwrapInv
  <2>2. ASSUME NEW m \in Message \cup {Terminate}, Receive(m)
        PROVE  /\ thread = "running" /\ sent' = sent /\ m = sent[received']
               /\ received' \in 1 .. Len(sent) /\ received' \in 1 .. received'
               /\ owner' = owner /\ failed' = failed
    BY <2>2, ReceiveStep DEF TypeOK, Receive
  <2>3. ASSUME NEW m \in Message \cup {Terminate}, ReceiveLog(m) \/ ReceiveCwe(m)
        PROVE  UnwrapInv'
    <3>1. thread' = thread /\ thread = "running" /\ Receive(m)
      BY <2>3 DEF ReceiveLog, ReceiveCwe, Receive
    <3>. QED BY <2>2, <3>1 DEF UnwrapInv
  <2>4. ASSUME NEW m \in Message \cup {Terminate}, ReceiveMalformedCwe(m)
        PROVE  UnwrapInv'
    <3>1. thread' = "panicked" /\ Receive(m) /\ m.kind = "cwe" /\ m.address = NoAddress
      BY <2>4 DEF ReceiveMalformedCwe
    <3>2. MalformedReceived'
      BY <2>2, <3>1 DEF MalformedReceived
    <3>. QED BY <2>2, <3>1, <3>2 DEF UnwrapInv
  <2>5. ASSUME NEW m \in Message \cup {Terminate}, ReceiveTerminate(m)
        PROVE  UnwrapInv'
    <3>1. thread' = "finished" /\ Receive(m) /\ m = Terminate
      BY <2>5 DEF ReceiveTerminate, Message
    <3>2. owner # "active"
      BY <2>2, <3>1 DEF UnwrapInv
    <3>. QED BY <2>2, <3>1, <3>2 DEF UnwrapInv
  <2>. QED BY <2>1, <2>3, <2>4, <2>5 DEF CollectorStep
<1>. QED BY <1>1, <1>2, TypeCorrect, PTL DEF Spec

(***************************************************************************)
(* An unwrapped send of the CWE119 check only fails after the collector    *)
(* met a CWE warning without address.                                      *)
(***************************************************************************)
THEOREM UnwrapIsSafe == Spec => []UnwrapFailsOnlyAfterMalformedCwe
<1>1. UnwrapInv => UnwrapFailsOnlyAfterMalformedCwe
  BY DEF UnwrapInv, UnwrapFailsOnlyAfterMalformedCwe, MalformedReceived
<1>. QED BY <1>1, UnwrapInvariant, PTL
-----------------------------------------------------------------------------
(***************************************************************************)
(* The refinement of LogSink.  Beyond the invariants above the simulation  *)
(* needs: the collector is alive as long as it met no malformed warning;   *)
(* at most one Terminate enters the channel, and once the owner is not     *)
(* active any more it is there or the channel is closed, so that a late    *)
(* send of a clone does not change the abstract log; and general_logs is   *)
(* the enumeration of the processed messages without an address.           *)
(***************************************************************************)
AliveInv == thread # "panicked" => ~ MalformedReceived

OneTerminate ==
    \A i, j \in 1 .. Len(sent) : sent[i] = Terminate /\ sent[j] = Terminate => i = j

ClosedInv ==
    \/ owner = "active"
    \/ thread # "running"
    \/ \E t \in 1 .. Len(sent) : sent[t] = Terminate

(* The messages in front of Terminate that the collector has processed. *)
Processed == IF thread = "finished" THEN received - 1 ELSE received

IsGeneralLog(s, n, g) ==
    \E k \in 0 .. n : \E f \in [1 .. k -> Sink!GeneralPositions(s, n)] :
        /\ Sink!Enumerates(f, k, Sink!GeneralPositions(s, n))
        /\ g = [j \in 1 .. k |-> s[f[j]]]

GeneralInv == IsGeneralLog(sent, Processed, general_logs)

RefineInv == AliveInv /\ OneTerminate /\ ClosedInv /\ GeneralInv

(* Messages outside the processed prefix do not matter. *)
LEMMA GeneralFrame ==
    ASSUME NEW s, NEW t, NEW n \in Nat, NEW g, IsGeneralLog(s, n, g),
           \A i \in 1 .. n : t[i] = s[i]
    PROVE  IsGeneralLog(t, n, g)
<1>. DEFINE P == Sink!GeneralPositions(s, n)
            Q == Sink!GeneralPositions(t, n)
<1>1. P = Q /\ P \subseteq 1 .. n
  BY DEF Sink!GeneralPositions
<1>. HIDE DEF P, Q
<1>k. PICK k \in 0 .. n : \E f \in [1 .. k -> P] :
          Sink!Enumerates(f, k, P) /\ g = [j \in 1 .. k |-> s[f[j]]]
  BY DEF IsGeneralLog, P
<1>2. PICK f \in [1 .. k -> P] :
          Sink!Enumerates(f, k, P) /\ g = [j \in 1 .. k |-> s[f[j]]]
  BY <1>k
<1>3. [j \in 1 .. k |-> s[f[j]]] = [j \in 1 .. k |-> t[f[j]]]
  BY <1>1
<1>. QED BY <1>1, <1>2, <1>3 DEF IsGeneralLog, Q

(* A message of another kind does not belong to the general logs. *)
LEMMA GeneralSkip ==
    ASSUME NEW s, NEW n \in Nat, NEW g, IsGeneralLog(s, n, g),
           ~ (s[n + 1].kind = "log" /\ s[n + 1].address = NoAddress)
    PROVE  IsGeneralLog(s, n + 1, g)
<1>1. 1 .. n + 1 = (1 .. n) \cup {n + 1} /\ 0 .. n \subseteq 0 .. n + 1
  OBVIOUS
<1>2. Sink!GeneralPositions(s, n + 1) = Sink!GeneralPositions(s, n)
  BY <1>1 DEF Sink!GeneralPositions
<1>. QED BY <1>1, <1>2 DEF IsGeneralLog

(* A message without an address becomes the last of the general logs. *)
LEMMA GeneralAppend ==
    ASSUME NEW s, NEW n \in Nat, NEW g \in Seq(Message), IsGeneralLog(s, n, g),
           s[n + 1] \in Message,
           s[n + 1].kind = "log" /\ s[n + 1].address = NoAddress
    PROVE  IsGeneralLog(s, n + 1, Append(g, s[n + 1]))
<1>. DEFINE P == Sink!GeneralPositions(s, n)
            Q == Sink!GeneralPositions(s, n + 1)
<1>1. 1 .. n + 1 = (1 .. n) \cup {n + 1}
  OBVIOUS
<1>2. Q = P \cup {n + 1} /\ P \subseteq 1 .. n
  BY <1>1 DEF Sink!GeneralPositions
<1>. HIDE DEF P, Q
<1>k. PICK k \in 0 .. n : \E f \in [1 .. k -> P] :
          Sink!Enumerates(f, k, P) /\ g = [j \in 1 .. k |-> s[f[j]]]
  BY DEF IsGeneralLog, P
<1>3. PICK f \in [1 .. k -> P] :
          Sink!Enumerates(f, k, P) /\ g = [j \in 1 .. k |-> s[f[j]]]
  BY <1>k
<1>. DEFINE h == [j \in 1 .. k + 1 |-> IF j = k + 1 THEN n + 1 ELSE f[j]]
<1>4. /\ k \in Nat /\ k + 1 \in 0 .. n + 1 /\ k + 1 \in 1 .. k + 1
      /\ \A j \in 1 .. k + 1 : j \in 1 .. k \/ j = k + 1
      /\ \A j \in 1 .. k : j \in 1 .. k + 1 /\ j # k + 1
  OBVIOUS
<1>5. \A j \in 1 .. k : f[j] \in P /\ f[j] \in 1 .. n
  BY <1>2, <1>3
<1>6. h \in [1 .. k + 1 -> Q]
  BY <1>2, <1>4, <1>5
<1>7. \A j \in 1 .. k : h[j] = f[j]
  BY <1>4
<1>8. h[k + 1] = n + 1
  BY <1>4
<1>9. \A i, j \in 1 .. k + 1 : i < j => h[i] < h[j]
  <2>. SUFFICES ASSUME NEW i \in 1 .. k + 1, NEW j \in 1 .. k + 1, i < j
                PROVE  h[i] < h[j]
    OBVIOUS
  <2>. HIDE DEF h
  <2>1. i \in 1 .. k
    BY <1>4
  <2>2. CASE j = k + 1
    BY <1>5, <1>7, <1>8, <2>1, <2>2
  <2>3. CASE j \in 1 .. k
    BY <1>3, <1>7, <2>1, <2>3 DEF Sink!Enumerates
  <2>. QED BY <1>4, <2>2, <2>3
<1>10. \A i \in Q : \E j \in 1 .. k + 1 : h[j] = i
  <2>. HIDE DEF h
  <2>. QED BY <1>2, <1>3, <1>4, <1>7, <1>8 DEF Sink!Enumerates
<1>11. Sink!Enumerates(h, k + 1, Q)
  <2>. HIDE DEF h
  <2>. QED BY <1>6, <1>9, <1>10 DEF Sink!Enumerates
<1>12. Append(g, s[n + 1]) = [j \in 1 .. k + 1 |-> s[h[j]]]
  <2>1. Len(g) = k /\ DOMAIN g = 1 .. k
    <3>1. DOMAIN g = 1 .. k
      BY <1>3
    <3>2. Len(g) \in Nat /\ DOMAIN g = 1 .. Len(g)
      OBVIOUS
    <3>. QED BY <1>4, <3>1, <3>2
  <2>2. \A j \in 1 .. k : g[j] = s[h[j]]
    BY <1>3, <1>7
  <2>. HIDE DEF h
  <2>3. \A j \in 1 .. k + 1 : Append(g, s[n + 1])[j] = s[h[j]]
    BY <1>4, <1>8, <2>1, <2>2
  <2>4. /\ Append(g, s[n + 1]) \in Seq(Message)
        /\ DOMAIN Append(g, s[n + 1]) = 1 .. k + 1
    BY <2>1
  <2>5. Append(g, s[n + 1]) = [j \in 1 .. k + 1 |-> Append(g, s[n + 1])[j]]
    BY <2>4
  <2>. QED BY <2>3, <2>5
<1>. HIDE DEF h
<1>. QED BY <1>4, <1>6, <1>11, <1>12 DEF IsGeneralLog, Q

(* What a step other than the collector's does to channel and owner. *)
LEMMA OthersSend ==
    ASSUME TypeOK, [Next]_vars, ~CollectorStep
    PROVE  \/ sent' = sent /\ (owner' = owner \/ owner # "active" \/ thread # "running")
           \/ /\ thread = "running" /\ owner' = owner
              /\ \E m \in Message : sent' = Append(sent, m)
           \/ /\ thread = "running" /\ owner = "active"
              /\ sent' = Append(sent, Terminate)
BY DEF Next, Send, SendUnwrapPanics, SendStep, ChannelSend, OwnerJoins, CollectJoin,
       CollectUnwrapPanics, DropJoin, BeginCollect, BeginDrop, vars, TypeOK

LEMMA OthersKeepRefineInv ==
    ASSUME TypeOK, UnwrapInv, RefineInv, [Next]_vars, ~CollectorStep
    PROVE  RefineInv'
<1>1. /\ received' = received /\ thread' = thread /\ general_logs' = general_logs
      /\ \A i \in 1 .. received : sent'[i] = sent[i]
  BY OthersKeepReceived DEF collector
<1>2. AliveInv'
  BY <1>1 DEF RefineInv, AliveInv, MalformedReceived
<1>3. GeneralInv'
  <2>1. CASE thread = "finished" /\ received = 0
    BY <1>1, <2>1 DEF RefineInv, GeneralInv, Processed, IsGeneralLog, Sink!GeneralPositions,
                      Sink!Enumerates
  <2>2. CASE ~ (thread = "finished" /\ received = 0)
    <3>1. Processed \in Nat /\ Processed <= received /\ Processed' = Processed
      BY <1>1, <2>2 DEF Processed, TypeOK
    <3>2. \A i \in 1 .. Processed : sent'[i] = sent[i]
      BY <1>1, <3>1 DEF TypeOK
    <3>3. IsGeneralLog(sent, Processed, general_logs)
      BY DEF RefineInv, GeneralInv
    <3>4. IsGeneralLog(sent', Processed, general_logs)
      BY <3>1, <3>2, <3>3, GeneralFrame
    <3>. QED BY <1>1, <3>1, <3>4 DEF GeneralInv
  <2>. QED BY <2>1, <2>2
<1>4. CASE sent' = sent /\ (owner' = owner \/ owner # "active" \/ thread # "running")
  <2>1. OneTerminate' /\ ClosedInv'
    BY <1>1, <1>4 DEF RefineInv, OneTerminate, ClosedInv
  <2>. QED BY <1>2, <1>3, <2>1 DEF RefineInv
<1>5. ASSUME NEW m \in Message \cup {Terminate}, sent' = Append(sent, m)
      PROVE  /\ Len(sent') = Len(sent) + 1 /\ Len(sent) \in Nat
             /\ \A i \in 1 .. Len(sent) : sent'[i] = sent[i] /\ i \in 1 .. Len(sent')
             /\ sent'[Len(sent) + 1] = m
             /\ \A i \in 1 .. Len(sent') : i \in 1 .. Len(sent) \/ i = Len(sent) + 1
  <2>1. sent \in Seq(Message \cup {Terminate})
    BY DEF TypeOK
  <2>. QED BY <1>5, <2>1
<1>6. ASSUME thread = "running", owner' = owner, NEW m \in Message, sent' = Append(sent, m)
      PROVE  RefineInv'
  <2>1. m # Terminate
    BY DEF Message, Terminate
  <2>2. OneTerminate'
    BY <1>5, <1>6, <2>1 DEF RefineInv, OneTerminate
  <2>3. ClosedInv'
    BY <1>1, <1>5, <1>6 DEF RefineInv, ClosedInv
  <2>. QED BY <1>2, <1>3, <2>2, <2>3 DEF RefineInv
<1>7. CASE thread = "running" /\ owner = "active" /\ sent' = Append(sent, Terminate)
  <2>1. \A i \in 1 .. Len(sent) : sent[i] # Terminate
    BY <1>7 DEF UnwrapInv
  <2>2. OneTerminate'
    BY <1>5, <1>7, <2>1 DEF OneTerminate
  <2>3. ClosedInv'
    <3>1. Len(sent) + 1 \in 1 .. Len(sent')
      BY <1>5, <1>7
    <3>. QED BY <1>5, <1>7, <3>1 DEF ClosedInv
  <2>. QED BY <1>2, <1>3, <2>2, <2>3 DEF RefineInv
<1>. QED BY <1>4, <1>6, <1>7, OthersSend

LEMMA RefineInvariant == Spec => []RefineInv
<1>1. Init => RefineInv
  <2>. SUFFICES ASSUME Init PROVE RefineInv
    OBVIOUS
  <2>1. Len(sent) = 0 /\ received = 0 /\ thread = "running" /\ owner = "active"
    BY DEF Init
  <2>2. AliveInv /\ OneTerminate /\ ClosedInv
    BY <2>1 DEF AliveInv, OneTerminate, ClosedInv, MalformedReceived
  <2>3. GeneralInv
    <3>. DEFINE e == [j \in 1 .. 0 |-> 0]
    <3>1. Processed = 0 /\ Sink!GeneralPositions(sent, 0) = {} /\ 1 .. 0 = {}
      BY <2>1 DEF Processed, Sink!GeneralPositions
    <3>2. e \in [1 .. 0 -> {}] /\ Sink!Enumerates(e, 0, {})
      BY <3>1 DEF Sink!Enumerates
    <3>3. general_logs = [j \in 1 .. 0 |-> sent[e[j]]]
      BY <3>1 DEF Init
    <3>4. 0 \in 0 .. 0
      OBVIOUS
    <3>. HIDE DEF e
    <3>. QED BY <3>1, <3>2, <3>3, <3>4 DEF GeneralInv, IsGeneralLog
  <2>. QED BY <2>2, <2>3 DEF RefineInv
<1>2. TypeOK /\ UnwrapInv /\ RefineInv /\ [Next]_vars => RefineInv'
  <2>. SUFFICES ASSUME TypeOK, UnwrapInv, RefineInv, [Next]_vars PROVE RefineInv'
    OBVIOUS
  <2>1. CASE ~CollectorStep
    BY <2>1, OthersKeepRefineInv
  <2>2. ASSUME NEW m \in Message \cup {Terminate}, Receive(m)
        PROVE  /\ received \in Nat /\ received' = received + 1 /\ m = sent[received + 1]
               /\ \A i \in 1 .. received' : i \in 1 .. received \/ i = received + 1
               /\ thread = "running" /\ sent' = sent /\ owner' = owner
               /\ OneTerminate'
               /\ ~ MalformedReceived
               /\ IsGeneralLog(sent, received, general_logs)
               /\ general_logs \in Seq(Message)
    BY <2>2, ReceiveStep
       DEF TypeOK, Receive, RefineInv, OneTerminate, AliveInv, GeneralInv, Processed
  <2>3. ASSUME NEW m \in Message \cup {Terminate}, ReceiveLog(m) \/ ReceiveCwe(m)
        PROVE  RefineInv'
    <3>1. /\ Receive(m) /\ thread' = "running" /\ m \in Message
          /\ ~ (m.kind = "cwe" /\ m.address = NoAddress)
      BY <2>3, LogThreadAssumption DEF ReceiveLog, ReceiveCwe, Receive, Terminate
    <3>2. AliveInv'
      BY <2>2, <3>1 DEF AliveInv, MalformedReceived
    <3>3. ClosedInv'
      BY <2>2, <3>1 DEF RefineInv, ClosedInv
    <3>4. IsGeneralLog(sent, received + 1, general_logs')
      <4>1. CASE m.kind = "log" /\ m.address = NoAddress
        <5>1. general_logs' = Append(general_logs, m)
          BY <2>3, <4>1, LogThreadAssumption DEF ReceiveLog, ReceiveCwe
        <5>. QED BY <2>2, <3>1, <4>1, <5>1, GeneralAppend
      <4>2. CASE ~ (m.kind = "log" /\ m.address = NoAddress)
        <5>1. general_logs' = general_logs
          BY <2>3, <3>1, <4>2 DEF ReceiveLog, ReceiveCwe, Message
        <5>. QED BY <2>2, <3>1, <4>2, <5>1, GeneralSkip
      <4>. QED BY <4>1, <4>2
    <3>5. GeneralInv'
      BY <2>2, <3>1, <3>4 DEF GeneralInv, Processed
    <3>. QED BY <2>2, <3>1, <3>2, <3>3, <3>5 DEF RefineInv
  <2>4. ASSUME NEW m \in Message \cup {Terminate}, ReceiveMalformedCwe(m)
        PROVE  RefineInv'
    <3>1. /\ Receive(m) /\ thread' = "panicked" /\ m.kind = "cwe"
          /\ general_logs' = general_logs
      BY <2>4 DEF ReceiveMalformedCwe, collector
    <3>2. IsGeneralLog(sent, received + 1, general_logs)
      BY <2>2, <3>1, GeneralSkip
    <3>3. GeneralInv'
      BY <2>2, <3>1, <3>2 DEF GeneralInv, Processed
    <3>. QED BY <2>2, <3>1, <3>3 DEF RefineInv, AliveInv, ClosedInv
  <2>5. ASSUME NEW m \in Message \cup {Terminate}, ReceiveTerminate(m)
        PROVE  RefineInv'
    <3>1. /\ Receive(m) /\ thread' = "finished" /\ m.kind = "terminate"
          /\ general_logs' = general_logs
      BY <2>5 DEF ReceiveTerminate, collector
    <3>2. AliveInv'
      BY <2>2, <3>1 DEF AliveInv, MalformedReceived
    <3>3. Processed' = received
      BY <2>2, <3>1 DEF Processed
    <3>4. GeneralInv'
      BY <2>2, <3>1, <3>3 DEF GeneralInv
    <3>. QED BY <2>2, <3>1, <3>2, <3>4 DEF RefineInv, ClosedInv
  <2>. QED BY <2>1, <2>3, <2>4, <2>5 DEF CollectorStep
<1>. QED BY <1>1, <1>2, TypeCorrect, UnwrapInvariant, PTL DEF Spec

(* The abstract log: what a channel accepted in front of Terminate. *)
Terminates(s) == {i \in 1 .. Len(s) : s[i] = Terminate}

FirstOf(s) == IF Terminates(s) = {} THEN Len(s) + 1
              ELSE CHOOSE i \in Terminates(s) : \A j \in Terminates(s) : i <= j

LogOf(s) == SubSeq(s, 1, FirstOf(s) - 1)

LEMMA AbstractLog ==
    /\ SubSeq(sent, 1, FirstTerminate - 1) = LogOf(sent)
    /\ SubSeq(sent, 1, FirstTerminate - 1)' = LogOf(sent')
BY DEF FirstTerminate, LogOf, FirstOf, Terminates

LEMMA LogWithoutTerminate ==
    ASSUME NEW s \in Seq(Message \cup {Terminate}),
           \A i \in 1 .. Len(s) : s[i] # Terminate
    PROVE  LogOf(s) = s
<1>1. FirstOf(s) = Len(s) + 1 /\ Len(s) \in Nat
  BY DEF FirstOf, Terminates
<1>2. FirstOf(s) - 1 = Len(s) /\ SubSeq(s, 1, Len(s)) = s
  BY <1>1
<1>. QED BY <1>2 DEF LogOf

LEMMA LogBeforeTerminate ==
    ASSUME NEW s \in Seq(Message \cup {Terminate}),
           NEW t \in 1 .. Len(s), Terminates(s) = {t}
    PROVE  /\ LogOf(s) \in Seq(Message \cup {Terminate})
           /\ Len(LogOf(s)) = t - 1
           /\ \A i \in 1 .. t - 1 : LogOf(s)[i] = s[i]
<1>1. Len(s) \in Nat
  OBVIOUS
<1>2. FirstOf(s) = t
  <2>1. (CHOOSE i \in {t} : \A j \in {t} : i <= j) = t
    BY <1>1
  <2>. QED BY <2>1 DEF FirstOf
<1>. QED BY <1>1, <1>2 DEF LogOf

(* The log of a terminated channel is the log of every extension of it. *)
LEMMA LogOfExtension ==
    ASSUME NEW s \in Seq(Message \cup {Terminate}), NEW m \in Message,
           NEW t \in 1 .. Len(s), Terminates(s) = {t}
    PROVE  LogOf(Append(s, m)) = LogOf(s)
<1>. DEFINE r == Append(s, m)
<1>1. /\ r \in Seq(Message \cup {Terminate}) /\ Len(r) = Len(s) + 1 /\ Len(s) \in Nat
      /\ \A i \in 1 .. Len(s) : r[i] = s[i]
      /\ r[Len(s) + 1] = m /\ m # Terminate
  BY DEF Message, Terminate
<1>. HIDE DEF r
<1>2. 1 .. Len(r) = (1 .. Len(s)) \cup {Len(s) + 1}
  BY <1>1
<1>3. Terminates(r) = {t} /\ t \in 1 .. Len(r)
  BY <1>1, <1>2 DEF Terminates
<1>4. /\ LogOf(r) \in Seq(Message \cup {Terminate}) /\ Len(LogOf(r)) = t - 1
      /\ \A i \in 1 .. t - 1 : LogOf(r)[i] = r[i]
  BY <1>1, <1>3, LogBeforeTerminate
<1>5. /\ LogOf(s) \in Seq(Message \cup {Terminate}) /\ Len(LogOf(s)) = t - 1
      /\ \A i \in 1 .. t - 1 : LogOf(s)[i] = s[i]
  BY LogBeforeTerminate
<1>6. \A i \in 1 .. t - 1 : i \in 1 .. Len(s)
  OBVIOUS
<1>. QED BY <1>1, <1>4, <1>5, <1>6 DEF r

LEMMA LogOfTerminated ==
    ASSUME NEW s \in Seq(Message \cup {Terminate}),
           \A i \in 1 .. Len(s) : s[i] # Terminate
    PROVE  LogOf(Append(s, Terminate)) = s
<1>. DEFINE r == Append(s, Terminate)
            t == Len(s) + 1
<1>1. /\ r \in Seq(Message \cup {Terminate}) /\ Len(r) = t /\ Len(s) \in Nat
      /\ \A i \in 1 .. Len(s) : r[i] = s[i]
      /\ r[t] = Terminate /\ t - 1 = Len(s) /\ t \in 1 .. Len(r)
  OBVIOUS
<1>. HIDE DEF r
<1>2. 1 .. Len(r) = (1 .. Len(s)) \cup {t}
  BY <1>1
<1>3. Terminates(r) = {t}
  BY <1>1, <1>2 DEF Terminates
<1>. HIDE DEF t
<1>4. /\ LogOf(r) \in Seq(Message \cup {Terminate}) /\ Len(LogOf(r)) = Len(s)
      /\ \A i \in 1 .. Len(s) : LogOf(r)[i] = r[i]
  BY <1>1, <1>3, LogBeforeTerminate
<1>5. \A i \in 1 .. Len(s) : LogOf(r)[i] = s[i]
  BY <1>1, <1>4
<1>6. LogOf(r) = s
  BY <1>4, <1>5
<1>. QED BY <1>6 DEF r

LEMMA OnlyTerminate ==
    ASSUME OneTerminate, NEW t \in 1 .. Len(sent), sent[t] = Terminate
    PROVE  Terminates(sent) = {t}
BY DEF OneTerminate, Terminates

(* The entry of an address is what LogSink calls its last message. *)
LEMMA EntryIsLastOf ==
    ASSUME NEW l, Len(l) \in Nat, NEW entry, NEW kind, NEW a,
           Represents(l, Len(l), entry, kind, a)
    PROVE  Sink!LastOf(l, kind, a) = entry
<1>. DEFINE hits == {i \in 1 .. Len(l) : l[i].kind = kind /\ l[i].address = a}
<1>1. CASE entry = NoMessage
  BY <1>1 DEF Represents, NoneOf, Sink!LastOf
<1>2. CASE entry # NoMessage
  <2>1. PICK i \in 1 .. Len(l) :
            /\ l[i] = entry /\ entry.kind = kind /\ entry.address = a
            /\ \A j \in i + 1 .. Len(l) : ~(l[j].kind = kind /\ l[j].address = a)
    BY <1>2 DEF Represents, IsLastOf
  <2>2. i \in hits /\ \A j \in hits : j <= i
    <3>. SUFFICES ASSUME NEW j \in hits PROVE j <= i
      BY <2>1
    <3>1. j \in 1 .. Len(l) /\ j \notin i + 1 .. Len(l)
      BY <2>1
    <3>. QED BY <3>1
  <2>3. \A k \in hits : (\A j \in hits : j <= k) => k = i
    BY <2>2
  <2>4. (CHOOSE k \in hits : \A j \in hits : j <= k) = i
    <3>. HIDE DEF hits
    <3>. QED BY <2>2, <2>3
  <2>. QED BY <2>1, <2>2, <2>4 DEF Sink!LastOf
<1>. QED BY <1>1, <1>2

LEMMA EntryBeforeTerminate ==
    ASSUME NEW s, NEW n \in Nat, NEW entry, NEW kind, NEW a,
           Represents(s, n + 1, entry, kind, a), s[n + 1].kind # kind
    PROVE  Represents(s, n, entry, kind, a)
<1>1. \A i \in 1 .. n + 1 : i \in 1 .. n \/ i = n + 1
  OBVIOUS
<1>2. \A i \in 1 .. n : i \in 1 .. n + 1
  OBVIOUS
<1>3. \A i \in 1 .. n : \A j \in i + 1 .. n : j \in i + 1 .. n + 1
  OBVIOUS
<1>. QED BY <1>1, <1>2, <1>3 DEF Represents, NoneOf, IsLastOf

(* Joining a finished collector returns the digest of the abstract log. *)
LEMMA JoinReturns ==
    ASSUME TypeOK, LastMessageKept, StopInv, RefineInv, CollectJoin
    PROVE  Sink!Return
<1>. DEFINE n == received - 1
<1>1. /\ received \in 1 .. Len(sent) /\ sent[received] = Terminate
      /\ n \in Nat /\ received = n + 1 /\ thread = "finished" /\ Processed = n
  BY DEF TypeOK, StopInv, FinishedAtFirstTerminate, CollectJoin, Processed
<1>. DEFINE l == LogOf(sent)
<1>2. Len(l) = n /\ \A i \in 1 .. n : l[i] = sent[i]
  BY <1>1, LogBeforeTerminate, OnlyTerminate DEF RefineInv, TypeOK
<1>. HIDE DEF n, l
<1>4. ~ Sink!HasMalformed(l)
  <2>1. \A i \in 1 .. n : i \in 1 .. received
    BY <1>1
  <2>. QED BY <1>1, <1>2, <2>1
          DEF RefineInv, AliveInv, MalformedReceived, Sink!HasMalformed, Sink!IsMalformed
<1>5. ASSUME NEW a \in Address
      PROVE  /\ Sink!LastOf(l, "log", a) = logs_with_address[a]
             /\ Sink!LastOf(l, "cwe", a) = collected_cwes[a]
  <2>1. /\ Represents(sent, n + 1, logs_with_address[a], "log", a)
        /\ Represents(sent, n + 1, collected_cwes[a], "cwe", a)
    BY <1>1 DEF LastMessageKept
  <2>2. sent[n + 1].kind # "log" /\ sent[n + 1].kind # "cwe"
    BY <1>1 DEF Terminate
  <2>3. /\ Represents(sent, n, logs_with_address[a], "log", a)
        /\ Represents(sent, n, collected_cwes[a], "cwe", a)
    BY <1>1, <2>1, <2>2, EntryBeforeTerminate
  <2>4. /\ Represents(l, n, logs_with_address[a], "log", a)
        /\ Represents(l, n, collected_cwes[a], "cwe", a)
    BY <1>1, <1>2, <2>3, UntouchedEntry
  <2>. QED BY <1>1, <1>2, <2>4, EntryIsLastOf
<1>. DEFINE P == Sink!GeneralPositions(l, n)
<1>6. IsGeneralLog(l, n, general_logs)
  <2>1. IsGeneralLog(sent, n, general_logs)
    BY <1>1 DEF RefineInv, GeneralInv
  <2>. QED BY <1>1, <1>2, <2>1, GeneralFrame
<1>7. PICK k \in 0 .. n : \E f \in [1 .. k -> P] :
          Sink!Enumerates(f, k, P) /\ general_logs = [j \in 1 .. k |-> l[f[j]]]
  BY <1>6 DEF IsGeneralLog
<1>8. PICK f \in [1 .. k -> P] :
          Sink!Enumerates(f, k, P) /\ general_logs = [j \in 1 .. k |-> l[f[j]]]
  BY <1>7
<1>. HIDE DEF P
<1>9. output' = Sink!Digest(l, f, k)
  <2>1. logs_with_address = [a \in Address |-> Sink!LastOf(l, "log", a)]
    BY <1>5 DEF TypeOK
  <2>2. collected_cwes = [a \in Address |-> Sink!LastOf(l, "cwe", a)]
    BY <1>5 DEF TypeOK
  <2>. QED BY <1>8, <2>1, <2>2 DEF CollectJoin, Sink!Digest
<1>10. \E j \in 0 .. Len(l) :
           \E g \in [1 .. j -> Sink!GeneralPositions(l, Len(l))] :
             /\ Sink!Enumerates(g, j, Sink!GeneralPositions(l, Len(l)))
             /\ output' = Sink!Digest(l, g, j)
  BY <1>2, <1>8, <1>9 DEF P
<1>11. owner = "collecting" /\ owner' = "collected" /\ sent' = sent
  BY DEF CollectJoin
<1>. QED BY <1>4, <1>10, <1>11, AbstractLog DEF Sink!Return, l

(* A collector that panicked has met a malformed warning of the log. *)
LEMMA PanicFails ==
    ASSUME TypeOK, StopInv, UnwrapInv, RefineInv, CollectUnwrapPanics
    PROVE  Sink!Fail
<1>1. PICK i \in 1 .. received : sent[i].kind = "cwe" /\ sent[i].address = NoAddress
  BY DEF CollectUnwrapPanics, UnwrapInv, MalformedReceived
<1>2. \A j \in 1 .. received : sent[j] # Terminate
  BY DEF CollectUnwrapPanics, StopInv
<1>3. Sink!HasMalformed(LogOf(sent))
  <2>1. CASE \A j \in 1 .. Len(sent) : sent[j] # Terminate
    <3>1. LogOf(sent) = sent /\ i \in 1 .. Len(sent)
      BY <2>1, LogWithoutTerminate DEF TypeOK
    <3>. QED BY <1>1, <3>1 DEF Sink!HasMalformed, Sink!IsMalformed
  <2>2. ASSUME NEW t \in 1 .. Len(sent), sent[t] = Terminate
        PROVE  Sink!HasMalformed(LogOf(sent))
    <3>1. Len(LogOf(sent)) = t - 1 /\ \A j \in 1 .. t - 1 : LogOf(sent)[j] = sent[j]
      BY <2>2, LogBeforeTerminate, OnlyTerminate DEF RefineInv, TypeOK
    <3>2. t \notin 1 .. received
      BY <1>2, <2>2
    <3>3. i \in 1 .. t - 1
      BY <3>2 DEF TypeOK
    <3>. QED BY <1>1, <3>1, <3>3 DEF Sink!HasMalformed, Sink!IsMalformed
  <2>. QED BY <2>1, <2>2
<1>4. sent' = sent /\ owner = "collecting" /\ owner' = "failed" /\ output' = output
  BY DEF CollectUnwrapPanics
<1>. QED BY <1>3, <1>4, AbstractLog DEF Sink!Fail

(***************************************************************************)
(* The collector thread implements LogSink: every step of the senders, the *)
(* collector and the owner is a step of the abstract sink or leaves it     *)
(* unchanged.  collect() returns the last message of every origin address  *)
(* and all messages without an address in the order of the channel, it     *)
(* fails exactly if a warning without address was logged, and a message    *)
(* sent behind Terminate has no effect.                                    *)
(***************************************************************************)
THEOREM Refinement == Spec => ImplementsLogSink
<1>1. Init => Sink!Init
  <2>. SUFFICES ASSUME Init PROVE Sink!Init
    OBVIOUS
  <2>1. sent = <<>> /\ FirstTerminate = 1
    BY DEF Init, FirstTerminate
  <2>2. SubSeq(sent, 1, FirstTerminate - 1) = <<>>
    BY <2>1
  <2>. QED BY <2>2 DEF Init, Sink!Init
<1>. DEFINE Inv == TypeOK /\ LastMessageKept /\ StopInv /\ UnwrapInv /\ RefineInv
            sinkVars == <<SubSeq(sent, 1, FirstTerminate - 1),
                          IF owner = "active" THEN "open" ELSE owner, output>>
<1>2. Inv /\ Inv' /\ [Next]_vars => [Sink!Next]_sinkVars
  <2>. SUFFICES ASSUME Inv, Inv', [Next]_vars PROVE [Sink!Next]_sinkVars
    OBVIOUS
  <2>0. sent \in Seq(Message \cup {Terminate})
    BY DEF TypeOK
  <2>1. CASE sent' = sent /\ owner' = owner /\ output' = output
    BY <2>1, AbstractLog
  <2>2. CASE CollectorStep
    BY <2>1, <2>2 DEF CollectorStep, ReceiveLog, ReceiveCwe, ReceiveMalformedCwe,
                      ReceiveTerminate, Receive
  <2>3. ASSUME NEW s \in Sender, NEW m \in Message, Send(s, m)
        PROVE  [Sink!Next]_sinkVars
    <3>1. owner' = owner /\ output' = output
      BY <2>3 DEF Send, SendStep
    <3>2. CASE thread # "running"
      BY <2>1, <2>3, <3>1, <3>2 DEF Send, SendStep, ChannelSend
    <3>3. CASE thread = "running"
      <4>1. sent' = Append(sent, m)
        BY <2>3, <3>3 DEF Send, SendStep, ChannelSend
      <4>2. CASE owner = "active"
        <5>1. LogOf(sent) = sent /\ LogOf(sent') = sent'
          BY <3>1, <4>2, LogWithoutTerminate DEF UnwrapInv, TypeOK
        <5>2. Sink!Log(m)
          BY <3>1, <4>1, <4>2, <5>1, AbstractLog DEF Sink!Log
        <5>. QED BY <5>2 DEF Sink!Next
      <4>3. CASE owner # "active"
        <5>1. PICK t \in 1 .. Len(sent) : sent[t] = Terminate
          BY <3>3, <4>3 DEF RefineInv, ClosedInv
        <5>2. LogOf(sent') = LogOf(sent)
          BY <2>0, <4>1, <5>1, OnlyTerminate, LogOfExtension DEF RefineInv
        <5>. QED BY <3>1, <5>2, AbstractLog
      <4>. QED BY <4>2, <4>3
    <3>. QED BY <3>2, <3>3
  <2>4. ASSUME owner = "active",
               sent' = IF thread = "running" THEN Append(sent, Terminate) ELSE sent
        PROVE  SubSeq(sent, 1, FirstTerminate - 1)' = SubSeq(sent, 1, FirstTerminate - 1)
    <3>1. \A i \in 1 .. Len(sent) : sent[i] # Terminate
      BY <2>4 DEF UnwrapInv
    <3>2. LogOf(sent) = sent /\ LogOf(Append(sent, Terminate)) = sent
      BY <2>0, <3>1, LogWithoutTerminate, LogOfTerminated
    <3>. QED BY <2>4, <3>2, AbstractLog
  <2>5. ASSUME NEW s \in Sender, NEW m \in Message, SendUnwrapPanics(s, m)
        PROVE  [Sink!Next]_sinkVars
    <3>1. Sink!BeginDrop
      BY <2>4, <2>5 DEF Sink!BeginDrop, SendUnwrapPanics, SendStep, ChannelSend
    <3>. QED BY <3>1 DEF Sink!Next
  <2>6. CASE BeginCollect
    <3>1. Sink!BeginCollect
      BY <2>4, <2>6 DEF Sink!BeginCollect, BeginCollect, ChannelSend
    <3>. QED BY <3>1 DEF Sink!Next
  <2>7. CASE BeginDrop
    <3>1. Sink!BeginDrop
      BY <2>4, <2>7 DEF Sink!BeginDrop, BeginDrop, ChannelSend
    <3>. QED BY <3>1 DEF Sink!Next
  <2>8. CASE CollectJoin
    BY <2>8, JoinReturns DEF Sink!Next
  <2>9. CASE CollectUnwrapPanics
    BY <2>9, PanicFails DEF Sink!Next
  <2>10. CASE DropJoin
    <3>1. Sink!Discard
      BY <2>10, AbstractLog DEF Sink!Discard, DropJoin
    <3>. QED BY <3>1 DEF Sink!Next
  <2>11. CASE UNCHANGED vars
    BY <2>1, <2>11 DEF vars
  <2>. QED BY <2>2, <2>3, <2>5, <2>6, <2>7, <2>8, <2>9, <2>10, <2>11 DEF Next, OwnerJoins
<1>. QED BY <1>1, <1>2, TypeCorrect, DeduplicationCorrect, StopsAtTerminate,
            UnwrapInvariant, RefineInvariant, PTL DEF Spec, ImplementsLogSink, Sink!Spec
=============================================================================
