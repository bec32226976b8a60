------------------------- MODULE KafkaStreamProofs -------------------------
(***************************************************************************)
(* Proofs about module KafkaStream, for every topic, setup and bound.      *)
(***************************************************************************)
EXTENDS KafkaStream, TLAPS

USE StreamBoundsAssumption DEF host, reset, rows

LEMMA SetupFacts ==
  ASSUME setup \in Setups
  PROVE  /\ rows \in Nat
         /\ \A row \in 1..rows : PartitionOf[row] \in Partitions
BY SetupsAssumption

\* What Append does to a sequence and to its range.
LEMMA AppendFacts ==
  ASSUME NEW S, NEW s \in Seq(S), NEW e \in S
  PROVE  /\ Append(s, e) \in Seq(S)
         /\ Len(Append(s, e)) = Len(s) + 1
         /\ Range(Append(s, e)) = Range(s) \union {e}
<1>1. /\ Append(s, e) \in Seq(S)
      /\ Len(Append(s, e)) = Len(s) + 1
      /\ DOMAIN s = 1..Len(s) /\ Len(s) \in Nat
      /\ DOMAIN Append(s, e) = 1..(Len(s) + 1)
      /\ \A i \in 1..Len(s) : Append(s, e)[i] = s[i]
      /\ Append(s, e)[Len(s) + 1] = e
  OBVIOUS
<1>2. 1..(Len(s) + 1) = 1..Len(s) \union {Len(s) + 1}
  BY <1>1
<1>3. Range(Append(s, e)) = {Append(s, e)[i] : i \in 1..Len(s)} \union {e}
  BY <1>1, <1>2 DEF Range
<1>4. {Append(s, e)[i] : i \in 1..Len(s)} = Range(s)
  BY <1>1 DEF Range
<1> QED
  BY <1>1, <1>3, <1>4

\* A message that is appended to the log changes nothing that was there.
LEMMA LogGrows ==
  ASSUME ExportOK, NEW m \in queue, Appended(m)
  PROVE  /\ log' \in [Partitions -> Seq(Messages)]
         /\ \A p \in Partitions :
              /\ Len(log[p]) <= Len(log'[p])
              /\ Range(log[p]) \subseteq Range(log'[p])
         /\ m \in Range(log'[PartitionOf[m.row]])
<1>1. m \in Messages /\ PartitionOf[m.row] \in Partitions
  BY SetupFacts DEF ExportOK, Messages
<1> DEFINE q == PartitionOf[m.row]
<1>2. log'[q] = Append(log[q], m) /\ log[q] \in Seq(Messages)
  BY <1>1 DEF Appended, ExportOK
<1>3. \A p \in Partitions \ {q} : log'[p] = log[p]
  BY <1>1 DEF Appended, ExportOK
<1>4. /\ log'[q] \in Seq(Messages)
      /\ Len(log'[q]) = Len(log[q]) + 1 /\ Len(log[q]) \in Nat
      /\ Range(log'[q]) = Range(log[q]) \union {m}
  BY <1>1, <1>2, AppendFacts
<1>5. log' \in [Partitions -> Seq(Messages)]
  BY <1>1, <1>4 DEF Appended, ExportOK
<1>6. \A p \in Partitions : Len(log[p]) \in Nat
  BY DEF ExportOK
<1>7. Len(log[q]) <= Len(log'[q]) /\ Range(log[q]) \subseteq Range(log'[q])
  BY <1>4
<1>8. ASSUME NEW p \in Partitions \ {q}
      PROVE  Len(log[p]) <= Len(log'[p]) /\ Range(log[p]) \subseteq Range(log'[p])
  <2>1. log'[p] = log[p]
    BY <1>3
  <2> QED
    BY <2>1, <1>6
<1>9. m \in Range(log'[q])
  BY <1>4
<1> HIDE DEF q
<1>10. \A p \in Partitions :
         /\ Len(log[p]) <= Len(log'[p])
         /\ Range(log[p]) \subseteq Range(log'[p])
  BY <1>7, <1>8
<1> QED
  BY <1>5, <1>9, <1>10 DEF q

-----------------------------------------------------------------------------
(* Type correctness *)

LEMMA InitType == StreamInit => StreamTypeOK
<1> SUFFICES ASSUME StreamInit PROVE StreamTypeOK
  OBVIOUS
<1>1. ExportOK
  BY SetupFacts DEF StreamInit, ExportOK, Messages, Exports
<1>2. IsOffsets(pos) /\ IsOffsets(committed)
  BY DEF StreamInit, IsOffsets, Unassigned, None
<1>3. HostOK
  BY <1>2 DEF StreamInit, HostOK, Range
<1> QED
  BY <1>1, <1>3 DEF StreamTypeOK

\* The fields of export, for the provers.
LEMMA ExportFields ==
  ASSUME ExportOK
  PROVE  /\ rows \in Nat
         /\ export.number \in 0..MaxExports
         /\ export.step \in {"ended", "sending"}
         /\ export.sent \in 0..rows
         /\ export = [number |-> export.number, step |-> export.step,
                      sent |-> export.sent]
BY SetupFacts DEF ExportOK

LEMMA ExportType == ExportOK /\ Export => ExportOK'
<1> SUFFICES ASSUME ExportOK, Export PROVE ExportOK'
  OBVIOUS
<1>1. setup' = setup /\ log' = log /\ rows' = rows /\ Messages' = Messages
  BY DEF Export, BeginExport, Send, SendFails, FlushReturns, FlushTimesOut,
         Messages
<1>2. CASE BeginExport
  <2>1. /\ export' \in [number : 0..MaxExports, step : {"ended", "sending"},
                        sent : 0..rows]
        /\ export'.number \in Exports
        /\ UNCHANGED <<queue, expired, answer, faults>>
    BY <1>2, ExportFields DEF BeginExport, Exports
  <2> QED
    BY <1>1, <2>1 DEF ExportOK
<1>3. CASE Send
  <2>1. /\ export' = [number |-> export.number, step |-> export.step,
                      sent |-> export.sent + 1]
        /\ export.sent < rows /\ export.sent + 1 \in 1..rows
        /\ UNCHANGED <<expired, answer, faults>>
    BY <1>3, ExportFields DEF Send
  <2>2. export.number \in Exports
    BY <1>3 DEF Send, ExportOK
  <2>3. queue' \subseteq Messages
    BY <1>3, <2>1, <2>2 DEF Send, ExportOK, Messages
  <2>4. export' \in [number : 0..MaxExports, step : {"ended", "sending"},
                     sent : 0..rows]
    BY <2>1, ExportFields
  <2> QED
    BY <1>1, <2>1, <2>3, <2>4 DEF ExportOK
<1>4. ASSUME NEW a \in {"ok", "error"}, Answered(a),
             expired' = expired, UNCHANGED faults \/ Fault
      PROVE  ExportOK'
  <2>1. export' = [number |-> export.number, step |-> "ended",
                   sent |-> export.sent]
    BY <1>4, ExportFields DEF Answered
  <2>2. export' \in [number : 0..MaxExports, step : {"ended", "sending"},
                     sent : 0..rows]
    BY <2>1, ExportFields
  <2>3. queue' = {} /\ answer' \in [Exports -> {"none", "ok", "error"}]
    BY <1>4 DEF Answered, ExportOK
  <2>4. faults' \in 0..MaxFaults
    BY <1>4 DEF Fault, ExportOK
  <2> QED
    BY <1>1, <1>4, <2>1, <2>2, <2>3, <2>4 DEF ExportOK
<1> QED
  BY <1>2, <1>3, <1>4 DEF Export, SendFails, FlushReturns, FlushTimesOut

LEMMA DeliveryType == ExportOK /\ Deliveries => ExportOK'
<1> SUFFICES ASSUME ExportOK, NEW m \in queue,
                    Deliver(m) \/ DeliverUnheard(m) \/ Expire(m)
             PROVE  ExportOK'
  BY DEF Deliveries
<1>1. /\ setup' = setup /\ rows' = rows /\ Messages' = Messages
      /\ export' = export /\ answer' = answer
      /\ queue' \subseteq queue /\ expired' \subseteq expired \union {m}
  BY DEF Deliver, DeliverUnheard, Expire, Messages, producer
<1>2. log' \in [Partitions -> Seq(Messages)]
  BY LogGrows DEF Deliver, DeliverUnheard, Expire, ExportOK
<1>3. faults' \in 0..MaxFaults
  BY DEF Deliver, DeliverUnheard, Expire, Fault, ExportOK
<1> QED
  BY <1>1, <1>2, <1>3 DEF ExportOK

\* The host does not touch the export, nor the export the host.
HostStep == Windows \/ PollFails \/ HostCrashes \/ Polls

LEMMA Apart ==
  /\ HostStep => UNCHANGED <<setup, log, producer>>
  /\ Export => UNCHANGED <<setup, log, consumer>>
  /\ Deliveries => UNCHANGED <<setup, consumer>>
BY DEF HostStep, Windows, Polls, BeginWindow, EndWindow, Land, LandingFails, GoOn,
       PollFails, HostCrashes, Assign, Poll, Export, BeginExport, Send, SendFails,
       FlushReturns, FlushTimesOut, Deliveries, Deliver, DeliverUnheard, Expire

LEMMA HostExportType == ExportOK /\ HostStep => ExportOK'
<1> SUFFICES ASSUME ExportOK, HostStep PROVE ExportOK'
  OBVIOUS
<1>1. faults' \in 0..MaxFaults
  BY DEF HostStep, Windows, Polls, BeginWindow, EndWindow, Land, LandingFails,
         GoOn, PollFails, HostCrashes, Assign, Poll, Fault, ExportOK
<1> QED
  BY <1>1, Apart DEF ExportOK, producer, Exports, Messages

\* Offsets and records stay those of the topic while it grows.
LEMMA HostKept ==
  ASSUME ExportOK, HostOK, UNCHANGED consumer,
         UNCHANGED log \/ \E m \in queue : Appended(m)
  PROVE  HostOK'
<1>1. \A p \in Partitions : /\ Len(log[p]) <= Len(log'[p])
                            /\ Len(log[p]) \in Nat /\ Len(log'[p]) \in Nat
  BY LogGrows DEF ExportOK
<1>2. /\ step' = step /\ pos' = pos /\ committed' = committed
      /\ window' = window /\ landed' = landed
  BY DEF consumer
<1>3. ASSUME NEW f, IsOffsets(f), NEW p \in Partitions
      PROVE  f[p] <= Len(log'[p])
  <2>1. f[p] \in Int /\ f[p] <= Len(log[p])
    BY <1>3 DEF IsOffsets, None
  <2> QED
    BY <1>1, <2>1
<1>4. IsOffsets(pos)' /\ IsOffsets(committed)'
  BY <1>2, <1>3 DEF HostOK, IsOffsets
<1>5. \A at \in Range(window) \union landed :
        at.n \in 1..Len(log'[at.partition])
  <2>1. SUFFICES ASSUME NEW at \in Range(window) \union landed
                 PROVE  at.n \in 1..Len(log'[at.partition])
    OBVIOUS
  <2>2. at \in Records
    BY DEF HostOK, Range
  <2>3. at.partition \in Partitions /\ at.n \in 1..Len(log[at.partition])
    BY <2>2 DEF HostOK, Records
  <2> QED
    BY <1>1, <2>3
<1> QED
  BY <1>2, <1>4, <1>5 DEF HostOK

LEMMA WindowType ==
  HostOK /\ (Windows \/ PollFails \/ HostCrashes) /\ UNCHANGED log => HostOK'
<1> SUFFICES ASSUME HostOK, Windows \/ PollFails \/ HostCrashes, UNCHANGED log
             PROVE  HostOK'
  OBVIOUS
<1>0. /\ IsOffsets(Unassigned)
      /\ <<>> \in Seq(Records) /\ Len(<<>>) <= MaxRecords /\ Range(<<>>) = {}
      /\ Range(window) \subseteq Records
  BY DEF HostOK, IsOffsets, Unassigned, None, Range
<1>1. CASE BeginWindow
  BY <1>0, <1>1 DEF BeginWindow, HostOK, IsOffsets
<1>2. CASE EndWindow
  BY <1>2 DEF EndWindow, HostOK, IsOffsets
<1>3. CASE Land
  BY <1>0, <1>3 DEF Land, LandingOf, HostOK, IsOffsets
<1>4. CASE GoOn
  BY <1>0, <1>4 DEF GoOn, HostOK, IsOffsets
<1>5. ASSUME StartAgain PROVE HostOK'
  BY <1>0, <1>5 DEF StartAgain, HostOK, IsOffsets
<1> QED
  BY <1>1, <1>2, <1>3, <1>4, <1>5 DEF Windows, LandingFails, PollFails, HostCrashes

LEMMA PollType == ExportOK /\ HostOK /\ Polls => HostOK'
<1> SUFFICES ASSUME ExportOK, HostOK, NEW p \in Partitions,
                    Assign(p) \/ Poll(p)
             PROVE  HostOK'
  BY DEF Polls
<1>0. \A q \in Partitions : Len(log[q]) \in Nat
  BY DEF ExportOK
<1>1. CASE Assign(p)
  <2>1. StartAt(p) \in Nat /\ StartAt(p) <= Len(log[p])
    BY <1>0 DEF StartAt, ResetTo, HostOK, IsOffsets, None
  <2>2. IsOffsets(pos)'
    BY <1>1, <2>1 DEF Assign, HostOK, IsOffsets
  <2> QED
    BY <1>1, <2>2 DEF Assign, HostOK, IsOffsets
<1>2. CASE Poll(p)
  <2> DEFINE at == Offset(p, pos[p] + 1)
  <2>1. /\ pos[p] \in Nat /\ pos[p] + 1 \in 1..Len(log[p])
    BY <1>0, <1>2 DEF Poll, HostOK, IsOffsets, None
  <2>2. at \in Records /\ at.partition = p /\ at.n = pos[p] + 1
    BY <2>1 DEF Offset, Records
  <2>3. /\ window' = Append(window, at) /\ window \in Seq(Records)
        /\ Len(window) < MaxRecords
    BY <1>2 DEF Poll, WindowIsOpen, HostOK
  <2>4. /\ window' \in Seq(Records) /\ Len(window') <= MaxRecords
        /\ Range(window') = Range(window) \union {at}
    <3>1. /\ window' \in Seq(Records) /\ Len(window') = Len(window) + 1
          /\ Range(window') = Range(window) \union {at}
      BY <2>2, <2>3, AppendFacts
    <3> QED
      BY <2>3, <3>1
  <2>5. IsOffsets(pos)'
    BY <1>2, <2>1 DEF Poll, HostOK, IsOffsets
  <2> HIDE DEF at
  <2>6. \A r \in Range(window') \union landed : r.n \in 1..Len(log[r.partition])
    BY <2>1, <2>2, <2>4 DEF HostOK
  <2> QED
    BY <1>2, <2>4, <2>5, <2>6 DEF Poll, HostOK, IsOffsets
<1> QED
  BY <1>1, <1>2

LEMMA TypeStep == StreamTypeOK /\ [StreamNext]_streamVars => StreamTypeOK'
<1> SUFFICES ASSUME ExportOK, HostOK, [StreamNext]_streamVars PROVE ExportOK' /\ HostOK'
  BY DEF StreamTypeOK
<1>1. CASE Export
  BY <1>1, ExportType, HostKept, Apart
<1>2. CASE Deliveries
  <2>1. UNCHANGED log \/ \E m \in queue : Appended(m)
    BY <1>2 DEF Deliveries, Deliver, DeliverUnheard, Expire
  <2> QED
    BY <1>2, <2>1, DeliveryType, HostKept, Apart
<1>3. CASE HostStep
  BY <1>3, HostExportType, WindowType, PollType, Apart DEF HostStep
<1>4. CASE UNCHANGED streamVars
  <2>1. ExportOK'
    BY <1>4 DEF streamVars, producer, ExportOK, Exports, Messages
  <2> QED
    BY <1>4, <2>1, HostKept DEF streamVars
<1> QED
  BY <1>1, <1>2, <1>3, <1>4 DEF StreamNext, HostStep

(***************************************************************************)
(* The state keeps its type: no window holds more than max_records         *)
(* records, and every record polled or landed, and every offset, is one of *)
(* the topic.                                                              *)
(***************************************************************************)
THEOREM TypeCorrect == StreamSpec => []StreamTypeOK
<1> QED
  BY InitType, TypeStep, PTL DEF StreamSpec

-----------------------------------------------------------------------------
(* At least once *)

\* What the host has in hand but has not landed yet.
InHand == IF step \in {"polling", "polled"} THEN Range(window) ELSE {}

\* Nothing that a consumer has read is lost while it lives: it is in the
\* window, or it has landed.
ReadIsHeld == reset = "earliest" =>
  \A p \in Partitions : \A n \in 1..pos[p] : Offset(p, n) \in landed \union InHand

\* The inductive invariant.  CommittedIsLanded is not inductive by itself,
\* since GoOn commits the positions.
Kept == StreamTypeOK /\ ReadIsHeld /\ CommittedIsLanded

LEMMA NothingReadAtFirst == 1..None = {} /\ \A p \in Partitions : Unassigned[p] = None
BY DEF None, Unassigned

LEMMA KeptInit == StreamInit => Kept
BY InitType, NothingReadAtFirst
   DEF StreamInit, Kept, ReadIsHeld, CommittedIsLanded, Unassigned

\* A new consumer has read nothing.
LEMMA KeptStartAgain == Kept /\ StartAgain /\ UNCHANGED setup =>
                          ReadIsHeld' /\ CommittedIsLanded'
BY NothingReadAtFirst DEF StartAgain, Kept, ReadIsHeld, CommittedIsLanded

LEMMA KeptWindows == Kept /\ Windows => ReadIsHeld' /\ CommittedIsLanded'
<1> SUFFICES ASSUME Kept, Windows PROVE ReadIsHeld' /\ CommittedIsLanded'
  OBVIOUS
<1> USE DEF Kept, ReadIsHeld, CommittedIsLanded, InHand
<1>1. CASE BeginWindow
  BY <1>1, NothingReadAtFirst DEF BeginWindow
<1>2. CASE EndWindow
  BY <1>2 DEF EndWindow
<1>3. CASE Land
  BY <1>3 DEF Land, LandingOf
<1>4. CASE GoOn
  <2>1. \A p \in Partitions : committed'[p] \in {pos[p], committed[p]}
    BY <1>4 DEF GoOn
  <2> QED
    BY <1>4, <2>1 DEF GoOn
<1>5. CASE LandingFails
  BY <1>5, KeptStartAgain DEF LandingFails
<1> QED
  BY <1>1, <1>2, <1>3, <1>4, <1>5 DEF Windows

LEMMA KeptPolls == Kept /\ Polls => ReadIsHeld' /\ CommittedIsLanded'
<1> SUFFICES ASSUME Kept, NEW q \in Partitions, Assign(q) \/ Poll(q)
             PROVE  ReadIsHeld' /\ CommittedIsLanded'
  BY DEF Polls
<1>0. /\ UNCHANGED <<setup, step, committed, landed>> /\ step = "polling"
      /\ pos \in [Partitions -> Int]
      /\ \A p \in Partitions \ {q} : pos'[p] = pos[p]
  BY DEF Assign, Poll, Kept, StreamTypeOK, HostOK, IsOffsets, None
<1>1. CommittedIsLanded'
  BY <1>0 DEF Kept, CommittedIsLanded
<1>2. CASE Assign(q)
  <2>1. reset = "earliest" => pos'[q] \in {0, committed[q]} /\ window' = window
    BY <1>2 DEF Assign, StartAt, ResetTo, Kept, StreamTypeOK, HostOK, IsOffsets
  <2>2. ReadIsHeld'
    BY <1>0, <2>1 DEF Kept, ReadIsHeld, CommittedIsLanded, InHand
  <2> QED
    BY <1>1, <2>2
<1>3. CASE Poll(q)
  <2> DEFINE at == Offset(q, pos[q] + 1)
  <2>1. pos[q] \in Nat /\ pos'[q] = pos[q] + 1 /\ window' = Append(window, at)
    BY <1>3 DEF Poll, Kept, StreamTypeOK, HostOK, IsOffsets, None
  <2>2. at \in Records /\ window \in Seq(Records)
    BY <2>1 DEF Offset, Records, Kept, StreamTypeOK, HostOK
  <2>3. Range(window') = Range(window) \union {at}
    BY <2>1, <2>2, AppendFacts
  <2>4. 1..pos'[q] = 1..pos[q] \union {pos[q] + 1}
    BY <2>1
  <2>5. ReadIsHeld'
    BY <1>0, <2>3, <2>4 DEF Kept, ReadIsHeld, InHand
  <2> QED
    BY <1>1, <2>5
<1> QED
  BY <1>2, <1>3

LEMMA KeptStep == Kept /\ [StreamNext]_streamVars => Kept'
<1> SUFFICES ASSUME Kept, [StreamNext]_streamVars PROVE Kept'
  OBVIOUS
<1>1. StreamTypeOK'
  BY TypeStep DEF Kept
<1>2. CASE Export \/ Deliveries \/ UNCHANGED streamVars
  <2>1. UNCHANGED <<setup, consumer>>
    BY <1>2, Apart DEF streamVars
  <2> QED
    BY <1>1, <2>1
       DEF consumer, Kept, ReadIsHeld, CommittedIsLanded, InHand
<1>3. CASE PollFails \/ HostCrashes
  BY <1>1, <1>3, KeptStartAgain DEF PollFails, HostCrashes, Kept
<1> QED
  BY <1>1, <1>2, <1>3, KeptWindows, KeptPolls DEF StreamNext, Kept

(***************************************************************************)
(* A host with a consumer of its own that commits after it has landed a    *)
(* window never commits a record that has not landed, for any topic,       *)
(* number of records, faults and crashes (docs/adr/007: "At-least-once     *)
(* baseline").                                                             *)
(***************************************************************************)
THEOREM AtLeastOnce == StreamSpec => []CommittedIsLanded
<1>1. Kept => CommittedIsLanded
  BY DEF Kept
<1> QED
  BY <1>1, KeptInit, KeptStep, PTL DEF StreamSpec

-----------------------------------------------------------------------------
(* What an answer means *)

Message(r, k) == [row |-> r, export |-> k]
Settled(m) == m \in expired \union Range(log[PartitionOf[m.row]])

\* Before the flush a message may also be on its way.
SentIsKnown == export.step = "sending" =>
  /\ export.sent <= QueueLimit
  /\ \A r \in 1..export.sent :
       LET m == Message(r, export.number) IN m \in queue \/ Settled(m)

Accounted == StreamTypeOK /\ SentIsKnown /\ OkIsSettled

LEMMA MessageFacts ==
  ASSUME StreamTypeOK
  PROVE  \A r, k : Message(r, k).row = r /\ Message(r, k).export = k
BY DEF Message

\* What is settled stays settled.
LEMMA SettledStays ==
  ASSUME StreamTypeOK, [StreamNext]_streamVars, NEW r \in 1..rows, NEW k,
         Settled(Message(r, k))
  PROVE  Settled(Message(r, k))'
<1>1. PartitionOf[r] \in Partitions /\ Message(r, k).row = r
  BY SetupFacts DEF StreamTypeOK, ExportOK, Message
<1>2. expired \subseteq expired'
  BY DEF StreamNext, streamVars, producer, Deliveries, Deliver, DeliverUnheard, Expire,
         HostStep, Export, BeginExport, Send, SendFails, FlushReturns,
         FlushTimesOut, Windows, Polls, BeginWindow, EndWindow, Land, LandingFails,
         GoOn, PollFails, HostCrashes, Assign, Poll
<1>3. Range(log[PartitionOf[r]]) \subseteq Range(log'[PartitionOf[r]])
  <2>1. CASE Deliveries
    <3>1. UNCHANGED log \/ \E m \in queue : Appended(m)
      BY <2>1 DEF Deliveries, Deliver, DeliverUnheard, Expire
    <3> QED
      BY <1>1, <3>1, LogGrows DEF StreamTypeOK
  <2>2. CASE UNCHANGED log
    BY <2>2
  <2> QED
    BY <2>1, <2>2, Apart DEF StreamNext, HostStep, streamVars
<1> QED
  BY <1>1, <1>2, <1>3, Message(r, k)' = Message(r, k) DEF Settled

LEMMA AccountedInit == StreamInit => Accounted
<1> SUFFICES ASSUME StreamInit PROVE Accounted
  OBVIOUS
<1>1. \A k \in Exports : answer[k] = "none"
  BY DEF StreamInit
<1> QED
  BY <1>1, InitType DEF StreamInit, Accounted, SentIsKnown, OkIsSettled

\* OkIsSettled in the words of this section.
LEMMA OkMeans ==
  OkIsSettled <=> \A k \in Exports : answer[k] = "ok" =>
                    /\ rows <= QueueLimit
                    /\ \A r \in 1..rows : Settled(Message(r, k))
BY DEF OkIsSettled, Settled, Message

\* An answer that was given stays true.
LEMMA OldAnswers ==
  ASSUME Accounted, [StreamNext]_streamVars, NEW k \in Exports, answer[k] = "ok"
  PROVE  (rows <= QueueLimit /\ \A r \in 1..rows : Settled(Message(r, k)))'
<1>1. rows' = rows
  BY Apart DEF StreamNext, HostStep, streamVars
<1>2. rows <= QueueLimit /\ \A r \in 1..rows : Settled(Message(r, k))
  BY OkMeans DEF Accounted
<1>3. \A r \in 1..rows : Settled(Message(r, k))'
  BY <1>2, SettledStays DEF Accounted
<1> QED
  BY <1>1, <1>2, <1>3

LEMMA AccountedExport == Accounted /\ Export => SentIsKnown' /\ OkIsSettled'
<1> SUFFICES ASSUME Accounted, Export PROVE SentIsKnown' /\ OkIsSettled'
  OBVIOUS
<1>0. /\ StreamTypeOK /\ ExportOK /\ SentIsKnown /\ OkIsSettled
      /\ UNCHANGED <<setup, log>> /\ [StreamNext]_streamVars
      /\ rows' = rows /\ rows \in Nat
  BY Apart, SetupFacts DEF Accounted, StreamTypeOK, ExportOK, StreamNext
<1>1. CASE BeginExport
  BY <1>0, <1>1, ExportFields DEF BeginExport, SentIsKnown, OkIsSettled
<1>2. CASE Send
  <2>1. /\ export'.sent = export.sent + 1 /\ export'.number = export.number
        /\ export.step = "sending" /\ export.sent \in Nat
        /\ export.sent < rows /\ export.sent < QueueLimit
        /\ queue' = queue \union {Message(export.sent + 1, export.number)}
        /\ expired' = expired /\ answer' = answer
    BY <1>0, <1>2, ExportFields DEF Send, QueueIsFull, Message
  <2>2. \A m : Settled(m) => Settled(m)'
    BY <1>0, <2>1 DEF Settled
  <2>3. 1..export'.sent = 1..export.sent \union {export.sent + 1}
    BY <2>1
  <2>4. \A r \in 1..export'.sent :
          \/ Message(r, export.number) \in queue'
          \/ Settled(Message(r, export.number))'
    <3>1. \A r \in 1..export.sent :
            \/ Message(r, export.number) \in queue
            \/ Settled(Message(r, export.number))
      BY <1>0, <2>1 DEF SentIsKnown
    <3>2. \A r : Message(r, export.number)' = Message(r, export.number)'
      OBVIOUS
    <3> QED
      BY <2>1, <2>2, <2>3, <3>1
  <2>5. SentIsKnown'
    BY <1>0, <2>1, <2>4 DEF SentIsKnown, Message
  <2> QED
    BY <1>0, <2>1, <2>5 DEF OkIsSettled
<1>3. ASSUME NEW a \in {"ok", "error"}, Answered(a), expired' = expired,
             export.step = "sending",
             a = "ok" => export.sent = rows /\ queue = {}
      PROVE  SentIsKnown' /\ OkIsSettled'
  <2>1. export'.step = "ended" /\ export'.number = export.number
    BY <1>0, <1>3, ExportFields DEF Answered
  <2>2. SentIsKnown'
    BY <2>1 DEF SentIsKnown
  <2>3. /\ answer'[export.number] = a
        /\ \A k \in Exports \ {export.number} : answer'[k] = answer[k]
    BY <1>0, <1>3 DEF Answered, ExportOK
  <2>4. ASSUME a = "ok"
        PROVE  (/\ rows <= QueueLimit
                /\ \A r \in 1..rows : Settled(Message(r, export.number)))'
    <3>1. /\ rows <= QueueLimit
          /\ \A r \in 1..rows : Settled(Message(r, export.number))
      <4>1. export.sent = rows /\ queue = {} /\ export.step = "sending"
        BY <1>3, <2>4
      <4>2. /\ rows <= QueueLimit
            /\ \A r \in 1..rows :
                 \/ Message(r, export.number) \in queue
                 \/ Settled(Message(r, export.number))
        BY <1>0, <4>1, Zenon DEF SentIsKnown
      <4> QED
        BY <4>1, <4>2
    <3>2. \A r \in 1..rows : Settled(Message(r, export.number))'
      BY <1>0, <1>3, <2>1, <3>1 DEF Settled, Message
    <3> QED
      BY <1>0, <3>1, <3>2
  <2>5. ASSUME NEW k \in Exports, answer'[k] = "ok"
        PROVE  (rows <= QueueLimit /\ \A r \in 1..rows : Settled(Message(r, k)))'
    <3>1. CASE k = export.number
      BY <2>1, <2>3, <2>4, <2>5, <3>1
    <3>2. CASE k # export.number
      <4>1. answer[k] = "ok"
        BY <2>3, <2>5, <3>2
      <4> QED
        BY <1>0, <4>1, OldAnswers
    <3> QED
      BY <3>1, <3>2
  <2>6. OkIsSettled'
    BY <2>5 DEF OkIsSettled, Settled, Message, Exports
  <2> QED
    BY <2>2, <2>6
<1> QED
  BY <1>1, <1>2, <1>3
     DEF Export, SendFails, FlushReturns, FlushTimesOut, Flushed

LEMMA AccountedDeliveries ==
  Accounted /\ Deliveries => SentIsKnown' /\ OkIsSettled'
<1> SUFFICES ASSUME Accounted, NEW m \in queue,
                    Deliver(m) \/ DeliverUnheard(m) \/ Expire(m)
             PROVE  SentIsKnown' /\ OkIsSettled'
  BY DEF Deliveries
<1>0. /\ StreamTypeOK /\ ExportOK /\ [StreamNext]_streamVars
      /\ setup' = setup /\ rows' = rows /\ export' = export /\ answer' = answer
  BY DEF Accounted, StreamTypeOK, StreamNext, Deliveries, Deliver, DeliverUnheard, Expire,
         producer
<1>1. \A n \in queue : n \in queue' \/ Settled(n)'
  <2>1. CASE Deliver(m)
    BY <1>0, <2>1, LogGrows DEF Deliver, Settled
  <2>2. CASE DeliverUnheard(m)
    BY <2>2 DEF DeliverUnheard, producer
  <2>3. CASE Expire(m)
    BY <2>3 DEF Expire, Settled
  <2> QED
    BY <2>1, <2>2, <2>3
<1>2. ASSUME export.step = "sending"
      PROVE  SentIsKnown'
  <2>1. /\ export.sent <= QueueLimit
        /\ \A r \in 1..export.sent : \/ Message(r, export.number) \in queue
                                     \/ Settled(Message(r, export.number))
    BY <1>2 DEF Accounted, SentIsKnown
  <2>2. 1..export.sent \subseteq 1..rows
    BY <1>0, ExportFields
  <2>3. \A r \in 1..export.sent : \/ Message(r, export.number) \in queue'
                                 \/ Settled(Message(r, export.number))'
    BY <1>0, <1>1, <2>1, <2>2, SettledStays
  <2> QED
    BY <1>0, <2>1, <2>3 DEF SentIsKnown, Message
<1>3. SentIsKnown'
  BY <1>0, <1>2 DEF SentIsKnown
<1>4. \A k \in Exports : answer'[k] = "ok" =>
        (rows <= QueueLimit /\ \A r \in 1..rows : Settled(Message(r, k)))'
  BY <1>0, OldAnswers
<1> QED
  BY <1>3, <1>4 DEF OkIsSettled, Settled, Message, Exports

LEMMA AccountedStep == Accounted /\ [StreamNext]_streamVars => Accounted'
<1> SUFFICES ASSUME Accounted, [StreamNext]_streamVars PROVE Accounted'
  OBVIOUS
<1>1. StreamTypeOK'
  BY TypeStep DEF Accounted
<1>2. CASE HostStep \/ UNCHANGED streamVars
  <2>1. UNCHANGED <<setup, log, producer>>
    BY <1>2, Apart DEF streamVars
  <2> QED
    BY <1>1, <2>1 DEF producer, Accounted, SentIsKnown, OkIsSettled, Settled,
                      Message, Exports
<1> QED
  BY <1>1, <1>2, AccountedExport, AccountedDeliveries
     DEF StreamNext, HostStep, Accounted

(***************************************************************************)
(* Ok(sent) of export_dataset_to_kafka: no row is unaccounted for, in any  *)
(* order of sends, deliveries, lost acknowledgements and timeouts.         *)
(***************************************************************************)
THEOREM AnswersAreSettled == StreamSpec => []OkIsSettled
<1>1. Accounted => OkIsSettled
  BY DEF Accounted
<1> QED
  BY <1>1, AccountedInit, AccountedStep, PTL DEF StreamSpec
=============================================================================
