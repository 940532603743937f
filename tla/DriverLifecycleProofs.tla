----------------------- MODULE DriverLifecycleProofs -----------------------
(***************************************************************************)
(* Theorems about DriverLifecycle, for every number of connections and of  *)
(* sessions.  The inductive invariant is stated in parts: Typed for the    *)
(* types and for what the place of NVDA's thread says of the rest, and on  *)
(* it Senders, Links, Quiet and Answers, each for one safety property.     *)
(***************************************************************************)
EXTENDS DriverLifecycle, TLAPS

Attempting == {"await", "connect", "services", "abandon"}
Closing == {"flush", "join", "drain", "reader"}

ThreadTypes ==
  /\ main \in {"off", "again", "port", "await", "connect", "services", "abandon", "probe", "running",
               "failed", "flush", "join", "drain", "reader"}
  /\ then \in {"off", "again", "port"} /\ current \in BOOLEAN
  /\ terminating \in BOOLEAN /\ leaving \in BOOLEAN /\ gate \in BOOLEAN /\ gone \in BOOLEAN

QueueTypes == queue \in Seq({"probe", "other"}) /\ unfinished \in Nat

NumberTypes ==
  /\ session \in 0 .. MaxSessions
  /\ made \in 0 .. MaxConnections
  /\ dev \in 0 .. made /\ board \in 0 .. made /\ remembered \in 0 .. made

LinkTypes ==
  /\ attempt \in [Connections -> {"none", "connecting", "subscribing", "done", "failed", "timed out"}]
  /\ disconnect \in [Connections -> {"none", "asked", "running", "over"}]
  /\ linked \in [Connections -> BOOLEAN] /\ closed \in [Connections -> BOOLEAN]

ReaderTypes ==
  /\ reader \in [Connections -> {"none", "waiting", "dispatching", "ended"}]
  /\ received \in [Connections -> Nat]
  /\ skipped \in [Connections -> BOOLEAN] /\ stopped \in [Connections -> BOOLEAN]

SenderPlace == [at : {"get", "slot", "resend", "write", "exited"},
                packet : {"none", "probe", "other"}, on : 0 .. made]

SenderTypes == sender \in [Sessions -> SenderPlace]

HistoryTypes ==
  /\ releases \subseteq Connections /\ overran \subseteq Connections /\ impatient \subseteq Connections
  /\ escaped \subseteq 1 .. made /\ stalled \subseteq Sessions

(* What the place of NVDA's thread says of the driver object.              *)
Places ==
  /\ main = "off" => ~current
  /\ main # "off" => session >= 1
  /\ main = "again" \/ (main \in Closing /\ then = "again") => session < MaxSessions
  /\ main \in Closing /\ then = "off" => ~current
  /\ main \in {"flush", "join"} => then # "port"
  /\ current \/ main \in {"probe", "running", "drain", "reader"} => dev >= 1
  /\ main \in Attempting => dev < made

(* A connection that is not made yet is as it was at the beginning.        *)
Fresh ==
  \A c \in Connections : c > made =>
    /\ attempt[c] = "none" /\ disconnect[c] = "none" /\ reader[c] = "none" /\ received[c] = 0
    /\ ~linked[c] /\ ~stopped[c] /\ ~closed[c]

(* Nothing is sent before there is a connection.                           *)
Used ==
  /\ dev = 0 => queue = <<>>
  /\ \A s \in Sessions :
       /\ dev = 0 => sender[s].at \notin {"slot", "resend", "write"}
       /\ Writing(s) => sender[s].on >= 1

Typed ==
  /\ ThreadTypes /\ QueueTypes /\ NumberTypes /\ LinkTypes /\ ReaderTypes /\ SenderTypes
  /\ HistoryTypes /\ Places /\ Fresh /\ Used

-----------------------------------------------------------------------------
(* Types, places and what is fresh.                                        *)

LEMMA Bounds == MaxConnections \in Nat /\ MaxSessions \in Nat /\ MaxSessions >= 1
  BY BoundsAssumption

LEMMA Rest == NumberTypes => Idle \in SenderPlace /\ Exited \in SenderPlace
  BY DEF NumberTypes, Idle, Exited, SenderPlace

LEMMA SenderMoves ==
  ASSUME Typed, UNCHANGED made, NEW s \in Sessions, NEW p \in SenderPlace,
         sender' = [sender EXCEPT ![s] = p]
  PROVE  SenderTypes'
  BY DEF Typed, SenderTypes, SenderPlace

LEMMA SubSeqTypes ==
  ASSUME NEW S, NEW q \in Seq(S), NEW n \in Nat, Len(q) > n
  PROVE  SubSeq(q, n + 2, Len(q)) \in Seq(S)
  OBVIOUS

(* What terminate and close do, up to their waits.                         *)
LEMMA TerminateEffect ==
  ASSUME Typed, NEW next \in {"again", "off"}, Terminate(next)
  PROVE  /\ UNCHANGED <<session, dev, terminating, gate, gone, board, sender>>
         /\ UNCHANGED <<made, attempt, linked, disconnect, closed, remembered>>
         /\ UNCHANGED <<reader, received, skipped, stopped, stalled, overran, impatient>>
         /\ leaving' = TRUE /\ current' = (next = "again")
         /\ \/ /\ Len(queue) <= unfinished /\ main' = "flush" /\ then' = next
               /\ queue' = <<>> /\ unfinished' = unfinished - Len(queue) /\ escaped' = escaped
            \/ /\ Len(queue) > unfinished
               /\ main' = (IF next = "again" THEN "failed" ELSE "off") /\ then' = then
               /\ queue' = SubSeq(queue, unfinished + 2, Len(queue)) /\ unfinished' = 0
               /\ escaped' = escaped \cup {dev}
<1>1. /\ UNCHANGED <<session, dev, terminating, gate, gone, board, sender>>
      /\ UNCHANGED <<made, attempt, linked, disconnect, closed, remembered>>
      /\ UNCHANGED <<reader, received, skipped, stopped, stalled, overran, impatient>>
  BY DEF Terminate, connections, links, readers
<1> QED
  BY <1>1 DEF Terminate, Typed, QueueTypes

LEMMA CloseEffect ==
  ASSUME Typed, NEW next, Close(dev, next)
  PROVE  \/ /\ dev = 0 \/ closed[dev]
            /\ main' = next /\ UNCHANGED <<disconnect, remembered, closed>>
         \/ /\ dev \in Connections /\ ~closed[dev] /\ main' = "drain"
            /\ closed' = [closed EXCEPT ![dev] = TRUE]
            /\ \/ /\ linked[dev] /\ remembered' = dev
                  /\ disconnect' = [disconnect EXCEPT ![dev] = "running"]
               \/ ~linked[dev] /\ UNCHANGED <<disconnect, remembered>>
<1>1. CASE dev = 0 \/ closed[dev]
  BY <1>1 DEF Close
<1>2. CASE dev # 0 /\ ~closed[dev]
  <2>1. dev \in Connections
    BY <1>2, Bounds DEF Typed, NumberTypes, Connections
  <2>2. main' = "drain" /\ closed' = [closed EXCEPT ![dev] = TRUE] /\ Disconnect(dev)
    BY <1>2 DEF Close, Start
  <2>3. \/ /\ linked[dev] /\ remembered' = dev
           /\ disconnect' = [disconnect EXCEPT ![dev] = "running"]
        \/ ~linked[dev] /\ UNCHANGED <<disconnect, remembered>>
    BY <2>1, <2>2 DEF Disconnect, Typed, LinkTypes
  <2> QED
    BY <1>2, <2>1, <2>2, <2>3
<1> QED
  BY <1>1, <1>2

(* One lemma for each action that has an effect of its own.                *)
LEMMA TypedReinitialise ==
  ASSUME Typed, Reinitialise
  PROVE  Typed'
<1> USE Bounds DEF Typed, Reinitialise, Initialise, object, fields, connections, links,
        readers, history, Attempting, Closing, Start
<1>1. LinkTypes' /\ ReaderTypes' /\ HistoryTypes'
  BY DEF LinkTypes, ReaderTypes, HistoryTypes
<1>2. Fresh'
  BY DEF Fresh
<1>3. ThreadTypes'
  BY Rest DEF ThreadTypes
<1>4. QueueTypes'
  BY Rest DEF QueueTypes
<1>5. NumberTypes'
  BY Rest DEF NumberTypes, ReaderTypes, Places, HistoryTypes, Fresh, Connections
<1>6. SenderTypes'
  <2>1. session + 1 \in Sessions /\ UNCHANGED made
    BY DEF Places, NumberTypes, Sessions
  <2> QED
    BY <2>1, Rest, SenderMoves
<1>7. Places'
  BY Rest DEF Places, ThreadTypes, NumberTypes
<1>8. Used'
  <2>1. queue' = <<>> /\ dev' = dev /\ sender' = [sender EXCEPT ![session + 1] = Idle]
    OBVIOUS
  <2> HIDE DEF Reinitialise
  <2> QED
    BY <2>1 DEF Used, SenderTypes, Idle, Writing
<1> QED
  BY <1>1, <1>2, <1>3, <1>4, <1>5, <1>6, <1>7, <1>8

LEMMA TypedTryPort ==
  ASSUME Typed, TryPort
  PROVE  Typed'
<1> USE Bounds DEF Typed, TryPort, object, fields, connections, links, readers, history,
        Attempting, Closing, Start
<1>1. QueueTypes'
  BY DEF QueueTypes
<1>2. LinkTypes'
  BY DEF LinkTypes
<1>3. Used'
  BY DEF Used, Writing
<1>4. ThreadTypes'
  BY Rest DEF ThreadTypes
<1>5. NumberTypes'
  BY Rest DEF NumberTypes, ReaderTypes, Places, HistoryTypes, Fresh, Connections
<1>6. ReaderTypes'
  BY Rest DEF ReaderTypes
<1>7. SenderTypes'
  BY Rest DEF SenderTypes, NumberTypes, SenderPlace
<1>8. HistoryTypes'
  BY Rest DEF HistoryTypes, NumberTypes, Places, Connections, Sessions
<1>9. Places'
  BY Rest DEF Places, ThreadTypes, NumberTypes
<1>10. Fresh'
  BY Rest DEF Fresh, Connections, NumberTypes
<1> QED
  BY <1>1, <1>2, <1>3, <1>4, <1>5, <1>6, <1>7, <1>8, <1>9, <1>10

LEMMA TypedNoPort ==
  ASSUME Typed, NoPort
  PROVE  Typed'
<1> USE Bounds DEF Typed, NoPort, object, fields, connections, links, readers, history,
        Attempting, Closing, Start
<1>1. QueueTypes' /\ NumberTypes'
  BY DEF QueueTypes, NumberTypes
<1>2. LinkTypes' /\ ReaderTypes' /\ SenderTypes' /\ HistoryTypes'
  BY DEF LinkTypes, ReaderTypes, SenderTypes, HistoryTypes, SenderPlace
<1>3. Fresh'
  BY DEF Fresh
<1>4. Used'
  BY DEF Used, Writing
<1>5. ThreadTypes'
  BY Rest DEF ThreadTypes
<1>6. Places'
  BY Rest DEF Places, ThreadTypes, NumberTypes
<1> QED
  BY <1>1, <1>2, <1>3, <1>4, <1>5, <1>6

LEMMA TypedConnect ==
  ASSUME Typed, Connect
  PROVE  Typed'
<1> USE Bounds DEF Typed, Connect, object, fields, connections, links, readers, history,
        Attempting, Closing, Start
<1>1. QueueTypes' /\ NumberTypes'
  BY DEF QueueTypes, NumberTypes
<1>2. ReaderTypes' /\ SenderTypes'
  BY DEF ReaderTypes, SenderTypes, SenderPlace
<1>3. Used'
  BY DEF Used, Writing
<1>4. ThreadTypes'
  BY Rest DEF ThreadTypes
<1>5. LinkTypes'
  BY Rest DEF LinkTypes
<1>6. HistoryTypes'
  BY Rest DEF HistoryTypes, NumberTypes, Places, Connections, Sessions
<1>7. Places'
  BY Rest DEF Places, ThreadTypes, NumberTypes
<1>8. Fresh'
  BY Rest DEF Fresh, Connections, NumberTypes
<1> QED
  BY <1>1, <1>2, <1>3, <1>4, <1>5, <1>6, <1>7, <1>8

LEMMA TypedConnectReturns ==
  ASSUME Typed, ConnectReturns
  PROVE  Typed'
<1> USE Bounds DEF Typed, ConnectReturns, object, fields, connections, links, readers, history,
        Attempting, Closing, Start
<1>1. QueueTypes' /\ NumberTypes'
  BY DEF QueueTypes, NumberTypes
<1>2. LinkTypes' /\ ReaderTypes' /\ SenderTypes' /\ HistoryTypes'
  BY DEF LinkTypes, ReaderTypes, SenderTypes, HistoryTypes, SenderPlace
<1>3. Fresh'
  BY DEF Fresh
<1>4. Used'
  BY DEF Used, Writing
<1>5. ThreadTypes'
  BY Rest DEF ThreadTypes
<1>6. Places'
  BY Rest DEF Places, ThreadTypes, NumberTypes
<1> QED
  BY <1>1, <1>2, <1>3, <1>4, <1>5, <1>6

LEMMA TypedConnectRaises ==
  ASSUME Typed, ConnectRaises
  PROVE  Typed'
<1> USE Bounds DEF Typed, ConnectRaises, object, fields, connections, links, readers, history,
        Attempting, Closing, Start
<1>1. QueueTypes' /\ NumberTypes'
  BY DEF QueueTypes, NumberTypes
<1>2. LinkTypes' /\ ReaderTypes' /\ SenderTypes'
  BY DEF LinkTypes, ReaderTypes, SenderTypes, SenderPlace
<1>3. Fresh'
  BY DEF Fresh
<1>4. Used'
  BY DEF Used, Writing
<1>5. ThreadTypes'
  BY Rest DEF ThreadTypes
<1>6. HistoryTypes'
  BY Rest DEF HistoryTypes, NumberTypes, Places, Connections, Sessions
<1>7. Places'
  BY Rest DEF Places, ThreadTypes, NumberTypes
<1> QED
  BY <1>1, <1>2, <1>3, <1>4, <1>5, <1>6, <1>7

LEMMA TypedConnectTimesOut ==
  ASSUME Typed, ConnectTimesOut
  PROVE  Typed'
<1> USE Bounds DEF Typed, ConnectTimesOut, Abandon, object, fields, connections, links,
        readers, history, Attempting, Closing, Start
<1>1. QueueTypes' /\ NumberTypes'
  BY DEF QueueTypes, NumberTypes
<1>2. SenderTypes' /\ HistoryTypes'
  BY DEF SenderTypes, HistoryTypes, SenderPlace
<1>3. Used'
  BY DEF Used, Writing
<1>4. ThreadTypes'
  BY Rest DEF ThreadTypes
<1>5. LinkTypes'
  BY Rest DEF LinkTypes
<1>6. ReaderTypes'
  BY Rest DEF ReaderTypes
<1>7. Places'
  BY Rest DEF Places, ThreadTypes, NumberTypes
<1>8. Fresh'
  <2>1. /\ UNCHANGED <<made, attempt, reader, received, linked, closed>>
        /\ stopped' = [stopped EXCEPT ![made] = TRUE] /\ disconnect' = [disconnect EXCEPT ![made] = "asked"]
    OBVIOUS
  <2> HIDE DEF ConnectTimesOut, Abandon
  <2> QED
    BY <2>1 DEF Fresh, Connections, NumberTypes
<1> QED
  BY <1>1, <1>2, <1>3, <1>4, <1>5, <1>6, <1>7, <1>8

LEMMA TypedConnectionIsUp ==
  ASSUME Typed, ConnectionIsUp
  PROVE  Typed'
<1> USE Bounds DEF Typed, ConnectionIsUp, object, fields, connections, links, readers, history,
        Attempting, Closing, Start
<1>1. LinkTypes' /\ ReaderTypes' /\ SenderTypes' /\ HistoryTypes'
  BY DEF LinkTypes, ReaderTypes, SenderTypes, HistoryTypes, SenderPlace
<1>2. Fresh'
  BY DEF Fresh
<1>3. ThreadTypes'
  BY Rest DEF ThreadTypes
<1>4. QueueTypes'
  BY Rest DEF QueueTypes
<1>5. NumberTypes'
  BY Rest DEF NumberTypes, ReaderTypes, Places, HistoryTypes, Fresh, Connections
<1>6. Places'
  BY Rest DEF Places, ThreadTypes, NumberTypes
<1>7. Used'
  <2>1. dev' # 0 /\ sender' = sender
    BY DEF Places, NumberTypes
  <2> QED
    BY <2>1 DEF Used, Writing
<1> QED
  BY <1>1, <1>2, <1>3, <1>4, <1>5, <1>6, <1>7

LEMMA TypedNotUsable ==
  ASSUME Typed, NotUsable
  PROVE  Typed'
<1> USE Bounds DEF Typed, NotUsable, Abandon, object, fields, connections, links, readers,
        history, Attempting, Closing, Start
<1>1. QueueTypes' /\ NumberTypes'
  BY DEF QueueTypes, NumberTypes
<1>2. SenderTypes' /\ HistoryTypes'
  BY DEF SenderTypes, HistoryTypes, SenderPlace
<1>3. Used'
  BY DEF Used, Writing
<1>4. ThreadTypes'
  BY Rest DEF ThreadTypes
<1>5. LinkTypes'
  BY Rest DEF LinkTypes
<1>6. ReaderTypes'
  BY Rest DEF ReaderTypes
<1>7. Places'
  BY Rest DEF Places, ThreadTypes, NumberTypes
<1>8. Fresh'
  BY Rest DEF Fresh, Connections, NumberTypes
<1> QED
  BY <1>1, <1>2, <1>3, <1>4, <1>5, <1>6, <1>7, <1>8

LEMMA TypedAbandoned ==
  ASSUME Typed, Abandoned
  PROVE  Typed'
<1> USE Bounds DEF Typed, Abandoned, object, fields, connections, links, readers, history,
        Attempting, Closing, Start
<1>1. QueueTypes' /\ NumberTypes'
  BY DEF QueueTypes, NumberTypes
<1>2. LinkTypes' /\ ReaderTypes' /\ SenderTypes' /\ HistoryTypes'
  BY DEF LinkTypes, ReaderTypes, SenderTypes, HistoryTypes, SenderPlace
<1>3. Fresh'
  BY DEF Fresh
<1>4. Used'
  BY DEF Used, Writing
<1>5. ThreadTypes'
  BY Rest DEF ThreadTypes
<1>6. Places'
  BY Rest DEF Places, ThreadTypes, NumberTypes
<1> QED
  BY <1>1, <1>2, <1>3, <1>4, <1>5, <1>6

LEMMA TypedAbandonTimesOut ==
  ASSUME Typed, AbandonTimesOut
  PROVE  Typed'
<1> USE Bounds DEF Typed, AbandonTimesOut, object, fields, connections, links, readers,
        history, Attempting, Closing, Start
<1>1. QueueTypes' /\ NumberTypes'
  BY DEF QueueTypes, NumberTypes
<1>2. ReaderTypes' /\ SenderTypes'
  BY DEF ReaderTypes, SenderTypes, SenderPlace
<1>3. Used'
  BY DEF Used, Writing
<1>4. ThreadTypes'
  BY Rest DEF ThreadTypes
<1>5. LinkTypes'
  BY Rest DEF LinkTypes
<1>6. HistoryTypes'
  BY Rest DEF HistoryTypes, NumberTypes, Places, Connections, Sessions
<1>7. Places'
  BY Rest DEF Places, ThreadTypes, NumberTypes
<1>8. Fresh'
  BY Rest DEF Fresh, Connections, NumberTypes
<1> QED
  BY <1>1, <1>2, <1>3, <1>4, <1>5, <1>6, <1>7, <1>8

(* What terminate needs of its callers: a connection to give up, and a     *)
(* session left for the next __init__.                                     *)
LEMMA TypedTerminate ==
  ASSUME Typed, NEW next \in {"again", "off"}, dev >= 1, session >= 1,
         next = "again" => session < MaxSessions,
         Terminate(next), releases' \subseteq releases
  PROVE  Typed'
<1> USE Bounds DEF Typed, Attempting, Closing
<1>1. /\ UNCHANGED <<session, dev, terminating, gate, gone, board, sender>>
      /\ UNCHANGED <<made, attempt, linked, disconnect>>
      /\ UNCHANGED <<reader, received, skipped, stopped, closed, remembered, stalled, overran, impatient>>
      /\ leaving' = TRUE /\ current' = (next = "again")
  BY TerminateEffect
<1>2. \/ /\ Len(queue) <= unfinished /\ main' = "flush" /\ then' = next
         /\ queue' = <<>> /\ unfinished' = unfinished - Len(queue) /\ escaped' = escaped
      \/ /\ Len(queue) > unfinished /\ main' = (IF next = "again" THEN "failed" ELSE "off") /\ then' = then
         /\ queue' = SubSeq(queue, unfinished + 2, Len(queue)) /\ unfinished' = 0
         /\ escaped' = escaped \cup {dev}
  BY TerminateEffect
<1>3. NumberTypes' /\ LinkTypes' /\ ReaderTypes'
  BY <1>1 DEF NumberTypes, LinkTypes, ReaderTypes
<1>4. SenderTypes'
  BY <1>1 DEF SenderTypes, SenderPlace
<1>5. ThreadTypes'
  BY <1>1, <1>2 DEF ThreadTypes
<1>6. QueueTypes'
  <2>1. queue \in Seq({"probe", "other"}) /\ unfinished \in Nat /\ Len(queue) \in Nat
    BY DEF QueueTypes
  <2> HIDE DEF Typed
  <2>2. CASE Len(queue) <= unfinished
    <3>1. queue' = <<>> /\ unfinished' = unfinished - Len(queue)
      BY <1>2, <2>1, <2>2
    <3> QED
      BY <2>1, <2>2, <3>1 DEF QueueTypes
  <2>3. CASE Len(queue) > unfinished
    <3>1. queue' = SubSeq(queue, unfinished + 2, Len(queue)) /\ unfinished' = 0
      BY <1>2, <2>1, <2>3
    <3>2. SubSeq(queue, unfinished + 2, Len(queue)) \in Seq({"probe", "other"})
      BY <2>1, <2>3, SubSeqTypes
    <3> QED
      BY <3>1, <3>2 DEF QueueTypes
  <2> QED
    BY <2>1, <2>2, <2>3
<1>7. HistoryTypes'
  <2>1. dev \in 1 .. made
    BY DEF NumberTypes
  <2> QED
    BY <1>1, <1>2, <2>1 DEF HistoryTypes
<1>8. Places'
  BY <1>1, <1>2 DEF Places, NumberTypes
<1>9. Fresh'
  BY <1>1 DEF Fresh
<1>10. Used'
  BY <1>1, <1>2 DEF Used, NumberTypes, Writing
<1> QED
  BY <1>3, <1>4, <1>5, <1>6, <1>7, <1>8, <1>9, <1>10

LEMMA TypedProbeTimesOut ==
  ASSUME Typed, ProbeTimesOut
  PROVE  Typed'
<1> USE Bounds DEF Typed, ProbeTimesOut, Close, Disconnect, object, fields, connections, links,
        readers, history, Attempting, Closing, Start
<1>1. QueueTypes'
  BY DEF QueueTypes
<1>2. ReaderTypes' /\ SenderTypes' /\ HistoryTypes'
  BY DEF ReaderTypes, SenderTypes, HistoryTypes, SenderPlace
<1>3. Used'
  BY DEF Used, Writing
<1>4. ThreadTypes'
  BY Rest DEF ThreadTypes
<1>5. NumberTypes'
  BY Rest DEF NumberTypes, ReaderTypes, Places, HistoryTypes, Fresh, Connections
<1>6. LinkTypes'
  BY Rest DEF LinkTypes
<1>7. Places'
  BY Rest DEF Places, ThreadTypes, NumberTypes
<1>8. Fresh'
  <2>1. UNCHANGED <<made, attempt, reader, received, linked, stopped>>
    OBVIOUS
  <2>2. Close(dev, "port")
    OBVIOUS
  <2> HIDE DEF ProbeTimesOut, Close, Disconnect, Typed
  <2>3. \A c \in Connections : c # dev => disconnect'[c] = disconnect[c] /\ closed'[c] = closed[c]
    BY <2>2, CloseEffect DEF Typed, LinkTypes
  <2>4. \A c \in Connections : c > made => c # dev
    BY DEF Connections, NumberTypes, Typed
  <2> QED
    BY <2>1, <2>3, <2>4 DEF Fresh, Typed
<1> QED
  BY <1>1, <1>2, <1>3, <1>4, <1>5, <1>6, <1>7, <1>8

LEMMA TypedProbeAnswered ==
  ASSUME Typed, ProbeAnswered
  PROVE  Typed'
<1> USE Bounds DEF Typed, ProbeAnswered, object, fields, connections, links, readers, history,
        Attempting, Closing, Start
<1>1. NumberTypes'
  BY DEF NumberTypes
<1>2. LinkTypes' /\ ReaderTypes' /\ SenderTypes' /\ HistoryTypes'
  BY DEF LinkTypes, ReaderTypes, SenderTypes, HistoryTypes, SenderPlace
<1>3. Fresh'
  BY DEF Fresh
<1>4. ThreadTypes'
  BY Rest DEF ThreadTypes
<1>5. QueueTypes'
  BY Rest DEF QueueTypes
<1>6. Places'
  BY Rest DEF Places, ThreadTypes, NumberTypes
<1>7. Used'
  <2>1. dev' # 0 /\ sender' = sender
    BY DEF Places, NumberTypes
  <2> QED
    BY <2>1 DEF Used, Writing
<1> QED
  BY <1>1, <1>2, <1>3, <1>4, <1>5, <1>6, <1>7

LEMMA TypedDrainReceived ==
  ASSUME Typed, DrainReceived
  PROVE  Typed'
<1> USE Bounds DEF Typed, DrainReceived, object, fields, connections, links, readers, history,
        Attempting, Closing, Start
<1>1. QueueTypes' /\ NumberTypes'
  BY DEF QueueTypes, NumberTypes
<1>2. LinkTypes' /\ SenderTypes' /\ HistoryTypes'
  BY DEF LinkTypes, SenderTypes, HistoryTypes, SenderPlace
<1>3. Used'
  BY DEF Used, Writing
<1>4. ThreadTypes'
  BY Rest DEF ThreadTypes
<1>5. ReaderTypes'
  BY Rest DEF ReaderTypes
<1>6. Places'
  BY Rest DEF Places, ThreadTypes, NumberTypes
<1>7. Fresh'
  BY Rest DEF Fresh, Connections, NumberTypes
<1> QED
  BY <1>1, <1>2, <1>3, <1>4, <1>5, <1>6, <1>7

LEMMA TypedJoinReader ==
  ASSUME Typed, JoinReader
  PROVE  Typed'
<1> USE Bounds DEF Typed, JoinReader, object, fields, connections, links, readers, history,
        Attempting, Closing, Start
<1>1. QueueTypes' /\ NumberTypes'
  BY DEF QueueTypes, NumberTypes
<1>2. LinkTypes' /\ ReaderTypes' /\ SenderTypes'
  BY DEF LinkTypes, ReaderTypes, SenderTypes, SenderPlace
<1>3. Fresh'
  BY DEF Fresh
<1>4. Used'
  BY DEF Used, Writing
<1>5. ThreadTypes'
  BY Rest DEF ThreadTypes
<1>6. HistoryTypes'
  BY Rest DEF HistoryTypes, NumberTypes, Places, Connections, Sessions
<1>7. Places'
  BY Rest DEF Places, ThreadTypes, NumberTypes
<1> QED
  BY <1>1, <1>2, <1>3, <1>4, <1>5, <1>6, <1>7

LEMMA TypedGiveUp ==
  ASSUME Typed, GiveUp
  PROVE  Typed'
<1>1. CASE current /\ Terminate("off") /\ UNCHANGED releases
  <2>1. dev >= 1 /\ session >= 1
    BY <1>1 DEF Typed, Places, GiveUp
  <2> QED
    BY <1>1, <2>1, TypedTerminate
<1>2. CASE ~current /\ main' = "off" /\ UNCHANGED <<then, object, releases, connections, history>>
  <2> USE <1>2 DEF Typed, object, fields, connections, links, readers, history, Closing, Attempting
  <2>1. ThreadTypes' /\ QueueTypes' /\ NumberTypes' /\ Places'
    BY DEF ThreadTypes, QueueTypes, NumberTypes, Places
  <2>2. LinkTypes' /\ ReaderTypes' /\ SenderTypes' /\ HistoryTypes'
    BY DEF LinkTypes, ReaderTypes, SenderTypes, HistoryTypes, SenderPlace
  <2>3. Fresh' /\ Used'
    BY DEF Fresh, Used, Writing
  <2> QED
    BY <2>1, <2>2, <2>3
<1> QED
  BY <1>1, <1>2 DEF GiveUp

LEMMA TypedFlush ==
  ASSUME Typed, Flush
  PROVE  Typed'
<1> USE Bounds DEF Typed, Flush, object, fields, connections, links, readers, history,
        Attempting, Closing, Start
<1>1. QueueTypes' /\ NumberTypes'
  BY DEF QueueTypes, NumberTypes
<1>2. LinkTypes' /\ ReaderTypes' /\ SenderTypes' /\ HistoryTypes'
  BY DEF LinkTypes, ReaderTypes, SenderTypes, HistoryTypes, SenderPlace
<1>3. Fresh'
  BY DEF Fresh
<1>4. Used'
  BY DEF Used, Writing
<1>5. ThreadTypes'
  BY Rest DEF ThreadTypes
<1>6. Places'
  BY Rest DEF Places, ThreadTypes, NumberTypes
<1> QED
  BY <1>1, <1>2, <1>3, <1>4, <1>5, <1>6

LEMMA TypedJoin ==
  ASSUME Typed, Join
  PROVE  Typed'
<1> USE Bounds DEF Typed, Join, JoinOver, Close, Disconnect, object, fields, connections,
        links, readers, history, Attempting, Closing, Start
<1>1. QueueTypes'
  BY DEF QueueTypes
<1>2. ReaderTypes' /\ SenderTypes'
  BY DEF ReaderTypes, SenderTypes, SenderPlace
<1>3. Used'
  BY DEF Used, Writing
<1>4. ThreadTypes'
  BY Rest DEF ThreadTypes
<1>5. NumberTypes'
  BY Rest DEF NumberTypes, ReaderTypes, Places, HistoryTypes, Fresh, Connections
<1>6. LinkTypes'
  BY Rest DEF LinkTypes
<1>7. HistoryTypes'
  <2>1. /\ stalled' = stalled \/ stalled' = stalled \cup {session}
        /\ UNCHANGED <<made, releases, overran, escaped, impatient>>
    OBVIOUS
  <2>2. session \in Sessions
    BY DEF Places, NumberTypes, Sessions
  <2> HIDE DEF Join, Close, Disconnect
  <2> QED
    BY <2>1, <2>2 DEF HistoryTypes
<1>8. Places'
  BY Rest DEF Places, ThreadTypes, NumberTypes
<1>9. Fresh'
  <2>1. UNCHANGED <<made, attempt, reader, received, linked, stopped>>
    OBVIOUS
  <2>2. Close(dev, then)
    OBVIOUS
  <2> HIDE DEF Join, Close, Disconnect, Typed
  <2>3. \A c \in Connections : c # dev => disconnect'[c] = disconnect[c] /\ closed'[c] = closed[c]
    BY <2>2, CloseEffect DEF Typed, LinkTypes
  <2>4. \A c \in Connections : c > made => c # dev
    BY DEF Connections, NumberTypes, Typed
  <2> QED
    BY <2>1, <2>3, <2>4 DEF Fresh, Typed
<1> QED
  BY <1>1, <1>2, <1>3, <1>4, <1>5, <1>6, <1>7, <1>8, <1>9

LEMMA TypedConstruct ==
  ASSUME Typed, Construct
  PROVE  Typed'
<1> USE Bounds DEF Typed, Construct, Initialise, object, fields, connections, links, readers,
        history, Attempting, Closing, Start
<1>1. LinkTypes'
  BY DEF LinkTypes
<1>2. ThreadTypes'
  BY Rest DEF ThreadTypes
<1>3. QueueTypes'
  BY Rest DEF QueueTypes
<1>4. NumberTypes'
  BY Rest DEF NumberTypes, ReaderTypes, Places, HistoryTypes, Fresh, Connections
<1>5. ReaderTypes'
  BY Rest DEF ReaderTypes
<1>6. SenderTypes'
  BY Rest DEF SenderTypes, NumberTypes, SenderPlace
<1>7. HistoryTypes'
  BY Rest DEF HistoryTypes, NumberTypes, Places, Connections, Sessions
<1>8. Places'
  BY Rest DEF Places, ThreadTypes, NumberTypes
<1>9. Fresh'
  BY Rest DEF Fresh, Connections, NumberTypes
<1>10. Used'
  <2>1. queue' = <<>> /\ \A s \in Sessions : sender'[s] \in {Idle, Exited}
    OBVIOUS
  <2> QED
    BY <2>1 DEF Used, Idle, Exited, Writing
<1> QED
  BY <1>1, <1>2, <1>3, <1>4, <1>5, <1>6, <1>7, <1>8, <1>9, <1>10

LEMMA TypedReselect ==
  ASSUME Typed, Reselect
  PROVE  Typed'
<1>1. dev >= 1 /\ session >= 1
  BY DEF Typed, Places, Reselect
<1> QED
  BY <1>1, TypedTerminate DEF Reselect

LEMMA TypedSwitchAway ==
  ASSUME Typed, SwitchAway
  PROVE  Typed'
<1>1. dev >= 1 /\ session >= 1
  BY DEF Typed, Places, SwitchAway
<1> QED
  BY <1>1, TypedTerminate DEF SwitchAway

LEMMA TypedSend ==
  ASSUME Typed, Send
  PROVE  Typed'
<1> USE Bounds DEF Typed, Send, object, fields, connections, links, readers, history,
        Attempting, Closing, Start
<1>1. ThreadTypes' /\ NumberTypes' /\ Places'
  BY DEF ThreadTypes, NumberTypes, Places
<1>2. LinkTypes' /\ ReaderTypes' /\ SenderTypes' /\ HistoryTypes'
  BY DEF LinkTypes, ReaderTypes, SenderTypes, HistoryTypes, SenderPlace
<1>3. Fresh'
  BY DEF Fresh
<1>4. QueueTypes'
  BY Rest DEF QueueTypes
<1>5. Used'
  <2>1. dev' # 0 /\ sender' = sender
    BY DEF Places, NumberTypes
  <2> QED
    BY <2>1 DEF Used, Writing
<1> QED
  BY <1>1, <1>2, <1>3, <1>4, <1>5

LEMMA TypedRelease ==
  ASSUME Typed, NEW c \in Connections, Release(c)
  PROVE  Typed'
<1>1. CASE current /\ Terminate("off")
  <2>1. dev >= 1 /\ session >= 1
    BY <1>1 DEF Typed, Places, Release
  <2> QED
    BY <1>1, <2>1, TypedTerminate DEF Release
<1>2. CASE ~current /\ UNCHANGED <<main, then, object, connections, history>>
  <2>1. releases' \subseteq releases
    BY DEF Release
  <2> USE <1>2, <2>1 DEF Typed, object, fields, connections, links, readers, history
  <2>2. ThreadTypes' /\ QueueTypes' /\ NumberTypes' /\ Places'
    BY DEF ThreadTypes, QueueTypes, NumberTypes, Places, Closing, Attempting
  <2>3. LinkTypes' /\ ReaderTypes' /\ SenderTypes' /\ HistoryTypes'
    BY DEF LinkTypes, ReaderTypes, SenderTypes, HistoryTypes, SenderPlace
  <2>4. Fresh' /\ Used'
    BY DEF Fresh, Used, Writing
  <2> QED
    BY <2>2, <2>3, <2>4
<1> QED
  BY <1>1, <1>2 DEF Release

LEMMA TypedCollect ==
  ASSUME Typed, NEW c \in Connections, Collect(c)
  PROVE  Typed'
<1> USE Bounds DEF Typed, Collect, Disconnect, object, fields, connections, links, readers,
        history, Attempting, Closing, Start
<1>1. ThreadTypes' /\ QueueTypes' /\ Places'
  BY DEF ThreadTypes, QueueTypes, Places
<1>2. SenderTypes' /\ HistoryTypes'
  BY DEF SenderTypes, HistoryTypes, SenderPlace
<1>3. Used'
  BY DEF Used, Writing
<1>4. NumberTypes'
  BY Rest DEF NumberTypes, ReaderTypes, Places, HistoryTypes, Fresh, Connections
<1>5. LinkTypes'
  BY Rest DEF LinkTypes
<1>6. ReaderTypes'
  BY Rest DEF ReaderTypes
<1>7. Fresh'
  <2>1. c <= made
    BY DEF HistoryTypes, NumberTypes
  <2> QED
    BY <2>1 DEF Fresh, NumberTypes, Connections
<1> QED
  BY <1>1, <1>2, <1>3, <1>4, <1>5, <1>6, <1>7

LEMMA TypedSenderExits ==
  ASSUME Typed, NEW s \in Sessions, SenderExits(s)
  PROVE  Typed'
<1> USE Bounds DEF Typed, SenderExits, object, fields, connections, links, readers, history,
        Attempting, Closing, Start
<1>1. ThreadTypes' /\ QueueTypes' /\ NumberTypes' /\ Places'
  BY DEF ThreadTypes, QueueTypes, NumberTypes, Places
<1>2. LinkTypes' /\ ReaderTypes' /\ HistoryTypes'
  BY DEF LinkTypes, ReaderTypes, HistoryTypes
<1>3. Fresh'
  BY DEF Fresh
<1>4. SenderTypes'
  BY Rest, SenderMoves
<1>5. Used'
  <2>1. sender' = [sender EXCEPT ![s] = Exited] /\ queue' = queue /\ dev' = dev
    OBVIOUS
  <2> HIDE DEF SenderExits
  <2> QED
    BY <2>1 DEF Used, SenderTypes, Exited, Writing
<1> QED
  BY <1>1, <1>2, <1>3, <1>4, <1>5

LEMMA TypedTake ==
  ASSUME Typed, NEW s \in Sessions, Take(s)
  PROVE  Typed'
<1> USE Bounds DEF Typed, Take, Done, object, fields, connections, links, readers, history,
        Attempting, Closing, Start
<1>1. ThreadTypes' /\ NumberTypes' /\ Places'
  BY DEF ThreadTypes, NumberTypes, Places
<1>2. LinkTypes' /\ ReaderTypes' /\ HistoryTypes'
  BY DEF LinkTypes, ReaderTypes, HistoryTypes
<1>3. Fresh'
  BY DEF Fresh
<1>4. QueueTypes'
  BY Rest DEF QueueTypes
<1>5. SenderTypes'
  <2>1. Head(queue) \in {"probe", "other"}
    BY DEF QueueTypes
  <2>2. CASE gone
    BY <2>2, Rest, SenderMoves
  <2>3. CASE ~gone
    <3>1. sender' = [sender EXCEPT ![s] = [sender[s] EXCEPT !.at = "slot", !.packet = Head(queue)]]
      BY <2>3 DEF SenderTypes, SenderPlace
    <3>2. [sender[s] EXCEPT !.at = "slot", !.packet = Head(queue)] \in SenderPlace
      BY <2>1 DEF SenderTypes, SenderPlace
    <3> QED
      BY <3>1, <3>2, SenderMoves
  <2> QED
    BY <2>2, <2>3
<1>6. Used'
  <2>1. dev # 0 /\ dev' = dev
    BY DEF Used
  <2>2. \/ sender' = [sender EXCEPT ![s] = Idle] \/ sender' = [sender EXCEPT ![s] = Exited]
        \/ sender' = [sender EXCEPT ![s].at = "slot", ![s].packet = Head(queue)]
    OBVIOUS
  <2> HIDE DEF Take, Done, Typed
  <2>3. SenderTypes /\ Used
    BY DEF Typed
  <2>4. \A t \in Sessions : Writing(t)' => sender'[t] = sender[t]
    BY <2>2, <2>3 DEF SenderTypes, SenderPlace, Idle, Exited, Writing
  <2> QED
    BY <2>1, <2>3, <2>4 DEF Used, Writing
<1> QED
  BY <1>1, <1>2, <1>3, <1>4, <1>5, <1>6

LEMMA TypedSlotOpens ==
  ASSUME Typed, NEW s \in Sessions, SlotOpens(s)
  PROVE  Typed'
<1> USE Bounds DEF Typed, SlotOpens, object, fields, connections, links, readers, history,
        Attempting, Closing, Start
<1>1. QueueTypes' /\ NumberTypes' /\ Places'
  BY DEF QueueTypes, NumberTypes, Places
<1>2. LinkTypes' /\ ReaderTypes' /\ HistoryTypes'
  BY DEF LinkTypes, ReaderTypes, HistoryTypes
<1>3. Fresh'
  BY DEF Fresh
<1>4. ThreadTypes'
  BY Rest DEF ThreadTypes
<1>5. SenderTypes'
  BY Rest DEF SenderTypes, NumberTypes, SenderPlace
<1>6. Used'
  <2>1. /\ dev # 0 /\ UNCHANGED <<dev, queue>>
        /\ sender' = [sender EXCEPT ![s].at = "write", ![s].on = dev]
    BY DEF Used
  <2> HIDE DEF SlotOpens
  <2> QED
    BY <2>1 DEF Used, SenderTypes, NumberTypes, Writing
<1> QED
  BY <1>1, <1>2, <1>3, <1>4, <1>5, <1>6

LEMMA TypedGiveUpSlot ==
  ASSUME Typed, NEW s \in Sessions, GiveUpSlot(s)
  PROVE  Typed'
<1> USE Bounds DEF Typed, GiveUpSlot, Done, Report, object, fields, connections, links,
        readers, history, Attempting, Closing, Start
<1>1. NumberTypes' /\ Places'
  BY DEF NumberTypes, Places
<1>2. LinkTypes' /\ ReaderTypes'
  BY DEF LinkTypes, ReaderTypes
<1>3. Fresh'
  BY DEF Fresh
<1>4. ThreadTypes'
  BY Rest DEF ThreadTypes
<1>5. QueueTypes'
  BY Rest DEF QueueTypes
<1>6. SenderTypes'
  BY Rest, SenderMoves
<1>7. HistoryTypes'
  <2>1. dev \in Connections
    BY DEF Used, NumberTypes, Connections
  <2> QED
    BY <2>1 DEF HistoryTypes
<1>8. Used'
  <2>1. /\ sender' \in {[sender EXCEPT ![s] = Idle], [sender EXCEPT ![s] = Exited]}
        /\ queue' = queue /\ dev' = dev
    OBVIOUS
  <2> HIDE DEF GiveUpSlot, Done
  <2> QED
    BY <2>1 DEF Used, SenderTypes, Idle, Exited, Writing
<1> QED
  BY <1>1, <1>2, <1>3, <1>4, <1>5, <1>6, <1>7, <1>8

LEMMA TypedResend ==
  ASSUME Typed, NEW s \in Sessions, Resend(s) \/ ResendReturns(s)
  PROVE  Typed'
<1>1. /\ UNCHANGED <<main, then, session, current, fields, releases, connections, history>>
      /\ dev # 0
      /\ \/ sender' = [sender EXCEPT ![s].at = "resend", ![s].on = dev]
         \/ sender' = [sender EXCEPT ![s].at = "slot"]
  BY DEF Resend, ResendReturns, Typed, Used
<1> USE <1>1 DEF Typed, fields, connections, links, readers, history, Attempting, Closing
<1>2. ThreadTypes' /\ QueueTypes' /\ NumberTypes' /\ Places'
  BY DEF ThreadTypes, QueueTypes, NumberTypes, Places
<1>3. LinkTypes' /\ ReaderTypes' /\ HistoryTypes' /\ Fresh'
  BY DEF LinkTypes, ReaderTypes, HistoryTypes, Fresh
<1>4. SenderTypes'
  BY DEF SenderTypes, NumberTypes, SenderPlace
<1>5. Used'
  <2>1. \A t \in Sessions : t # s => sender'[t] = sender[t]
    BY DEF SenderTypes
  <2>2. Writing(s)' => sender'[s].on = dev
    BY DEF SenderTypes, SenderPlace, Writing
  <2>3. dev >= 1
    BY DEF NumberTypes
  <2> QED
    BY <2>1, <2>2, <2>3 DEF Used, Writing
<1> QED
  BY <1>2, <1>3, <1>4, <1>5

LEMMA TypedWriteReturns ==
  ASSUME Typed, NEW s \in Sessions, WriteReturns(s)
  PROVE  Typed'
<1> USE Bounds DEF Typed, WriteReturns, Done, object, fields, connections, links, readers,
        history, Attempting, Closing, Start
<1>1. ThreadTypes' /\ NumberTypes' /\ Places'
  BY DEF ThreadTypes, NumberTypes, Places
<1>2. LinkTypes' /\ HistoryTypes'
  BY DEF LinkTypes, HistoryTypes
<1>3. QueueTypes'
  BY Rest DEF QueueTypes
<1>4. ReaderTypes'
  BY Rest DEF ReaderTypes
<1>5. SenderTypes'
  BY Rest, SenderMoves
<1>6. Fresh'
  <2>1. /\ UNCHANGED <<made, attempt, disconnect, reader, linked, stopped, closed>>
        /\ received' \in {received, [received EXCEPT ![sender[s].on] = @ + 1]}
    OBVIOUS
  <2>2. sender[s].on <= made /\ sender[s].on \in Nat /\ made \in Nat
    BY DEF SenderTypes, SenderPlace, NumberTypes
  <2> HIDE DEF WriteReturns, Done
  <2>3. \A c \in Connections : c > made => received'[c] = received[c]
    BY <2>1, <2>2 DEF Connections, ReaderTypes
  <2> QED
    BY <2>1, <2>3 DEF Fresh
<1>7. Used'
  <2>1. /\ sender' \in {[sender EXCEPT ![s] = Idle], [sender EXCEPT ![s] = Exited]}
        /\ queue' = queue /\ dev' = dev
    OBVIOUS
  <2> HIDE DEF WriteReturns, Done
  <2> QED
    BY <2>1 DEF Used, SenderTypes, Idle, Exited, Writing
<1> QED
  BY <1>1, <1>2, <1>3, <1>4, <1>5, <1>6, <1>7

LEMMA TypedWriteRaises ==
  ASSUME Typed, NEW s \in Sessions, WriteRaises(s)
  PROVE  Typed'
<1> USE Bounds DEF Typed, WriteRaises, Done, Report, object, fields, connections, links,
        readers, history, Attempting, Closing, Start
<1>1. NumberTypes' /\ Places'
  BY DEF NumberTypes, Places
<1>2. LinkTypes' /\ ReaderTypes'
  BY DEF LinkTypes, ReaderTypes
<1>3. Fresh'
  BY DEF Fresh
<1>4. ThreadTypes'
  BY Rest DEF ThreadTypes
<1>5. QueueTypes'
  BY Rest DEF QueueTypes
<1>6. SenderTypes'
  BY Rest, SenderMoves
<1>7. HistoryTypes'
  <2>1. sender[s].on \in Connections
    BY DEF Used, Writing, SenderTypes, SenderPlace, NumberTypes, Connections
  <2> QED
    BY <2>1 DEF HistoryTypes
<1>8. Used'
  <2>1. /\ sender' \in {[sender EXCEPT ![s] = Idle], [sender EXCEPT ![s] = Exited]}
        /\ queue' = queue /\ dev' = dev
    OBVIOUS
  <2> HIDE DEF WriteRaises, Done
  <2> QED
    BY <2>1 DEF Used, SenderTypes, Idle, Exited, Writing
<1> QED
  BY <1>1, <1>2, <1>3, <1>4, <1>5, <1>6, <1>7, <1>8

LEMMA TypedResendRaises ==
  ASSUME Typed, NEW s \in Sessions, ResendRaises(s)
  PROVE  Typed'
<1> USE Bounds DEF Typed, ResendRaises, Done, Report, object, fields, connections, links,
        readers, history, Attempting, Closing, Start
<1>1. NumberTypes' /\ Places'
  BY DEF NumberTypes, Places
<1>2. LinkTypes' /\ ReaderTypes'
  BY DEF LinkTypes, ReaderTypes
<1>3. Fresh'
  BY DEF Fresh
<1>4. ThreadTypes'
  BY Rest DEF ThreadTypes
<1>5. QueueTypes'
  BY Rest DEF QueueTypes
<1>6. SenderTypes'
  BY Rest, SenderMoves
<1>7. HistoryTypes'
  <2>1. sender[s].on \in Connections
    BY DEF Used, Writing, SenderTypes, SenderPlace, NumberTypes, Connections
  <2> QED
    BY <2>1 DEF HistoryTypes
<1>8. Used'
  <2>1. /\ sender' \in {[sender EXCEPT ![s] = Idle], [sender EXCEPT ![s] = Exited]}
        /\ queue' = queue /\ dev' = dev
    OBVIOUS
  <2> HIDE DEF ResendRaises, Done
  <2> QED
    BY <2>1 DEF Used, SenderTypes, Idle, Exited, Writing
<1> QED
  BY <1>1, <1>2, <1>3, <1>4, <1>5, <1>6, <1>7, <1>8

LEMMA TypedReaderTakes ==
  ASSUME Typed, NEW c \in Connections, ReaderTakes(c)
  PROVE  Typed'
<1> USE Bounds DEF Typed, ReaderTakes, object, fields, connections, links, readers, history,
        Attempting, Closing, Start
<1>1. ThreadTypes' /\ QueueTypes' /\ NumberTypes' /\ Places'
  BY DEF ThreadTypes, QueueTypes, NumberTypes, Places
<1>2. LinkTypes' /\ SenderTypes' /\ HistoryTypes'
  BY DEF LinkTypes, SenderTypes, HistoryTypes, SenderPlace
<1>3. Used'
  BY DEF Used, Writing
<1>4. ReaderTypes'
  BY Rest DEF ReaderTypes
<1>5. Fresh'
  BY Rest DEF Fresh, Connections, NumberTypes
<1> QED
  BY <1>1, <1>2, <1>3, <1>4, <1>5

LEMMA TypedDispatch ==
  ASSUME Typed, NEW c \in Connections, Dispatch(c)
  PROVE  Typed'
<1> USE Bounds DEF Typed, Dispatch, object, fields, connections, links, readers, history,
        Attempting, Closing, Start
<1>1. QueueTypes' /\ Places'
  BY DEF QueueTypes, Places
<1>2. LinkTypes' /\ SenderTypes' /\ HistoryTypes'
  BY DEF LinkTypes, SenderTypes, HistoryTypes, SenderPlace
<1>3. Used'
  BY DEF Used, Writing
<1>4. ThreadTypes'
  BY Rest DEF ThreadTypes
<1>5. NumberTypes'
  BY Rest DEF NumberTypes, ReaderTypes, Places, HistoryTypes, Fresh, Connections
<1>6. ReaderTypes'
  BY Rest DEF ReaderTypes
<1>7. Fresh'
  BY Rest DEF Fresh, Connections, NumberTypes
<1> QED
  BY <1>1, <1>2, <1>3, <1>4, <1>5, <1>6, <1>7

LEMMA TypedReaderEnds ==
  ASSUME Typed, NEW c \in Connections, ReaderEnds(c)
  PROVE  Typed'
<1> USE Bounds DEF Typed, ReaderEnds, object, fields, connections, links, readers, history,
        Attempting, Closing, Start
<1>1. ThreadTypes' /\ QueueTypes' /\ NumberTypes' /\ Places'
  BY DEF ThreadTypes, QueueTypes, NumberTypes, Places
<1>2. LinkTypes' /\ SenderTypes' /\ HistoryTypes'
  BY DEF LinkTypes, SenderTypes, HistoryTypes, SenderPlace
<1>3. Used'
  BY DEF Used, Writing
<1>4. ReaderTypes'
  BY Rest DEF ReaderTypes
<1>5. Fresh'
  BY Rest DEF Fresh, Connections, NumberTypes
<1> QED
  BY <1>1, <1>2, <1>3, <1>4, <1>5

LEMMA TypedProgress ==
  ASSUME Typed, NEW c \in Connections, Progress(c)
  PROVE  Typed'
<1> DEFINE Ways == {"subscribing", "failed", "timed out", "done"}
<1>1. UNCHANGED <<linkFrame, disconnect, remembered>>
  BY DEF Progress
<1>2. attempt[c] # "none" /\ linked' \in {linked, Start(linked, c)}
  BY DEF Progress
<1>3. PICK how \in Ways : attempt' = [attempt EXCEPT ![c] = how]
  BY DEF Progress
<1> USE <1>1 DEF Typed, linkFrame, object, fields, readers, history, Closing, Attempting
<1>4. ThreadTypes' /\ QueueTypes' /\ NumberTypes'
  BY DEF ThreadTypes, QueueTypes, NumberTypes
<1>5. Places'
  BY DEF Places
<1>6. ReaderTypes' /\ SenderTypes' /\ HistoryTypes' /\ Used'
  BY DEF Progress, ReaderTypes, SenderTypes, HistoryTypes, SenderPlace, Used, Writing
<1>7. LinkTypes'
  BY <1>2, <1>3 DEF LinkTypes, Start
<1>8. Fresh'
  <2>1. ~(c > made)
    BY <1>2 DEF Fresh
  <2>2. \A d \in Connections : d > made => attempt'[d] = attempt[d] /\ linked'[d] = linked[d]
    BY <1>2, <1>3, <2>1 DEF Start, LinkTypes
  <2> QED
    BY <2>2 DEF Fresh
<1> QED
  BY <1>4, <1>5, <1>6, <1>7, <1>8

LEMMA TypedCancel ==
  ASSUME Typed, NEW c \in Connections, Cancel(c)
  PROVE  Typed'
<1> USE Bounds DEF Typed, Cancel, linkFrame, object, fields, connections, links, readers,
        history, Attempting, Closing, Start
<1>1. ThreadTypes' /\ QueueTypes' /\ NumberTypes' /\ Places'
  BY DEF ThreadTypes, QueueTypes, NumberTypes, Places
<1>2. ReaderTypes' /\ SenderTypes' /\ HistoryTypes'
  BY DEF ReaderTypes, SenderTypes, HistoryTypes, SenderPlace
<1>3. Used'
  BY DEF Used, Writing
<1>4. LinkTypes'
  BY Rest DEF LinkTypes
<1>5. Fresh'
  BY Rest DEF Fresh, Connections, NumberTypes
<1> QED
  BY <1>1, <1>2, <1>3, <1>4, <1>5

LEMMA TypedDisconnected ==
  ASSUME Typed, NEW c \in Connections, Disconnected(c)
  PROVE  Typed'
<1>1. /\ UNCHANGED <<linkFrame, attempt>> /\ disconnect[c] = "running"
      /\ disconnect' = [disconnect EXCEPT ![c] = "over"] /\ remembered' \in {0, remembered}
      /\ \/ linked' = [linked EXCEPT ![c] = FALSE] /\ escaped' = escaped
         \/ linked' = linked /\ escaped' = escaped \cup {c}
  BY DEF Disconnected
<1>2. c \in 1 .. made /\ made \in Nat
  BY <1>1 DEF Typed, Fresh, NumberTypes, Connections
<1> USE <1>1 DEF Typed, linkFrame, object, fields, readers, history, Attempting, Closing
<1>3. ThreadTypes' /\ QueueTypes' /\ Places'
  BY DEF ThreadTypes, QueueTypes, Places
<1>4. ReaderTypes' /\ SenderTypes'
  BY DEF ReaderTypes, SenderTypes, SenderPlace
<1>5. HistoryTypes'
  BY <1>2 DEF HistoryTypes
<1>6. Used'
  BY DEF Used, Writing
<1>7. NumberTypes'
  BY DEF NumberTypes
<1>8. LinkTypes'
  BY DEF LinkTypes
<1>9. Fresh'
  BY <1>2 DEF Fresh, Connections, LinkTypes
<1> QED
  BY <1>3, <1>4, <1>5, <1>6, <1>7, <1>8, <1>9

LEMMA TypedLoseLink ==
  ASSUME Typed, NEW c \in Connections, LoseLink(c)
  PROVE  Typed'
<1> USE Bounds DEF Typed, LoseLink, linkFrame, object, fields, connections, links, readers,
        history, Attempting, Closing, Start
<1>1. ThreadTypes' /\ QueueTypes' /\ NumberTypes' /\ Places'
  BY DEF ThreadTypes, QueueTypes, NumberTypes, Places
<1>2. ReaderTypes' /\ SenderTypes' /\ HistoryTypes'
  BY DEF ReaderTypes, SenderTypes, HistoryTypes, SenderPlace
<1>3. Used'
  BY DEF Used, Writing
<1>4. LinkTypes'
  BY Rest DEF LinkTypes
<1>5. Fresh'
  BY Rest DEF Fresh, Connections, NumberTypes
<1> QED
  BY <1>1, <1>2, <1>3, <1>4, <1>5

LEMMA TypedInit == Init => Typed
<1> SUFFICES ASSUME Init PROVE Typed
  OBVIOUS
<1>1. queue = <<>> /\ unfinished = 0
  BY DEF Init
<1>2. QueueTypes
  BY <1>1 DEF QueueTypes
<1> USE Bounds DEF Init
<1>3. ThreadTypes
  BY DEF ThreadTypes
<1>4. NumberTypes /\ Places
  BY DEF NumberTypes, Places, Closing, Attempting
<1>5. LinkTypes /\ ReaderTypes /\ HistoryTypes
  BY DEF LinkTypes, ReaderTypes, HistoryTypes
<1>6. SenderTypes /\ Used
  BY DEF SenderTypes, SenderPlace, Exited, Used, Writing
<1>7. Fresh
  BY DEF Fresh
<1> QED
  BY <1>2, <1>3, <1>4, <1>5, <1>6, <1>7 DEF Typed

LEMMA TypedNext == Typed /\ [Next]_vars => Typed'
<1> SUFFICES ASSUME Typed, [Next]_vars PROVE Typed'
  OBVIOUS
<1>1. CASE GoOn
  BY <1>1, TypedReinitialise, TypedTryPort, TypedNoPort, TypedConnect, TypedConnectReturns,
     TypedConnectRaises, TypedConnectTimesOut, TypedConnectionIsUp, TypedNotUsable, TypedAbandoned,
     TypedAbandonTimesOut, TypedProbeTimesOut, TypedProbeAnswered, TypedDrainReceived,
     TypedJoinReader, TypedGiveUp, TypedFlush, TypedJoin DEF GoOn
<1>2. CASE Construct \/ Reselect \/ SwitchAway \/ Send \/ \E c \in Connections : Release(c) \/ Collect(c)
  BY <1>2, TypedConstruct, TypedReselect, TypedSwitchAway, TypedSend, TypedRelease, TypedCollect
<1>3. CASE SenderStep
  BY <1>3, TypedSenderExits, TypedTake, TypedSlotOpens, TypedGiveUpSlot, TypedResend,
     TypedResendRaises, TypedWriteReturns, TypedWriteRaises DEF SenderStep
<1>4. CASE ReaderStep
  BY <1>4, TypedReaderTakes, TypedDispatch, TypedReaderEnds DEF ReaderStep
<1>5. CASE LoopStep
  BY <1>5, TypedProgress, TypedCancel, TypedDisconnected, TypedLoseLink DEF LoopStep
<1>6. CASE UNCHANGED vars
  <2> USE <1>6 DEF vars, object, fields, connections, links, readers, history, Typed
  <2>1. ThreadTypes' /\ QueueTypes' /\ NumberTypes' /\ Places'
    BY DEF ThreadTypes, QueueTypes, NumberTypes, Places, Closing, Attempting
  <2>2. LinkTypes' /\ ReaderTypes' /\ SenderTypes' /\ HistoryTypes'
    BY DEF LinkTypes, ReaderTypes, SenderTypes, HistoryTypes, SenderPlace
  <2>3. Fresh' /\ Used'
    BY DEF Fresh, Used, Writing
  <2> QED
    BY <2>1, <2>2, <2>3
<1> QED
  BY <1>1, <1>2, <1>3, <1>4, <1>5, <1>6 DEF Next, MainStep

LEMMA AlwaysTyped == Spec => []Typed
  BY TypedInit, TypedNext, PTL DEF Spec

LEMMA TypedIsTypeOK == Typed => TypeOK
<1> SUFFICES ASSUME Typed PROVE TypeOK
  OBVIOUS
<1>1. ThreadTypes /\ QueueTypes /\ NumberTypes /\ LinkTypes /\ ReaderTypes /\ SenderTypes /\ HistoryTypes
  BY DEF Typed
<1>2. escaped \subseteq Connections
  BY <1>1, Bounds DEF HistoryTypes, NumberTypes, Connections
<1>3. {terminating, leaving, gate, gone} \subseteq BOOLEAN
  BY <1>1 DEF ThreadTypes
<1>4. {linked, skipped, stopped, closed} \subseteq [Connections -> BOOLEAN]
  BY <1>1 DEF LinkTypes, ReaderTypes
<1>5. {overran, escaped, impatient} \subseteq SUBSET Connections /\ releases \subseteq Connections
      /\ stalled \subseteq Sessions
  BY <1>1, <1>2 DEF HistoryTypes
<1>6. /\ session \in 0 .. MaxSessions /\ dev \in 0 .. made /\ made \in 0 .. MaxConnections
      /\ board \in 0 .. made /\ remembered \in 0 .. made
  BY <1>1 DEF NumberTypes
<1> QED
  BY <1>1, <1>3, <1>4, <1>5, <1>6
     DEF TypeOK, ThreadTypes, QueueTypes, LinkTypes, ReaderTypes, SenderTypes, SenderPlace

(* TypeOK: every field keeps its type, for every number of connections     *)
(* and of sessions; the connection in use is one that was made, and what   *)
(* is not made yet is untouched.                                           *)
THEOREM TypeCorrect == Spec => []TypeOK
  BY AlwaysTyped, TypedIsTypeOK, PTL

-----------------------------------------------------------------------------
(* One sender works on the object's queue.  The queue's count is what is   *)
(* queued and what the sender has in hand, so task_done does not raise and *)
(* the sender of the session is there until it is told to stop; those of   *)
(* earlier sessions have gone, unless one was held up in a write.          *)

Busy == IF sender[session].at \in {"slot", "resend", "write"} THEN 1 ELSE 0
Joined == main = "again" \/ (main \in {"drain", "reader"} /\ then # "port")

Senders ==
  /\ terminating => main \in {"off", "join"} \/ Joined
  /\ stalled = {} =>
       /\ \A s \in Sessions : s # session => ~Alive(s)
       /\ session >= 1 => unfinished = Len(queue) + Busy
       /\ session >= 1 /\ ~terminating => Alive(session)
       /\ Joined => ~Alive(session)

(* NVDA's thread goes on with the construction, or does not move.          *)
LEMMA SendersKept ==
  ASSUME Typed, Senders, UNCHANGED <<then, terminating, stalled, sender, session, queue, unfinished>>,
         \/ main' = main
         \/ main \in Attempting \cup {"port"} /\ main' \in Attempting \cup {"port", "failed"}
         \/ main = "failed" /\ main' = "off"
  PROVE  Senders'
  BY DEF Senders, Joined, Busy, Alive, Attempting

LEMMA SendersQueued ==
  ASSUME Typed, Senders, UNCHANGED <<then, terminating, stalled, sender, session>>,
         main \in {"services", "probe", "running"}, main' \in {"probe", "running"},
         Len(queue') = Len(queue) + 1, unfinished' = unfinished + 1
  PROVE  Senders'
<1>1. Len(queue) \in Nat /\ unfinished \in Nat
  BY DEF Typed, QueueTypes
<1> QED
  BY <1>1 DEF Senders, Joined, Busy, Alive

LEMMA SendersTerminate ==
  ASSUME Typed, Senders, NEW next \in {"again", "off"}, Terminate(next),
         main \in {"running", "failed"}
  PROVE  Senders'
<1>1. /\ UNCHANGED <<session, terminating, sender, stalled>> /\ ~terminating
      /\ main' \in {"flush", "failed", "off"} /\ then' \in {next, then}
      /\ \/ Len(queue) > unfinished
         \/ queue' = <<>> /\ unfinished' = unfinished - Len(queue)
  BY TerminateEffect DEF Senders, Joined
<1>2. Len(queue) \in Nat /\ unfinished \in Nat /\ session \in Nat
  BY DEF Typed, QueueTypes, NumberTypes
<1> QED
  BY <1>1, <1>2 DEF Senders, Joined, Busy, Alive

LEMMA SendersOpen ==
  ASSUME Typed, Senders,
         \/ TryPort \/ NoPort \/ Connect \/ ConnectReturns \/ ConnectRaises \/ ConnectTimesOut
         \/ NotUsable \/ Abandoned \/ AbandonTimesOut
  PROVE  Senders'
<1> USE SendersKept DEF object, fields, history, Attempting
<1>1. CASE TryPort
  BY <1>1 DEF TryPort
<1>2. CASE NoPort
  BY <1>2 DEF NoPort
<1>3. CASE Connect
  BY <1>3 DEF Connect
<1>4. CASE ConnectReturns
  BY <1>4 DEF ConnectReturns
<1>5. CASE ConnectRaises
  BY <1>5 DEF ConnectRaises
<1>6. CASE ConnectTimesOut
  BY <1>6 DEF ConnectTimesOut, Abandon
<1>7. CASE NotUsable
  BY <1>7 DEF NotUsable, Abandon
<1>8. CASE Abandoned
  BY <1>8 DEF Abandoned
<1>9. CASE AbandonTimesOut
  BY <1>9 DEF AbandonTimesOut
<1> QED
  BY <1>1, <1>2, <1>3, <1>4, <1>5, <1>6, <1>7, <1>8, <1>9

LEMMA SendersStart ==
  ASSUME Typed, Senders, Construct \/ Reinitialise
  PROVE  Senders'
<1>1. PICK n \in Sessions, others \in [Sessions -> SenderPlace] :
        /\ session' = n /\ sender' = [others EXCEPT ![n] = Idle]
        /\ \A s \in Sessions : stalled' = {} /\ s # n => others[s].at = "exited"
  <2>1. CASE Construct
    <3>1. 1 \in Sessions /\ [s \in Sessions |-> Exited] \in [Sessions -> SenderPlace]
      BY Bounds, Rest DEF Sessions, Typed
    <3> QED
      BY <2>1, <3>1 DEF Construct, Initialise, Exited
  <2>2. CASE Reinitialise
    <3>1. session + 1 \in Sessions /\ session \in Sessions
      BY <2>2, Bounds DEF Reinitialise, Typed, Places, NumberTypes, Sessions
    <3>2. stalled' = stalled /\ session' = session + 1 /\ sender' = [sender EXCEPT ![session + 1] = Idle]
      BY <2>2 DEF Reinitialise, Initialise, history
    <3>3. \A s \in Sessions : stalled = {} => ~Alive(s)
      BY <2>2 DEF Reinitialise, Senders, Joined
    <3> QED
      BY <3>1, <3>2, <3>3 DEF Typed, SenderTypes, Alive
  <2> QED
    BY <2>1, <2>2
<1>2. main' = "port" /\ terminating' = FALSE /\ queue' = <<>> /\ unfinished' = 0
  BY DEF Construct, Reinitialise, Initialise
<1>3. sender'[n] = Idle /\ \A s \in Sessions : s # n => sender'[s] = others[s]
  BY <1>1
<1> QED
  BY <1>1, <1>2, <1>3 DEF Senders, Joined, Busy, Alive, Idle

LEMMA SendersUp ==
  ASSUME Typed, Senders, ConnectionIsUp \/ ProbeAnswered \/ Send
  PROVE  Senders'
<1>1. queue \in Seq({"probe", "other"})
  BY DEF Typed, QueueTypes
<1> USE <1>1, SendersQueued DEF object, fields, history
<1>2. CASE ConnectionIsUp
  BY <1>2 DEF ConnectionIsUp
<1>3. CASE ProbeAnswered
  BY <1>3 DEF ProbeAnswered
<1>4. CASE Send
  BY <1>4 DEF Send
<1> QED
  BY <1>2, <1>3, <1>4

LEMMA SendersProbeTimesOut == Typed /\ Senders /\ ProbeTimesOut => Senders'
<1> SUFFICES ASSUME Typed, Senders, ProbeTimesOut PROVE Senders'
  OBVIOUS
<1>1. /\ UNCHANGED <<session, queue, unfinished, sender, terminating, stalled>>
      /\ main = "probe" /\ then' = "port" /\ Close(dev, "port")
  BY DEF ProbeTimesOut, history
<1>2. main' \in {"port", "drain"}
  BY <1>1, CloseEffect
<1> QED
  BY <1>1, <1>2 DEF Senders, Joined, Busy, Alive

LEMMA SendersReader ==
  ASSUME Typed, Senders, DrainReceived \/ JoinReader
  PROVE  Senders'
<1>1. UNCHANGED <<then, session, queue, unfinished, sender, terminating, stalled>>
  BY DEF DrainReceived, JoinReader, object, fields, history
<1>2. \/ main = "drain" /\ main' = "reader"
      \/ main = "reader" /\ main' = then /\ then \in {"off", "again", "port"}
  BY DEF DrainReceived, JoinReader, Typed, ThreadTypes
<1> QED
  BY <1>1, <1>2 DEF Senders, Joined, Busy, Alive

LEMMA SendersFlush == Typed /\ Senders /\ Flush => Senders'
<1> SUFFICES ASSUME Typed, Senders, Flush PROVE Senders'
  OBVIOUS
<1>1. /\ main' = "join" /\ terminating' = TRUE
      /\ UNCHANGED <<then, session, queue, unfinished, sender, stalled>>
  BY DEF Flush, history
<1> QED
  BY <1>1 DEF Senders, Joined, Busy, Alive

LEMMA SendersJoin == Typed /\ Senders /\ Join => Senders'
<1> SUFFICES ASSUME Typed, Senders, Join PROVE Senders'
  OBVIOUS
<1>1. /\ main = "join" /\ UNCHANGED <<then, session, queue, unfinished, sender, terminating>>
      /\ sender[session].at \in {"exited", "write", "resend"}
      /\ stalled' = IF Alive(session) THEN stalled \cup {session} ELSE stalled
      /\ Close(dev, then)
  BY DEF Join, JoinOver, Writing, Alive, object, fields
<1>2. main' = then \/ main' = "drain"
  BY <1>1, CloseEffect
<1>3. then \in {"off", "again"}
  BY <1>1 DEF Typed, ThreadTypes, Places
<1> QED
  BY <1>1, <1>2, <1>3 DEF Senders, Joined, Busy, Alive

LEMMA SendersEnd ==
  ASSUME Typed, Senders, Reselect \/ SwitchAway \/ GiveUp \/ \E c \in Connections : Release(c)
  PROVE  Senders'
<1>1. CASE Reselect \/ SwitchAway
  BY <1>1, SendersTerminate DEF Reselect, SwitchAway
<1>2. CASE GiveUp
  BY <1>2, SendersTerminate, SendersKept DEF GiveUp, object, fields, history
<1>3. ASSUME NEW c \in Connections, Release(c)
      PROVE  Senders'
  BY <1>3, SendersTerminate, SendersKept DEF Release, object, fields, history, Typed, Places
<1> QED
  BY <1>1, <1>2, <1>3

(* The sender is done with a packet: the count allows for it.              *)
LEMMA SendersDone ==
  ASSUME Typed, Senders, NEW s \in Sessions, sender[s].at \in {"slot", "resend", "write"}, Done(s),
         UNCHANGED <<main, then, terminating, stalled, session, queue>>
  PROVE  Senders'
<1>1. Len(queue) \in Nat /\ unfinished \in Nat /\ session \in Nat
  BY DEF Typed, QueueTypes, NumberTypes
<1>2. \A t \in Sessions : t # s => sender'[t] = sender[t]
  BY DEF Done, Typed, SenderTypes
<1>3. SUFFICES ASSUME stalled = {} PROVE Senders'
  BY <1>1 DEF Senders, Joined
<1>4. s = session /\ unfinished = Len(queue) + 1 /\ session >= 1
  BY <1>1, <1>3 DEF Senders, Alive, Busy, Sessions
<1>5. unfinished' = Len(queue) /\ sender'[s] = Idle /\ ~Joined
  BY <1>1, <1>3, <1>4 DEF Done, Typed, SenderTypes, Senders, Alive
<1> QED
  BY <1>1, <1>2, <1>3, <1>4, <1>5 DEF Senders, Joined, Busy, Alive, Idle

LEMMA SendersTake ==
  ASSUME Typed, Senders, NEW s \in Sessions, Take(s)
  PROVE  Senders'
<1>1. /\ UNCHANGED <<main, then, terminating, stalled, session>> /\ sender[s].at = "get"
      /\ ~terminating /\ queue # <<>> /\ queue' = Tail(queue)
      /\ \/ Done(s)
         \/ /\ sender' = [sender EXCEPT ![s].at = "slot", ![s].packet = Head(queue)]
            /\ unfinished' = unfinished
  BY DEF Take, history
<1>2. Len(queue) \in Nat \ {0} /\ Len(queue') = Len(queue) - 1 /\ unfinished \in Nat /\ session \in Nat
  BY <1>1 DEF Typed, QueueTypes, NumberTypes
<1>3. \A t \in Sessions : t # s => sender'[t] = sender[t]
  BY <1>1 DEF Done, Typed, SenderTypes
<1>4. SUFFICES ASSUME stalled = {} PROVE Senders'
  BY <1>1 DEF Senders, Joined
<1>5. s = session /\ unfinished = Len(queue) /\ session >= 1 /\ ~Joined
  BY <1>1, <1>2, <1>4 DEF Senders, Alive, Busy, Sessions
<1>6. \/ unfinished' = unfinished - 1 /\ sender'[s].at = "get"
      \/ unfinished' = unfinished /\ sender'[s].at = "slot"
  BY <1>1, <1>2, <1>5 DEF Done, Idle, Typed, SenderTypes, SenderPlace
<1>7. \A t \in Sessions : Alive(t)' <=> Alive(t)
  BY <1>1, <1>3, <1>6 DEF Alive
<1>8. unfinished' = Len(queue') + Busy'
  BY <1>1, <1>2, <1>5, <1>6 DEF Busy
<1>9. UNCHANGED Joined
  BY <1>1 DEF Joined
<1> QED
  BY <1>1, <1>5, <1>7, <1>8, <1>9 DEF Senders

LEMMA SendersSender ==
  ASSUME Typed, Senders, NEW s \in Sessions,
         \/ SenderExits(s) \/ SlotOpens(s) \/ GiveUpSlot(s)
         \/ Resend(s) \/ ResendReturns(s) \/ ResendRaises(s) \/ WriteReturns(s) \/ WriteRaises(s)
  PROVE  Senders'
<1>1. CASE SenderExits(s)
  <2>1. /\ UNCHANGED <<main, then, terminating, stalled, session, queue, unfinished>> /\ terminating
        /\ sender[s].at = "get" /\ sender' = [sender EXCEPT ![s] = Exited]
    BY <1>1 DEF SenderExits, fields, history
  <2> QED
    BY <2>1 DEF Senders, Joined, Busy, Alive, Exited, Typed, SenderTypes
<1>2. CASE SlotOpens(s) \/ Resend(s) \/ ResendReturns(s)
  <2>1. /\ UNCHANGED <<main, then, terminating, stalled, session, queue, unfinished>>
        /\ sender[s].at \in {"slot", "resend"}
        /\ \/ sender' = [sender EXCEPT ![s].at = "write", ![s].on = dev]
           \/ sender' = [sender EXCEPT ![s].at = "resend", ![s].on = dev]
           \/ sender' = [sender EXCEPT ![s].at = "slot"]
    BY <1>2 DEF SlotOpens, Resend, ResendReturns, fields, history
  <2>2. sender'[s].at \in {"slot", "resend", "write"} /\ \A t \in Sessions : t # s => sender'[t] = sender[t]
    BY <2>1 DEF Typed, SenderTypes, SenderPlace
  <2>3. \A t \in Sessions :
          sender'[t].at \in {"slot", "resend", "write"} <=> sender[t].at \in {"slot", "resend", "write"}
    BY <2>1, <2>2
  <2>4. \A t \in Sessions : Alive(t)' <=> Alive(t)
    BY <2>1, <2>2 DEF Alive
  <2>5. session >= 1 => session \in Sessions
    BY DEF Typed, NumberTypes, Sessions
  <2>6. session >= 1 => (Alive(session)' <=> Alive(session))
    BY <2>1, <2>4, <2>5 DEF Alive
  <2>7. UNCHANGED Joined /\ (session >= 1 => Busy' = Busy)
    BY <2>1, <2>3, <2>5 DEF Joined, Busy
  <2> QED
    BY <2>1, <2>4, <2>5, <2>6, <2>7 DEF Senders, Alive
<1>3. CASE GiveUpSlot(s)
  BY <1>3, SendersDone DEF GiveUpSlot, history
<1>4. CASE WriteReturns(s)
  BY <1>4, SendersDone DEF WriteReturns, history
<1>5. CASE ResendRaises(s) \/ WriteRaises(s)
  BY <1>5, SendersDone DEF ResendRaises, WriteRaises, history
<1> QED
  BY <1>1, <1>2, <1>3, <1>4, <1>5

LEMMA SendersNext == Typed /\ Senders /\ [Next]_vars => Senders'
<1> SUFFICES ASSUME Typed, Senders, [Next]_vars PROVE Senders'
  OBVIOUS
<1>1. CASE GoOn
  BY <1>1, SendersOpen, SendersStart, SendersUp, SendersProbeTimesOut, SendersReader, SendersEnd,
     SendersFlush, SendersJoin DEF GoOn
<1>2. CASE Construct \/ Reselect \/ SwitchAway \/ Send \/ \E c \in Connections : Release(c)
  BY <1>2, SendersStart, SendersEnd, SendersUp
<1>3. ASSUME NEW c \in Connections, Collect(c)
      PROVE  Senders'
  BY <1>3, SendersKept DEF Collect, object, fields, history
<1>4. CASE SenderStep
  BY <1>4, SendersTake, SendersSender DEF SenderStep
<1>5. CASE ReaderStep
  <2>1. UNCHANGED <<main, then, terminating, stalled, sender, session, queue, unfinished>>
    BY <1>5 DEF ReaderStep, ReaderTakes, Dispatch, ReaderEnds, object, fields, history
  <2> QED
    BY <2>1, SendersKept
<1>6. CASE LoopStep
  <2>1. UNCHANGED linkFrame
    BY <1>6 DEF LoopStep, Progress, Cancel, Disconnected, LoseLink
  <2> QED
    BY <2>1, SendersKept DEF linkFrame, object, fields
<1>7. CASE UNCHANGED vars
  BY <1>7, SendersKept DEF vars, object, fields, history
<1> QED
  BY <1>1, <1>2, <1>3, <1>4, <1>5, <1>6, <1>7 DEF Next, MainStep

LEMMA AlwaysSenders == Spec => []Senders
<1>1. Init => Senders
  BY DEF Init, Senders, Joined, Alive, Exited
<1> QED
  BY <1>1, SendersNext, AlwaysTyped, PTL DEF Spec

(* OneSender: while a display is opened or in use its queue has one        *)
(* sender, the one __init__ started, however often NVDA has opened the     *)
(* display again, unless one was held up in a write when it was closed.    *)
THEOREM OneSenderAlways == Spec => []OneSender
<1>1. Typed /\ Senders => OneSender
  BY DEF Typed, Places, Senders, OneSender, Joined
<1> QED
  BY <1>1, AlwaysTyped, AlwaysSenders, PTL

-----------------------------------------------------------------------------
(* No connection lingers.  A connection that is given up stays down: its   *)
(* link is gone or going, no attempt can bring it up, and its reader is    *)
(* stopped.  Every connection made has been given up so, except the one    *)
(* NVDA's thread has in hand.                                              *)

LinkDown(c) ==
  /\ linked[c] => disconnect[c] = "running"
  /\ attempt[c] = "connecting" => disconnect[c] # "none"

Settled(c) == c \in escaped \/ (LinkDown(c) /\ stopped[c])

InHand(c) ==
  \/ main \in Attempting /\ c = made
  \/ main \in {"probe", "running", "flush", "join"} /\ c = dev /\ ~closed[c]
  \/ main = "drain" /\ c = dev

LinkSafe(c) ==
  /\ disconnect[c] = "over" /\ linked[c] => c \in escaped
  /\ closed[c] /\ c \notin escaped => LinkDown(c) /\ (stopped[c] \/ (main = "drain" /\ c = dev))
  /\ c <= made => Settled(c) \/ InHand(c)

(* What is known of the connection that is in hand.                        *)
HandSafe ==
  /\ dev >= 1 => attempt[dev] = "done"
  /\ main = "services" => attempt[made] = "done"
  /\ dev >= 1 /\ ~closed[dev] => disconnect[dev] = "none"
  /\ main \in Attempting => ~closed[made]
  /\ main \in Attempting \ {"abandon"} => made \notin escaped /\ disconnect[made] = "none"
  /\ main = "abandon" => stopped[made] /\ disconnect[made] # "none"
  /\ main \in {"drain", "reader"} => closed[dev]

Links == HandSafe /\ \A c \in Connections : LinkSafe(c)

(* NVDA's thread moves on, and nothing is in hand before or after.         *)
LEMMA LinksKept ==
  ASSUME Typed, Links,
         UNCHANGED <<made, dev, attempt, linked, disconnect, escaped, stopped, closed>>,
         \/ main' = main
         \/ main \in {"off", "again", "port", "failed"} /\ main' \in {"off", "again", "port", "failed"}
         \/ main = "connect" /\ main' = "services" /\ attempt[made] = "done"
         \/ main \in {"probe", "running", "flush", "join"} /\ main' \in {"running", "flush", "join"}
         \/ main = "failed" /\ main' = "flush"
         \/ main = "reader" /\ main' \in {"off", "again", "port"}
  PROVE  Links'
<1>1. HandSafe'
  BY DEF Links, HandSafe, Attempting
<1>2. ASSUME NEW c \in Connections
      PROVE  LinkSafe(c)'
  BY DEF Links, LinkSafe, LinkDown, Settled, InHand, Attempting
<1> QED
  BY <1>1, <1>2 DEF Links

LEMMA LinksTerminate ==
  ASSUME Typed, Links, NEW next \in {"again", "off"}, Terminate(next),
         main \in {"running", "failed"}
  PROVE  Links'
<1>1. /\ UNCHANGED <<made, dev, attempt, linked, disconnect, stopped, closed>>
      /\ \/ main' = "flush" /\ escaped' = escaped
         \/ main' \in {"failed", "off"} /\ escaped' = escaped \cup {dev}
  BY TerminateEffect
<1>2. CASE main' = "flush" /\ escaped' = escaped
  BY <1>1, <1>2, LinksKept
<1>3. CASE main' \in {"failed", "off"} /\ escaped' = escaped \cup {dev}
  <2>1. HandSafe'
    BY <1>1, <1>3 DEF Links, HandSafe, Attempting
  <2>2. ASSUME NEW c \in Connections
        PROVE  LinkSafe(c)'
    BY <1>1, <1>3 DEF Links, LinkSafe, LinkDown, Settled, InHand, Attempting
  <2> QED
    BY <2>1, <2>2 DEF Links
<1> QED
  BY <1>1, <1>2, <1>3

LEMMA LinksClose ==
  ASSUME Typed, Links, NEW next \in {"off", "again", "port"}, Close(dev, next),
         main \in {"probe", "join"},
         UNCHANGED <<made, dev, attempt, linked, escaped, stopped>>
  PROVE  Links'
<1>1. CASE (dev = 0 \/ closed[dev]) /\ main' = next /\ UNCHANGED <<disconnect, closed>>
  <2>1. HandSafe'
    BY <1>1 DEF Links, HandSafe, Attempting
  <2>2. ASSUME NEW c \in Connections
        PROVE  LinkSafe(c)'
    <3>1. c # 0
      BY DEF Connections
    <3> QED
      BY <1>1, <3>1 DEF Links, LinkSafe, LinkDown, Settled, InHand, Attempting
  <2> QED
    BY <2>1, <2>2 DEF Links
<1>2. CASE /\ dev \in Connections /\ ~closed[dev] /\ main' = "drain"
           /\ closed' = [closed EXCEPT ![dev] = TRUE]
           /\ \/ linked[dev] /\ disconnect' = [disconnect EXCEPT ![dev] = "running"]
              \/ ~linked[dev] /\ disconnect' = disconnect
  <2>1. /\ closed'[dev] = TRUE
        /\ linked[dev] => disconnect'[dev] = "running"
        /\ disconnect'[dev] = "running" \/ disconnect'[dev] = disconnect[dev]
        /\ \A c \in Connections : c # dev => closed'[c] = closed[c] /\ disconnect'[c] = disconnect[c]
    BY <1>2 DEF Typed, LinkTypes
  <2>2. attempt[dev] = "done"
    BY <1>2 DEF Links, HandSafe, Connections
  <2>3. HandSafe'
    BY <1>2, <2>1 DEF Links, HandSafe, Attempting
  <2>4. ASSUME NEW c \in Connections
        PROVE  LinkSafe(c)'
    <3>1. CASE c = dev
      BY <1>2, <2>1, <2>2, <3>1 DEF Links, LinkSafe, LinkDown, Settled, InHand, Attempting
    <3>2. CASE c # dev
      BY <1>2, <2>1, <3>2 DEF Links, LinkSafe, LinkDown, Settled, InHand, Attempting
    <3> QED
      BY <3>1, <3>2
  <2> QED
    BY <2>3, <2>4 DEF Links
<1> QED
  BY <1>1, <1>2, CloseEffect

(* An attempt is given up: its reader is stopped and its disconnect asked  *)
(* for.                                                                    *)
LEMMA LinksAbandon ==
  ASSUME Typed, Links, Abandon(made), main \in {"connect", "services"},
         UNCHANGED <<made, dev, attempt, linked, escaped, closed>>
  PROVE  Links'
<1>1. made \in Connections
  BY Bounds DEF Typed, Places, NumberTypes, Attempting, Connections
<1>2. /\ main' = "abandon" /\ stopped'[made] = TRUE /\ disconnect'[made] = "asked"
      /\ \A c \in Connections : c # made => stopped'[c] = stopped[c] /\ disconnect'[c] = disconnect[c]
  BY <1>1 DEF Abandon, Start, Typed, LinkTypes, ReaderTypes
<1>3. HandSafe'
  <2>1. dev < made /\ dev \in Nat /\ made \in Nat /\ (dev >= 1 => dev \in Connections)
    BY Bounds DEF Typed, Places, NumberTypes, Attempting, Connections
  <2> QED
    BY <1>2, <2>1 DEF Links, HandSafe, Attempting
<1>4. ASSUME NEW c \in Connections
      PROVE  LinkSafe(c)'
  <2>1. CASE c = made
    BY <1>2, <2>1 DEF Links, HandSafe, LinkSafe, InHand, Attempting
  <2>2. CASE c # made
    BY <1>2, <2>2 DEF Links, LinkSafe, LinkDown, Settled, InHand, Attempting
  <2> QED
    BY <2>1, <2>2
<1> QED
  BY <1>3, <1>4 DEF Links

LEMMA LinksTryPort == Typed /\ Links /\ TryPort => Links'
<1> SUFFICES ASSUME Typed, Links, TryPort PROVE Links'
  OBVIOUS
<1>1. /\ main = "port" /\ main' = "await" /\ made' = made + 1
      /\ UNCHANGED <<dev, attempt, linked, disconnect, escaped, stopped, closed>>
  BY DEF TryPort, links, history
<1>2. made' \in Connections /\ made \in Nat /\ escaped \subseteq 1 .. made
  BY Bounds DEF TryPort, Typed, NumberTypes, HistoryTypes, Connections
<1>3. HandSafe'
  BY <1>1, <1>2 DEF Links, HandSafe, Attempting, Typed, Fresh
<1>4. ASSUME NEW c \in Connections
      PROVE  LinkSafe(c)'
  <2>1. c <= made' => c <= made \/ c = made'
    BY <1>1, <1>2 DEF Connections
  <2> QED
    BY <1>1, <2>1 DEF Links, LinkSafe, LinkDown, Settled, InHand, Attempting
<1> QED
  BY <1>3, <1>4 DEF Links

LEMMA LinksConnect == Typed /\ Links /\ Connect => Links'
<1> SUFFICES ASSUME Typed, Links, Connect PROVE Links'
  OBVIOUS
<1>1. /\ main = "await" /\ main' = "connect" /\ attempt' = [attempt EXCEPT ![made] = "connecting"]
      /\ UNCHANGED <<made, dev, linked, disconnect, escaped, stopped, closed>>
  BY DEF Connect, object, fields, readers
<1>2. dev < made /\ dev \in Nat /\ made \in Nat /\ (dev >= 1 => dev \in Connections)
  BY <1>1, Bounds DEF Typed, Places, NumberTypes, Attempting, Connections
<1>3. \A c \in Connections : c # made => attempt'[c] = attempt[c]
  BY <1>1 DEF Typed, LinkTypes
<1>4. HandSafe'
  BY <1>1, <1>2, <1>3 DEF Links, HandSafe, Attempting
<1>5. ASSUME NEW c \in Connections
      PROVE  LinkSafe(c)'
  <2>1. CASE c = made
    BY <1>1, <2>1 DEF Links, HandSafe, LinkSafe, InHand, Attempting
  <2>2. CASE c # made
    BY <1>1, <1>3, <2>2 DEF Links, LinkSafe, LinkDown, Settled, InHand, Attempting
  <2> QED
    BY <2>1, <2>2
<1> QED
  BY <1>4, <1>5 DEF Links

LEMMA LinksConnectRaises == Typed /\ Links /\ ConnectRaises => Links'
<1> SUFFICES ASSUME Typed, Links, ConnectRaises PROVE Links'
  OBVIOUS
<1>1. /\ main = "connect" /\ main' = "failed" /\ escaped' = escaped \cup {made}
      /\ UNCHANGED <<made, dev, attempt, linked, disconnect, stopped, closed>>
  BY DEF ConnectRaises, object, fields, connections, links, readers
<1>2. HandSafe'
  BY <1>1 DEF Links, HandSafe, Attempting
<1>3. ASSUME NEW c \in Connections
      PROVE  LinkSafe(c)'
  BY <1>1 DEF Links, LinkSafe, LinkDown, Settled, InHand, Attempting
<1> QED
  BY <1>2, <1>3 DEF Links

LEMMA LinksConnectionIsUp == Typed /\ Links /\ ConnectionIsUp => Links'
<1> SUFFICES ASSUME Typed, Links, ConnectionIsUp PROVE Links'
  OBVIOUS
<1>1. /\ main = "services" /\ main' = "probe" /\ dev' = made
      /\ UNCHANGED <<made, attempt, linked, disconnect, escaped, stopped, closed>>
  BY DEF ConnectionIsUp, connections, links, readers, history
<1>2. HandSafe'
  BY <1>1 DEF Links, HandSafe, Attempting
<1>3. ASSUME NEW c \in Connections
      PROVE  LinkSafe(c)'
  BY <1>1 DEF Links, HandSafe, LinkSafe, LinkDown, Settled, InHand, Attempting
<1> QED
  BY <1>2, <1>3 DEF Links

LEMMA LinksAbandoned == Typed /\ Links /\ Abandoned => Links'
<1> SUFFICES ASSUME Typed, Links, Abandoned PROVE Links'
  OBVIOUS
<1>1. /\ main = "abandon" /\ main' = "port" /\ disconnect[made] = "over"
      /\ UNCHANGED <<made, dev, attempt, linked, disconnect, escaped, stopped, closed>>
  BY DEF Abandoned, object, fields, connections, links, readers, history
<1>2. HandSafe'
  BY <1>1 DEF Links, HandSafe, Attempting
<1>3. ASSUME NEW c \in Connections
      PROVE  LinkSafe(c)'
  BY <1>1 DEF Links, HandSafe, LinkSafe, LinkDown, Settled, InHand, Attempting
<1> QED
  BY <1>2, <1>3 DEF Links

LEMMA LinksAbandonTimesOut == Typed /\ Links /\ AbandonTimesOut => Links'
<1> SUFFICES ASSUME Typed, Links, AbandonTimesOut PROVE Links'
  OBVIOUS
<1>1. /\ main = "abandon" /\ main' = "port" /\ escaped' = escaped \cup {made}
      /\ disconnect' = [disconnect EXCEPT ![made] = "over"]
      /\ attempt' = [attempt EXCEPT ![made] = "failed"]
      /\ UNCHANGED <<made, dev, linked, stopped, closed>>
  BY DEF AbandonTimesOut, object, fields, readers
<1>2. dev < made /\ dev \in Nat /\ made \in Nat /\ (dev >= 1 => dev \in Connections)
  BY <1>1, Bounds DEF Typed, Places, NumberTypes, Attempting, Connections
<1>3. \A c \in Connections : c # made => attempt'[c] = attempt[c] /\ disconnect'[c] = disconnect[c]
  BY <1>1 DEF Typed, LinkTypes
<1>4. HandSafe'
  BY <1>1, <1>2, <1>3 DEF Links, HandSafe, Attempting
<1>5. ASSUME NEW c \in Connections
      PROVE  LinkSafe(c)'
  <2>1. CASE c = made
    BY <1>1, <2>1 DEF LinkSafe, Settled
  <2>2. CASE c # made
    BY <1>1, <1>3, <2>2 DEF Links, LinkSafe, LinkDown, Settled, InHand, Attempting
  <2> QED
    BY <2>1, <2>2
<1> QED
  BY <1>4, <1>5 DEF Links

LEMMA LinksDrainReceived == Typed /\ Links /\ DrainReceived => Links'
<1> SUFFICES ASSUME Typed, Links, DrainReceived PROVE Links'
  OBVIOUS
<1>1. /\ main = "drain" /\ main' = "reader" /\ stopped' = [stopped EXCEPT ![dev] = TRUE]
      /\ UNCHANGED <<made, dev, attempt, linked, disconnect, escaped, closed>>
  BY DEF DrainReceived, object, fields, links, history, Start
<1>2. \A c \in Connections : stopped'[c] = (stopped[c] \/ c = dev)
  BY <1>1 DEF Typed, ReaderTypes
<1>3. HandSafe'
  BY <1>1 DEF Links, HandSafe, Attempting
<1>4. ASSUME NEW c \in Connections
      PROVE  LinkSafe(c)'
  BY <1>1, <1>2 DEF Links, HandSafe, LinkSafe, LinkDown, Settled, InHand, Attempting
<1> QED
  BY <1>3, <1>4 DEF Links

LEMMA LinksConstruct == Typed /\ Links /\ Construct => Links'
<1> SUFFICES ASSUME Typed, Links, Construct PROVE Links'
  OBVIOUS
<1>1. /\ main = "off" /\ main' = "port" /\ dev' = 0
      /\ UNCHANGED <<made, attempt, linked, disconnect, escaped, stopped, closed>>
  BY DEF Construct, Initialise, links
<1>2. HandSafe'
  BY <1>1 DEF Links, HandSafe, Attempting
<1>3. ASSUME NEW c \in Connections
      PROVE  LinkSafe(c)'
  BY <1>1 DEF Links, LinkSafe, LinkDown, Settled, InHand, Attempting
<1> QED
  BY <1>2, <1>3 DEF Links

LEMMA LinksCollect ==
  ASSUME Typed, Links, NEW c \in Connections, Collect(c)
  PROVE  Links'
<1>1. /\ c \in escaped /\ main # "abandon"
      /\ UNCHANGED <<main, made, dev, attempt, linked, escaped>>
      /\ closed' = [closed EXCEPT ![c] = TRUE] /\ stopped' = [stopped EXCEPT ![c] = TRUE]
      /\ disconnect' = [disconnect EXCEPT ![c] = IF linked[c] THEN "running" ELSE @]
  BY DEF Collect, Disconnect, Start, object, fields, history
<1>2. /\ closed'[c] = TRUE /\ stopped'[c] = TRUE /\ disconnect'[c] \in {"running", disconnect[c]}
      /\ \A d \in Connections : d # c =>
           closed'[d] = closed[d] /\ stopped'[d] = stopped[d] /\ disconnect'[d] = disconnect[d]
  BY <1>1 DEF Typed, LinkTypes, ReaderTypes
<1>3. made \in Connections \/ main \notin Attempting
  BY Bounds DEF Typed, Places, NumberTypes, Connections
<1>4. dev \in Connections \/ (dev = 0 /\ main \notin {"drain", "reader"})
  BY Bounds DEF Typed, Places, NumberTypes, Connections
<1>5. HandSafe'
  BY <1>1, <1>2, <1>3, <1>4 DEF Links, HandSafe, Attempting
<1>6. ASSUME NEW d \in Connections
      PROVE  LinkSafe(d)'
  <2>1. CASE d = c
    BY <1>1, <2>1 DEF LinkSafe, Settled
  <2>2. CASE d # c
    BY <1>1, <1>2, <2>2 DEF Links, LinkSafe, LinkDown, Settled, InHand, Attempting
  <2> QED
    BY <2>1, <2>2
<1> QED
  BY <1>5, <1>6 DEF Links

LEMMA LinksLoop ==
  ASSUME Typed, Links, NEW c \in Connections, Progress(c) \/ Cancel(c) \/ Disconnected(c) \/ LoseLink(c)
  PROVE  Links'
<1>1. /\ UNCHANGED <<main, made, dev, stopped, closed>>
      /\ \/ escaped' = escaped
         \/ escaped' = escaped \cup {c} /\ disconnect[c] = "running" /\ ~closed[c]
  BY DEF Progress, Cancel, Disconnected, LoseLink, linkFrame, object, fields, readers
<1>2. /\ attempt[c] = "done" => attempt'[c] = "done"
      /\ attempt'[c] = "connecting" => attempt[c] = "connecting"
      /\ disconnect[c] # "none" => disconnect'[c] # "none"
      /\ \A d \in Connections : d # c =>
           attempt'[d] = attempt[d] /\ disconnect'[d] = disconnect[d] /\ linked'[d] = linked[d]
      /\ \/ ~linked'[c]
         \/ linked[c] /\ disconnect'[c] = disconnect[c]
         \/ linked[c] /\ disconnect'[c] = "running"
         \/ attempt[c] = "connecting" /\ disconnect[c] = "none" /\ disconnect'[c] = "none"
         \/ c \in escaped'
      /\ disconnect[c] = "none" => disconnect'[c] = "none"
  <2>1. CASE Progress(c)
    <3>1. /\ disconnect' = disconnect /\ attempt[c] \in {"connecting", "subscribing"}
          /\ \E how \in {"subscribing", "failed", "timed out", "done"} : attempt' = [attempt EXCEPT ![c] = how]
          /\ \/ linked' = linked
             \/ attempt[c] = "connecting" /\ disconnect[c] = "none" /\ linked' = [linked EXCEPT ![c] = TRUE]
      BY <2>1 DEF Progress, Start
    <3> QED
      BY <3>1 DEF Typed, LinkTypes
  <2>2. CASE Cancel(c)
    <3>1. /\ linked' = linked /\ disconnect[c] = "asked" /\ disconnect' = [disconnect EXCEPT ![c] = "running"]
          /\ attempt' = [attempt EXCEPT ![c] = IF @ = "done" THEN "done" ELSE "failed"]
      BY <2>2 DEF Cancel
    <3> QED
      BY <3>1 DEF Typed, LinkTypes
  <2>3. CASE Disconnected(c) \/ LoseLink(c)
    <3>1. /\ attempt' = attempt
          /\ \/ linked' = [linked EXCEPT ![c] = FALSE]
             \/ linked' = linked /\ c \in escaped'
          /\ \/ disconnect' = disconnect
             \/ disconnect[c] = "running" /\ disconnect' = [disconnect EXCEPT ![c] = "over"]
      BY <2>3 DEF Disconnected, LoseLink
    <3> QED
      BY <3>1 DEF Typed, LinkTypes
  <2> QED
    BY <2>1, <2>2, <2>3
<1>3. made \in Connections \/ main \notin Attempting
  BY Bounds DEF Typed, Places, NumberTypes, Connections
<1>4. dev \in Connections \/ dev = 0
  BY Bounds DEF Typed, Places, NumberTypes, Connections
<1>5. HandSafe'
  BY <1>1, <1>2, <1>3, <1>4 DEF Links, HandSafe, Attempting
<1>6. ASSUME NEW d \in Connections
      PROVE  LinkSafe(d)'
  <2>1. CASE d = c
    BY <1>1, <1>2, <2>1 DEF Links, LinkSafe, LinkDown, Settled, InHand
  <2>2. CASE d # c
    BY <1>1, <1>2, <2>2 DEF Links, LinkSafe, LinkDown, Settled, InHand
  <2> QED
    BY <2>1, <2>2
<1> QED
  BY <1>5, <1>6 DEF Links

LEMMA LinksNext == Typed /\ Links /\ [Next]_vars => Links'
<1> SUFFICES ASSUME Typed, Links, [Next]_vars PROVE Links'
  OBVIOUS
<1> USE DEF object, fields, connections, links, readers, history
<1>1. CASE Reinitialise \/ NoPort \/ ConnectReturns \/ ProbeAnswered \/ JoinReader \/ Flush
  <2>1. UNCHANGED <<made, dev, attempt, linked, disconnect, escaped, stopped, closed>>
    BY <1>1 DEF Reinitialise, Initialise, NoPort, ConnectReturns, ProbeAnswered, JoinReader, Flush
  <2>2. \/ main \in {"again", "port"} /\ main' \in {"port", "failed"}
        \/ main = "connect" /\ main' = "services" /\ attempt[made] = "done"
        \/ main \in {"probe", "flush"} /\ main' \in {"running", "join"}
        \/ main = "reader" /\ main' \in {"off", "again", "port"}
    BY <1>1 DEF Reinitialise, Initialise, NoPort, ConnectReturns, ProbeAnswered, JoinReader, Flush,
       Typed, ThreadTypes
  <2> QED
    BY <2>1, <2>2, LinksKept
<1>2. CASE TryPort \/ Connect \/ ConnectRaises \/ ConnectionIsUp \/ Abandoned \/ AbandonTimesOut
  BY <1>2, LinksTryPort, LinksConnect, LinksConnectRaises, LinksConnectionIsUp, LinksAbandoned,
     LinksAbandonTimesOut
<1>3. CASE ConnectTimesOut \/ NotUsable
  BY <1>3, LinksAbandon DEF ConnectTimesOut, NotUsable
<1>4. CASE ProbeTimesOut
  BY <1>4, LinksClose DEF ProbeTimesOut
<1>5. CASE Join
  <2>1. then \in {"off", "again", "port"}
    BY DEF Typed, ThreadTypes
  <2> QED
    BY <1>5, <2>1, LinksClose DEF Join
<1>6. CASE DrainReceived \/ Construct
  BY <1>6, LinksDrainReceived, LinksConstruct
<1>7. CASE Reselect \/ SwitchAway
  BY <1>7, LinksTerminate DEF Reselect, SwitchAway
<1>8. CASE GiveUp
  BY <1>8, LinksTerminate, LinksKept DEF GiveUp
<1>9. ASSUME NEW c \in Connections, Release(c)
      PROVE  Links'
  BY <1>9, LinksTerminate, LinksKept DEF Release, Typed, Places
<1>10. ASSUME NEW c \in Connections, Collect(c)
       PROVE  Links'
  BY <1>10, LinksCollect
<1>11. CASE Send \/ SenderStep \/ ReaderStep \/ UNCHANGED vars
  <2>1. UNCHANGED <<main, made, dev, attempt, linked, disconnect, escaped, stopped, closed>>
    <3>1. CASE Send \/ UNCHANGED vars
      BY <3>1 DEF Send, vars
    <3>2. CASE SenderStep
      BY <3>2 DEF SenderStep, SenderExits, Take, SlotOpens, GiveUpSlot, Resend, ResendReturns, ResendRaises,
         WriteReturns, WriteRaises
    <3>3. CASE ReaderStep
      BY <3>3 DEF ReaderStep, ReaderTakes, Dispatch, ReaderEnds
    <3> QED
      BY <1>11, <3>1, <3>2, <3>3
  <2> QED
    BY <2>1, LinksKept
<1>12. CASE LoopStep
  BY <1>12, LinksLoop DEF LoopStep
<1> HIDE DEF object, fields, connections, links, readers, history
<1> QED
  BY <1>1, <1>2, <1>3, <1>4, <1>5, <1>6, <1>7, <1>8, <1>9, <1>10, <1>11, <1>12 DEF Next, MainStep, GoOn

LEMMA AlwaysLinks == Spec => []Links
<1>1. Init => Links
  BY DEF Init, Links, HandSafe, LinkSafe, LinkDown, Settled, InHand, Attempting, Connections
<1> QED
  BY <1>1, LinksNext, AlwaysTyped, PTL DEF Spec

(* NoLingering: when nothing is being opened or closed, no connection but  *)
(* the one in use is up, or comes up, and its reader has been told to stop,*)
(* after every failure of an attempt and in whatever order the event loop  *)
(* answers; but for the ways out of an attempt that leave one.             *)
THEOREM NothingLingers == Spec => []NoLingering
<1>1. Typed /\ Links => NoLingering
  <2> SUFFICES ASSUME Typed, Links, main \in {"off", "again", "port", "running"}, NEW c \in 1 .. made
               PROVE  \/ c \in escaped \/ (main = "running" /\ c = dev)
                      \/ (linked[c] => disconnect[c] = "running") /\ stopped[c]
    BY DEF NoLingering
  <2>1. c \in Connections /\ c <= made
    BY Bounds DEF Typed, NumberTypes, Connections
  <2> QED
    BY <2>1 DEF Links, LinkSafe, Settled, InHand, LinkDown, Attempting
<1> QED
  BY <1>1, AlwaysTyped, AlwaysLinks, PTL

-----------------------------------------------------------------------------
(* The device is connected to when nothing of it is being disconnected.    *)
(* Unless a connection did not wait, or one got away, a disconnect that is *)
(* under way is the one remembered, or that of the attempt being given up; *)
(* and from an attempt to the close of its connection there is no other.   *)

Unhurried == impatient = {} /\ escaped = {}
Going(c) == disconnect[c] \in {"asked", "running"}

(* NVDA's thread is at work on the newest connection, which is open.       *)
Open ==
  \/ main \in {"connect", "services", "abandon"}
  \/ main \in {"probe", "running", "flush", "join"} /\ ~closed[dev]

Quiet ==
  /\ \A c \in Connections :
       attempt[c] = "connecting" =>
         c = made /\ (main = "connect" \/ (main = "abandon" /\ disconnect[c] = "asked"))
  /\ Unhurried =>
       /\ \A c \in Connections : Going(c) => remembered = c \/ (main = "abandon" /\ c = made)
       /\ Open => \A c \in Connections : c # made => ~Going(c)
       /\ main \in {"probe", "running", "flush", "join"} /\ ~closed[dev] => dev = made
       /\ main \notin {"probe", "running", "flush", "join"} => dev = 0 \/ closed[dev]

LEMMA QuietKept ==
  ASSUME Typed, Quiet,
         UNCHANGED <<made, dev, attempt, disconnect, escaped, impatient, closed, remembered>>,
         \/ main' = main
         \/ main \in {"off", "again", "port", "failed", "reader", "drain"}
            /\ main' \in {"off", "again", "port", "failed", "reader"}
         \/ main \in {"probe", "running", "flush"} /\ main' \in {"running", "flush", "join"}
         \/ main = "connect" /\ attempt[made] # "connecting" /\ main' = "services"
  PROVE  Quiet'
  BY DEF Quiet, Unhurried, Going, Open, Attempting

LEMMA QuietTerminate ==
  ASSUME Typed, Quiet, NEW next \in {"again", "off"}, Terminate(next),
         main \in {"running", "failed"}, dev >= 1
  PROVE  Quiet'
<1>1. /\ UNCHANGED <<made, dev, attempt, disconnect, impatient, closed, remembered>>
      /\ \/ main' = "flush" /\ escaped' = escaped
         \/ main' \in {"failed", "off"} /\ escaped' = escaped \cup {dev}
  BY TerminateEffect
<1> QED
  BY <1>1 DEF Quiet, Unhurried, Going, Open

LEMMA QuietClose ==
  ASSUME Typed, Quiet, NEW next \in {"off", "again", "port"}, Close(dev, next),
         main \in {"probe", "join"},
         UNCHANGED <<made, dev, attempt, escaped, impatient>>
  PROVE  Quiet'
<1>1. CASE (dev = 0 \/ closed[dev]) /\ main' = next /\ UNCHANGED <<disconnect, remembered, closed>>
  BY <1>1 DEF Quiet, Unhurried, Going, Open
<1>2. CASE /\ dev \in Connections /\ ~closed[dev] /\ main' = "drain"
           /\ closed' = [closed EXCEPT ![dev] = TRUE]
           /\ linked[dev] /\ remembered' = dev /\ disconnect' = [disconnect EXCEPT ![dev] = "running"]
  <2>1. closed'[dev] = TRUE /\ \A c \in Connections : c # dev => disconnect'[c] = disconnect[c]
    BY <1>2 DEF Typed, LinkTypes
  <2> QED
    BY <1>2, <2>1 DEF Quiet, Unhurried, Going, Open
<1>3. CASE /\ dev \in Connections /\ ~closed[dev] /\ main' = "drain"
           /\ closed' = [closed EXCEPT ![dev] = TRUE]
           /\ UNCHANGED <<disconnect, remembered>>
  <2>1. closed'[dev] = TRUE
    BY <1>3 DEF Typed, LinkTypes
  <2> QED
    BY <1>3, <2>1 DEF Quiet, Unhurried, Going, Open
<1> QED
  BY <1>1, <1>2, <1>3, CloseEffect

LEMMA QuietAbandon ==
  ASSUME Typed, Quiet, Abandon(made), main \in {"connect", "services"},
         UNCHANGED <<made, dev, attempt, escaped, impatient, closed, remembered>>
  PROVE  Quiet'
<1>1. made \in Connections
  BY Bounds DEF Typed, Places, NumberTypes, Attempting, Connections
<1>2. /\ main' = "abandon" /\ disconnect'[made] = "asked"
      /\ \A c \in Connections : c # made => disconnect'[c] = disconnect[c]
  BY <1>1 DEF Abandon, Typed, LinkTypes
<1> QED
  BY <1>2 DEF Quiet, Unhurried, Going, Open

LEMMA QuietOpens ==
  ASSUME Typed, Quiet, TryPort \/ Connect \/ ConnectRaises \/ ConnectionIsUp
  PROVE  Quiet'
<1>1. CASE TryPort
  <2>1. /\ main = "port" /\ main' = "await"
        /\ UNCHANGED <<dev, attempt, disconnect, escaped, impatient, closed, remembered>>
    BY <1>1 DEF TryPort, links, history
  <2> QED
    BY <2>1 DEF Quiet, Unhurried, Going, Open
<1>2. CASE Connect
  <2>1. /\ main = "await" /\ main' = "connect" /\ attempt' = [attempt EXCEPT ![made] = "connecting"]
        /\ impatient' = IF remembered = 0 THEN impatient ELSE impatient \cup {made}
        /\ UNCHANGED <<made, dev, disconnect, escaped, closed, remembered>>
    BY <1>2 DEF Connect, object, fields
  <2>2. \A c \in Connections : c # made => attempt'[c] = attempt[c]
    BY <2>1 DEF Typed, LinkTypes
  <2>3. \A c \in Connections : c # 0
    BY DEF Connections
  <2> QED
    BY <2>1, <2>2, <2>3 DEF Quiet, Unhurried, Going, Open
<1>3. CASE ConnectRaises
  <2>1. /\ main = "connect" /\ attempt[made] = "failed" /\ main' = "failed"
        /\ escaped' = escaped \cup {made} /\ UNCHANGED <<made, attempt, disconnect>>
    BY <1>3 DEF ConnectRaises, connections, links
  <2> QED
    BY <2>1 DEF Quiet, Unhurried
<1>4. CASE ConnectionIsUp
  <2>1. /\ main = "services" /\ main' = "probe" /\ dev' = made
        /\ UNCHANGED <<made, attempt, disconnect, escaped, impatient, closed, remembered>>
    BY <1>4 DEF ConnectionIsUp, connections, links, history
  <2> QED
    BY <2>1 DEF Quiet, Unhurried, Going, Open
<1> QED
  BY <1>1, <1>2, <1>3, <1>4

LEMMA QuietAbandoned ==
  ASSUME Typed, Quiet, Abandoned \/ AbandonTimesOut
  PROVE  Quiet'
<1>1. made \in Connections
  BY Bounds DEF Abandoned, AbandonTimesOut, Typed, Places, NumberTypes, Attempting, Connections
<1>2. CASE Abandoned
  <2>1. /\ main = "abandon" /\ main' = "port" /\ disconnect[made] = "over"
        /\ UNCHANGED <<made, dev, attempt, disconnect, escaped, impatient, closed, remembered>>
    BY <1>2 DEF Abandoned, object, fields, connections, links, history
  <2> QED
    BY <2>1 DEF Quiet, Unhurried, Going, Open
<1>3. CASE AbandonTimesOut
  <2>1. /\ main = "abandon" /\ main' = "port" /\ escaped' = escaped \cup {made} /\ made' = made
        /\ attempt' = [attempt EXCEPT ![made] = "failed"]
    BY <1>3 DEF AbandonTimesOut
  <2>2. \A c \in Connections : attempt'[c] = "connecting" => c # made /\ attempt[c] = "connecting"
    BY <1>1, <2>1 DEF Typed, LinkTypes
  <2> QED
    BY <2>1, <2>2 DEF Quiet, Unhurried
<1> QED
  BY <1>2, <1>3

LEMMA QuietCollect ==
  ASSUME Typed, Quiet, NEW c \in Connections, Collect(c)
  PROVE  Quiet'
<1>1. c \in escaped /\ UNCHANGED <<main, made, attempt, escaped>> /\ main \notin {"connect", "abandon"}
  BY DEF Collect, object, fields, history
<1> QED
  BY <1>1 DEF Quiet, Unhurried

LEMMA QuietLoop ==
  ASSUME Typed, Quiet, NEW c \in Connections, Progress(c) \/ Cancel(c) \/ Disconnected(c) \/ LoseLink(c)
  PROVE  Quiet'
<1>1. UNCHANGED <<main, made, dev, impatient, closed>> /\ escaped \subseteq escaped'
  BY DEF Progress, Cancel, Disconnected, LoseLink, linkFrame, object, fields
<1>2. CASE Progress(c)
  <2>1. /\ disconnect' = disconnect /\ remembered' = remembered
        /\ \E how \in {"subscribing", "failed", "timed out", "done"} : attempt' = [attempt EXCEPT ![c] = how]
    BY <1>2 DEF Progress
  <2>2. \A d \in Connections : attempt'[d] = "connecting" => attempt[d] = "connecting"
    BY <2>1 DEF Typed, LinkTypes
  <2> QED
    BY <1>1, <2>1, <2>2 DEF Quiet, Unhurried, Going, Open
<1>3. CASE Cancel(c)
  <2>1. /\ disconnect[c] = "asked" /\ disconnect' = [disconnect EXCEPT ![c] = "running"]
        /\ attempt' = [attempt EXCEPT ![c] = IF @ = "done" THEN "done" ELSE "failed"]
        /\ remembered' = remembered
    BY <1>3 DEF Cancel
  <2>2. /\ attempt'[c] # "connecting"
        /\ \A d \in Connections : d # c => attempt'[d] = attempt[d] /\ disconnect'[d] = disconnect[d]
    BY <2>1 DEF Typed, LinkTypes
  <2> QED
    BY <1>1, <2>1, <2>2 DEF Quiet, Unhurried, Going, Open
<1>4. CASE Disconnected(c)
  <2>1. /\ disconnect[c] = "running" /\ disconnect' = [disconnect EXCEPT ![c] = "over"]
        /\ attempt' = attempt /\ remembered' = IF remembered = c THEN 0 ELSE remembered
    BY <1>4 DEF Disconnected
  <2>2. /\ disconnect'[c] = "over"
        /\ \A d \in Connections : d # c => disconnect'[d] = disconnect[d]
    BY <2>1 DEF Typed, LinkTypes
  <2> QED
    BY <1>1, <2>1, <2>2 DEF Quiet, Unhurried, Going, Open
<1>5. CASE LoseLink(c)
  BY <1>1, <1>5, QuietKept DEF LoseLink
<1> QED
  BY <1>2, <1>3, <1>4, <1>5

LEMMA QuietNext == Typed /\ Quiet /\ [Next]_vars => Quiet'
<1> SUFFICES ASSUME Typed, Quiet, [Next]_vars PROVE Quiet'
  OBVIOUS
<1> USE DEF object, fields, connections, links, readers, history
<1>1. CASE Reinitialise \/ NoPort \/ ConnectReturns \/ ProbeAnswered \/ DrainReceived \/ JoinReader \/ Flush
  <2>1. UNCHANGED <<made, dev, attempt, disconnect, escaped, impatient, closed, remembered>>
    BY <1>1 DEF Reinitialise, Initialise, NoPort, ConnectReturns, ProbeAnswered, DrainReceived, JoinReader, Flush
  <2>2. \/ main \in {"again", "port"} /\ main' \in {"port", "failed"}
        \/ main = "connect" /\ main' = "services" /\ attempt[made] = "done"
        \/ main \in {"probe", "flush"} /\ main' \in {"running", "join"}
        \/ main = "drain" /\ main' = "reader"
        \/ main = "reader" /\ main' \in {"off", "again", "port"}
    BY <1>1 DEF Reinitialise, Initialise, NoPort, ConnectReturns, ProbeAnswered, DrainReceived, JoinReader, Flush,
       Typed, ThreadTypes
  <2> QED
    BY <2>1, <2>2, QuietKept
<1>2. CASE TryPort \/ Connect \/ ConnectRaises \/ ConnectionIsUp
  BY <1>2, QuietOpens
<1>3. CASE ConnectTimesOut \/ NotUsable
  BY <1>3, QuietAbandon DEF ConnectTimesOut, NotUsable
<1>4. CASE Abandoned \/ AbandonTimesOut
  BY <1>4, QuietAbandoned
<1>5. CASE ProbeTimesOut
  BY <1>5, QuietClose DEF ProbeTimesOut
<1>6. CASE Join
  <2>1. then \in {"off", "again", "port"}
    BY DEF Typed, ThreadTypes
  <2> QED
    BY <1>6, <2>1, QuietClose DEF Join
<1>7. CASE Construct
  <2>1. /\ main = "off" /\ main' = "port" /\ dev' = 0
        /\ UNCHANGED <<made, attempt, disconnect, escaped, impatient, remembered>>
    BY <1>7 DEF Construct, Initialise
  <2> QED
    BY <2>1 DEF Quiet, Unhurried, Going, Open
<1>8. CASE Reselect \/ SwitchAway
  BY <1>8, QuietTerminate DEF Reselect, SwitchAway, Typed, Places
<1>9. CASE GiveUp
  BY <1>9, QuietTerminate, QuietKept DEF GiveUp, Typed, Places
<1>10. ASSUME NEW c \in Connections, Release(c)
      PROVE  Quiet'
  BY <1>10, QuietTerminate, QuietKept DEF Release, Typed, Places
<1>11. ASSUME NEW c \in Connections, Collect(c)
       PROVE  Quiet'
  BY <1>11, QuietCollect
<1>12. CASE Send \/ SenderStep \/ ReaderStep \/ UNCHANGED vars
  <2>1. UNCHANGED <<main, made, dev, attempt, disconnect, escaped, impatient, closed, remembered>>
    <3>1. CASE Send \/ UNCHANGED vars
      BY <3>1 DEF Send, vars
    <3>2. CASE SenderStep
      BY <3>2 DEF SenderStep, SenderExits, Take, SlotOpens, GiveUpSlot, Resend, ResendReturns, ResendRaises,
         WriteReturns, WriteRaises
    <3>3. CASE ReaderStep
      BY <3>3 DEF ReaderStep, ReaderTakes, Dispatch, ReaderEnds
    <3> QED
      BY <1>12, <3>1, <3>2, <3>3
  <2> QED
    BY <2>1, QuietKept
<1>13. CASE LoopStep
  BY <1>13, QuietLoop DEF LoopStep
<1> HIDE DEF object, fields, connections, links, readers, history
<1> QED
  BY <1>1, <1>2, <1>3, <1>4, <1>5, <1>6, <1>7, <1>8, <1>9, <1>10, <1>11, <1>12, <1>13
     DEF Next, MainStep, GoOn

LEMMA AlwaysQuiet == Spec => []Quiet
<1>1. Init => Quiet
  BY DEF Init, Quiet, Unhurried, Going, Open
<1> QED
  BY <1>1, QuietNext, AlwaysTyped, PTL DEF Spec

(* ConnectAlone: the device is not connected to while a disconnect from it *)
(* is under way, unless a connection was made without waiting to the end   *)
(* of one, or an instance was left to be collected.                        *)
THEOREM ConnectsAlone == Spec => []ConnectAlone
<1>1. Quiet => ConnectAlone
  BY DEF Quiet, Unhurried, Going, Open, ConnectAlone
<1> QED
  BY <1>1, AlwaysQuiet, PTL

-----------------------------------------------------------------------------
(* What the driver knows of the displays comes from the connection in use. *)
(* A connection that was given up takes no more data and its reader has    *)
(* ended, so no answer of it is left when the next one asks; a sender that *)
(* still writes, writes to the connection in use or to one that is stopped.*)

Trying == {"again", "port"} \cup Attempting

(* A reader has an answer to dispatch, or will have.                       *)
Pending(c) == reader[c] = "dispatching" \/ (reader[c] = "waiting" /\ received[c] > 0)

Answers ==
  /\ main \in Trying => dev = 0 \/ (closed[dev] /\ stopped[dev])
  /\ main = "reader" => closed[dev] /\ stopped[dev]
  /\ main = "drain" => closed[dev]
  /\ main \in {"probe", "running"} \/ (main \in {"flush", "join"} /\ then = "again")
       => dev \notin escaped /\ ~closed[dev]
  /\ \A s \in Sessions :
       Writing(s) => sender[s].on = dev \/ stopped[sender[s].on]
  /\ overran = {} =>
       /\ \A c \in Connections : Pending(c) => c = dev /\ main \notin Trying
       /\ main \in Attempting => board = 0
       /\ main = "probe" => board \in {0, dev}
       /\ main = "running" => board = dev

LEMMA AnswersKept ==
  ASSUME Typed, Answers,
         UNCHANGED <<dev, escaped, closed, stopped, reader, received, overran, board>>,
         \A s \in Sessions : Writing(s)' => sender'[s] = sender[s] \/ sender'[s].on = dev,
         \/ main' = main /\ then' = then
         \/ main \in Trying /\ main' \in Trying \cup {"failed"} /\ (main' \in Attempting => main \in Attempting)
         \/ main = "flush" /\ main' = "join" /\ then' = then
         \/ main = "failed" /\ main' = "off"
  PROVE  Answers'
<1>1. \A s \in Sessions : Writing(s)' => sender'[s].on = dev \/ stopped[sender'[s].on]
  BY DEF Answers, Writing
<1>2. \A c \in Connections : Pending(c)' <=> Pending(c)
  BY DEF Pending
<1>3. /\ main' \in Trying => main \in Trying
      /\ main' \in Attempting => main \in Attempting
      /\ main' = "reader" => main = "reader"
      /\ main' = "drain" => main = "drain"
      /\ main' = "probe" => main = "probe"
      /\ main' = "running" => main = "running"
      /\ main' \in {"flush", "join"} /\ then' = "again" => main \in {"flush", "join"} /\ then = "again"
  BY DEF Trying, Attempting
<1> QED
  BY <1>1, <1>2, <1>3 DEF Answers, Writing

LEMMA AnswersTerminate ==
  ASSUME Typed, Answers, NEW next \in {"again", "off"}, Terminate(next),
         \/ main = "running" \/ (main = "failed" /\ next = "off")
  PROVE  Answers'
<1>1. /\ UNCHANGED <<dev, closed, stopped, reader, received, overran, board, sender>>
      /\ \/ main' = "flush" /\ then' = next /\ escaped' = escaped
         \/ main' \in {"failed", "off"} /\ escaped' = escaped \cup {dev}
  BY TerminateEffect
<1> QED
  BY <1>1 DEF Answers, Trying, Attempting, Pending, Writing

LEMMA AnswersClose ==
  ASSUME Typed, Answers, NEW next \in {"off", "again", "port"}, Close(dev, next),
         \/ main = "probe" \/ (main = "join" /\ next \in {"off", "again"} /\ next = then),
         UNCHANGED <<dev, escaped, stopped, reader, received, overran, board, sender>>
  PROVE  Answers'
<1>1. CASE (dev = 0 \/ closed[dev]) /\ main' = next /\ UNCHANGED closed
  <2>1. \A c \in Connections : c # 0
    BY DEF Connections
  <2>2. main = "probe" => dev # 0
    BY DEF Typed, Places, NumberTypes
  <2> QED
    BY <1>1, <2>1, <2>2 DEF Answers, Trying, Attempting, Pending, Writing
<1>2. CASE dev \in Connections /\ main' = "drain" /\ closed' = [closed EXCEPT ![dev] = TRUE]
  <2>1. closed'[dev] = TRUE
    BY <1>2 DEF Typed, LinkTypes
  <2> QED
    BY <1>2, <2>1 DEF Answers, Trying, Attempting, Pending, Writing
<1> QED
  BY <1>1, <1>2, CloseEffect

LEMMA AnswersTryPort == Typed /\ Answers /\ TryPort => Answers'
<1> SUFFICES ASSUME Typed, Answers, TryPort PROVE Answers'
  OBVIOUS
<1>1. /\ main = "port" /\ main' = "await" /\ board' = 0 /\ made' = made + 1
      /\ reader' = [reader EXCEPT ![made + 1] = "waiting"]
      /\ UNCHANGED <<dev, escaped, closed, stopped, received, overran, sender>>
  BY DEF TryPort, history
<1>2. \A c \in Connections : Pending(c)' => Pending(c)
  <2>1. made + 1 \in Connections => received[made + 1] = 0
    BY DEF Typed, Fresh, NumberTypes, Connections
  <2> QED
    BY <1>1, <2>1 DEF Pending, Typed, ReaderTypes
<1> QED
  BY <1>1, <1>2 DEF Answers, Trying, Attempting, Writing

(* The probe is sent: the connection in use changes, and whoever still     *)
(* writes to the one before, writes to a connection that is stopped.       *)
LEMMA AnswersUp == Typed /\ Links /\ Answers /\ ConnectionIsUp => Answers'
<1> SUFFICES ASSUME Typed, Links, Answers, ConnectionIsUp PROVE Answers'
  OBVIOUS
<1>1. /\ main = "services" /\ main' = "probe" /\ dev' = made
      /\ UNCHANGED <<escaped, closed, stopped, reader, received, overran, board, sender>>
  BY DEF ConnectionIsUp, connections, readers, history
<1>2. made \notin escaped /\ ~closed[made]
  BY <1>1 DEF Links, HandSafe, Attempting
<1>3. ASSUME NEW s \in Sessions, Writing(s)
      PROVE  stopped[sender[s].on]
  <2>1. sender[s].on >= 1 /\ sender[s].on \in Nat
    BY <1>3 DEF Typed, Used, Writing, SenderTypes, SenderPlace, NumberTypes
  <2> QED
    BY <1>1, <1>3, <2>1 DEF Answers, Trying, Attempting, Writing
<1>4. overran = {} => \A c \in Connections : ~Pending(c)
  BY <1>1 DEF Answers, Trying, Attempting, Writing
<1>5. \A c \in Connections : Pending(c)' <=> Pending(c)
  BY <1>1 DEF Pending
<1> QED
  BY <1>1, <1>2, <1>3, <1>4, <1>5 DEF Answers, Trying, Attempting, Writing

LEMMA AnswersProbeAnswered == Typed /\ Answers /\ ProbeAnswered => Answers'
<1> SUFFICES ASSUME Typed, Answers, ProbeAnswered PROVE Answers'
  OBVIOUS
<1>1. /\ main = "probe" /\ board # 0 /\ main' = "running"
      /\ UNCHANGED <<dev, escaped, closed, stopped, reader, received, overran, board, sender>>
  BY DEF ProbeAnswered, connections, readers, history
<1> QED
  BY <1>1 DEF Answers, Trying, Attempting, Pending, Writing

LEMMA AnswersDrain == Typed /\ Answers /\ DrainReceived => Answers'
<1> SUFFICES ASSUME Typed, Answers, DrainReceived PROVE Answers'
  OBVIOUS
<1>1. /\ main = "drain" /\ main' = "reader" /\ stopped' = [stopped EXCEPT ![dev] = TRUE]
      /\ UNCHANGED <<dev, escaped, closed, reader, received, overran, board, sender>>
  BY DEF DrainReceived, object, fields, history, Start
<1>2. dev \in Connections
  BY <1>1, Bounds DEF Typed, Places, NumberTypes, Connections
<1>3. stopped'[dev] = TRUE /\ \A c \in Connections : stopped[c] => stopped'[c]
  BY <1>1, <1>2 DEF Typed, ReaderTypes
<1>4. \A s \in Sessions : Writing(s) => sender[s].on \in Connections
  BY Bounds DEF Typed, Used, Writing, SenderTypes, SenderPlace, NumberTypes, Connections
<1> QED
  BY <1>1, <1>3, <1>4 DEF Answers, Trying, Attempting, Pending, Writing

LEMMA AnswersJoinReader == Typed /\ Answers /\ JoinReader => Answers'
<1> SUFFICES ASSUME Typed, Answers, JoinReader PROVE Answers'
  OBVIOUS
<1>1. /\ main = "reader" /\ main' = then /\ then \in {"off", "again", "port"}
      /\ overran' = IF reader[dev] = "ended" THEN overran ELSE overran \cup {dev}
      /\ UNCHANGED <<dev, escaped, closed, stopped, reader, received, board, sender>>
  BY DEF JoinReader, object, fields, connections, readers, Typed, ThreadTypes
<1>2. overran' = {} => overran = {} /\ ~Pending(dev)
  BY <1>1 DEF Pending
<1> QED
  BY <1>1, <1>2 DEF Answers, Trying, Attempting, Pending, Writing

LEMMA AnswersStart == Typed /\ Answers /\ (Construct \/ Reinitialise) => Answers'
<1> SUFFICES ASSUME Typed, Answers, Construct \/ Reinitialise PROVE Answers'
  OBVIOUS
<1>1. CASE Construct
  <2>1. /\ main' = "port" /\ dev' = 0 /\ reader' = [c \in Connections |-> "none"]
        /\ \A s \in Sessions : sender'[s] \in {Idle, Exited}
    BY <1>1 DEF Construct, Initialise
  <2> QED
    BY <2>1 DEF Answers, Trying, Attempting, Pending, Idle, Exited, Writing
<1>2. CASE Reinitialise
  <2>1. /\ main = "again" /\ main' = "port" /\ sender' = [sender EXCEPT ![session + 1] = Idle]
        /\ UNCHANGED <<dev, escaped, closed, stopped, reader, received, overran>>
    BY <1>2 DEF Reinitialise, Initialise, connections, readers, history
  <2>2. \A s \in Sessions : Writing(s)' => sender'[s] = sender[s]
    BY <2>1 DEF Typed, SenderTypes, Idle, Writing
  <2> QED
    BY <2>1, <2>2 DEF Answers, Trying, Attempting, Pending, Writing
<1> QED
  BY <1>1, <1>2

LEMMA AnswersCollect ==
  ASSUME Typed, Answers, NEW c \in Connections, Collect(c)
  PROVE  Answers'
<1>1. /\ c \in escaped /\ UNCHANGED <<main, then, dev, escaped, reader, received, overran, board, sender>>
      /\ closed' = [closed EXCEPT ![c] = TRUE] /\ stopped' = [stopped EXCEPT ![c] = TRUE]
  BY DEF Collect, Start, object, fields, history
<1>2. \A d \in Connections : (closed[d] => closed'[d]) /\ (stopped[d] => stopped'[d])
                             /\ (d # c => closed'[d] = closed[d])
  BY <1>1 DEF Typed, LinkTypes, ReaderTypes
<1>3. dev = 0 \/ dev \in Connections
  BY Bounds DEF Typed, NumberTypes, Connections
<1>4. \A s \in Sessions : Writing(s) => sender[s].on \in Connections
  BY Bounds DEF Typed, Used, Writing, SenderTypes, SenderPlace, NumberTypes, Connections
<1>5. main \in {"probe", "running", "drain", "reader"} \/ (main \in {"flush", "join"} /\ then = "again")
        => dev # 0 \/ main \in {"flush", "join"}
  BY DEF Typed, Places, NumberTypes
<1> QED
  BY <1>1, <1>2, <1>3, <1>4, <1>5 DEF Answers, Trying, Attempting, Pending, Writing

(* A write returns: the device may answer, if it was asked on the          *)
(* connection in use and that is not stopped.                              *)
LEMMA AnswersWriteReturns ==
  ASSUME Typed, Answers, NEW s \in Sessions, WriteReturns(s)
  PROVE  Answers'
<1>1. /\ sender[s].at = "write" /\ Done(s)
      /\ \/ received' = received
         \/ /\ ~stopped[sender[s].on]
            /\ received' = [received EXCEPT ![sender[s].on] = @ + 1]
      /\ UNCHANGED <<main, then, dev, escaped, closed, stopped, reader, overran, board>>
  BY DEF WriteReturns, history
<1>2. \A t \in Sessions : Writing(t)' => sender'[t] = sender[t]
  BY <1>1 DEF Done, Idle, Exited, Typed, SenderTypes, Writing
<1>3. CASE received' = received
  BY <1>1, <1>2, <1>3, AnswersKept
<1>4. CASE ~stopped[sender[s].on] /\ received' = [received EXCEPT ![sender[s].on] = @ + 1]
  <2>1. sender[s].on >= 1 /\ sender[s].on \in Nat
    BY <1>1 DEF Typed, Used, Writing, SenderTypes, SenderPlace, NumberTypes
  <2>2. sender[s].on = dev /\ main \notin Trying
    BY <1>1, <1>4, <2>1 DEF Answers, Writing
  <2>3. \A c \in Connections : c # dev => received'[c] = received[c]
    BY <1>4, <2>2 DEF Typed, ReaderTypes
  <2> QED
    BY <1>1, <1>2, <2>2, <2>3 DEF Answers, Pending, Writing
<1> QED
  BY <1>1, <1>3, <1>4

LEMMA AnswersSender ==
  ASSUME Typed, Answers, NEW s \in Sessions,
         \/ SenderExits(s) \/ Take(s) \/ SlotOpens(s) \/ GiveUpSlot(s)
         \/ Resend(s) \/ ResendReturns(s) \/ ResendRaises(s) \/ WriteRaises(s)
  PROVE  Answers'
<1>1. UNCHANGED <<main, then, dev, escaped, closed, stopped, reader, received, overran, board>>
  BY DEF SenderExits, Take, SlotOpens, GiveUpSlot, Resend, ResendReturns, ResendRaises, WriteRaises,
     fields, connections, readers, history
<1>2. \/ sender' = [sender EXCEPT ![s] = Idle] \/ sender' = [sender EXCEPT ![s] = Exited]
      \/ sender' = [sender EXCEPT ![s].at = "slot", ![s].packet = Head(queue)]
      \/ sender' = [sender EXCEPT ![s].at = "slot"]
      \/ \E place \in {"resend", "write"} : sender' = [sender EXCEPT ![s].at = place, ![s].on = dev]
  BY DEF SenderExits, Take, SlotOpens, GiveUpSlot, Resend, ResendReturns, ResendRaises, WriteRaises, Done
<1>3. SenderTypes
  BY DEF Typed
<1>4. \A t \in Sessions : Writing(t)' => sender'[t] = sender[t] \/ sender'[t].on = dev
  BY <1>2, <1>3 DEF SenderTypes, SenderPlace, Idle, Exited, Writing
<1> QED
  BY <1>1, <1>4, AnswersKept

LEMMA AnswersReader ==
  ASSUME Typed, Answers, NEW c \in Connections, ReaderTakes(c) \/ Dispatch(c) \/ ReaderEnds(c)
  PROVE  Answers'
<1>1. UNCHANGED <<main, then, dev, escaped, closed, stopped, overran, sender>>
  BY DEF ReaderTakes, Dispatch, ReaderEnds, object, fields, history
<1>2. \A d \in Connections : Pending(d)' => Pending(d)
  <2>1. CASE ReaderTakes(c)
    <3>1. /\ reader[c] = "waiting" /\ received[c] > 0
          /\ reader' = [reader EXCEPT ![c] = "dispatching"] /\ received' = [received EXCEPT ![c] = @ - 1]
      BY <2>1 DEF ReaderTakes
    <3> QED
      BY <3>1 DEF Pending, Typed, ReaderTypes
  <2>2. CASE Dispatch(c) \/ ReaderEnds(c)
    <3>1. /\ reader[c] = "dispatching" \/ reader' = [reader EXCEPT ![c] = "ended"]
          /\ \E place \in {"ended", "waiting"} : reader' = [reader EXCEPT ![c] = place]
          /\ received' = received
      BY <2>2 DEF Dispatch, ReaderEnds
    <3> QED
      BY <3>1 DEF Pending, Typed, ReaderTypes
  <2> QED
    BY <2>1, <2>2
<1>3. board' = board \/ (Pending(c) /\ board' = c)
  BY DEF ReaderTakes, Dispatch, ReaderEnds, object, fields, Pending
<1> QED
  BY <1>1, <1>2, <1>3 DEF Answers, Trying, Attempting, Writing

(* A disconnect that raises is not that of the connection in use, which is *)
(* not asked for before it is closed.                                      *)
LEMMA AnswersLoop ==
  ASSUME Typed, Links, Answers, NEW c \in Connections,
         Progress(c) \/ Cancel(c) \/ Disconnected(c) \/ LoseLink(c)
  PROVE  Answers'
<1>1. /\ UNCHANGED <<main, then, dev, closed, stopped, reader, received, overran, board, sender>>
      /\ \/ escaped' = escaped
         \/ escaped' = escaped \cup {c} /\ disconnect[c] = "running" /\ ~closed[c]
  BY DEF Progress, Cancel, Disconnected, LoseLink, linkFrame, object, fields, readers
<1>2. CASE escaped' = escaped
  BY <1>1, <1>2, AnswersKept
<1>3. CASE escaped' = escaped \cup {c} /\ disconnect[c] = "running" /\ ~closed[c]
  <2>1. c # dev
    BY <1>3 DEF Links, HandSafe, Connections
  <2> QED
    BY <1>1, <1>3, <2>1 DEF Answers, Trying, Attempting, Pending, Writing
<1> QED
  BY <1>1, <1>2, <1>3

LEMMA AnswersNext == Typed /\ Links /\ Answers /\ [Next]_vars => Answers'
<1> SUFFICES ASSUME Typed, Links, Answers, [Next]_vars PROVE Answers'
  OBVIOUS
<1> USE DEF object, fields, connections, links, readers, history
<1>1. CASE \/ NoPort \/ Connect \/ ConnectReturns \/ Abandoned \/ Flush
  <2>1. UNCHANGED <<then, dev, escaped, closed, stopped, reader, received, overran, board, sender>>
    BY <1>1 DEF NoPort, Connect, ConnectReturns, Abandoned, Flush
  <2>2. \/ main \in Trying /\ main' \in Trying \cup {"failed"} /\ (main' \in Attempting => main \in Attempting)
        \/ main = "flush" /\ main' = "join"
    BY <1>1 DEF NoPort, Connect, ConnectReturns, Abandoned, Flush, Trying, Attempting
  <2> QED
    BY <2>1, <2>2, AnswersKept
<1>2. CASE ConnectRaises \/ AbandonTimesOut
  <2>1. /\ UNCHANGED <<then, dev, closed, stopped, reader, received, overran, board, sender>>
        /\ main \in {"connect", "abandon"} /\ main' \in {"failed", "port"}
    BY <1>2 DEF ConnectRaises, AbandonTimesOut
  <2> QED
    BY <2>1 DEF Answers, Trying, Attempting, Pending, Writing
<1>3. CASE ConnectTimesOut \/ NotUsable
  <2>1. /\ UNCHANGED <<then, dev, escaped, closed, reader, received, overran, board, sender>>
        /\ main \in {"connect", "services"} /\ main' = "abandon"
        /\ stopped' = [stopped EXCEPT ![made] = TRUE]
    BY <1>3 DEF ConnectTimesOut, NotUsable, Abandon, Start
  <2>2. \A c \in Connections : stopped[c] => stopped'[c]
    BY <2>1 DEF Typed, ReaderTypes
  <2>3. dev = 0 \/ dev \in Connections
    BY Bounds DEF Typed, NumberTypes, Connections
  <2>4. \A s \in Sessions : Writing(s) => sender[s].on \in Connections
    BY Bounds DEF Typed, Used, Writing, SenderTypes, SenderPlace, NumberTypes, Connections
  <2> QED
    BY <2>1, <2>2, <2>3, <2>4 DEF Answers, Trying, Attempting, Pending, Writing
<1>4. CASE TryPort \/ ConnectionIsUp \/ ProbeAnswered \/ DrainReceived \/ JoinReader
  BY <1>4, AnswersTryPort, AnswersUp, AnswersProbeAnswered, AnswersDrain, AnswersJoinReader
<1>5. CASE Construct \/ Reinitialise
  BY <1>5, AnswersStart
<1>6. CASE ProbeTimesOut
  BY <1>6, AnswersClose DEF ProbeTimesOut
<1>7. CASE Join
  <2>1. then \in {"off", "again"}
    BY <1>7 DEF Join, Typed, ThreadTypes, Places
  <2> QED
    BY <1>7, <2>1, AnswersClose DEF Join
<1>8. CASE Reselect \/ SwitchAway
  BY <1>8, AnswersTerminate DEF Reselect, SwitchAway
<1>9. CASE GiveUp
  BY <1>9, AnswersTerminate, AnswersKept DEF GiveUp
<1>10. ASSUME NEW c \in Connections, Release(c)
       PROVE  Answers'
  BY <1>10, AnswersTerminate, AnswersKept DEF Release, Typed, Places
<1>11. ASSUME NEW c \in Connections, Collect(c)
       PROVE  Answers'
  BY <1>11, AnswersCollect
<1>12. CASE SenderStep
  BY <1>12, AnswersSender, AnswersWriteReturns DEF SenderStep
<1>13. CASE ReaderStep
  BY <1>13, AnswersReader DEF ReaderStep
<1>14. CASE Send \/ UNCHANGED vars
  <2>1. UNCHANGED <<main, then, dev, escaped, closed, stopped, reader, received, overran, board, sender>>
    BY <1>14 DEF Send, vars
  <2> QED
    BY <2>1, AnswersKept
<1>15. CASE LoopStep
  BY <1>15, AnswersLoop DEF LoopStep
<1> HIDE DEF object, fields, connections, links, readers, history
<1> QED
  BY <1>1, <1>2, <1>3, <1>4, <1>5, <1>6, <1>7, <1>8, <1>9, <1>10, <1>11, <1>12, <1>13, <1>14,
     <1>15 DEF Next, MainStep, GoOn

LEMMA AlwaysAnswers == Spec => []Answers
<1>1. Init => Answers
  BY DEF Init, Answers, Trying, Attempting, Pending, Exited, Writing
<1> QED
  BY <1>1, AnswersNext, AlwaysTyped, AlwaysLinks, PTL DEF Spec

(* FreshInformation: the board information that the driver takes for that  *)
(* of its display is what the connection in use answered, however late the *)
(* answers of earlier ones are read, unless a dispatch outlives the close. *)
THEOREM InformationIsFresh == Spec => []FreshInformation
<1>1. Answers => FreshInformation
  BY DEF Answers, FreshInformation
<1> QED
  BY <1>1, AlwaysAnswers, PTL
=============================================================================
