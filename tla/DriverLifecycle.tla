--------------------------- MODULE DriverLifecycle ---------------------------
(***************************************************************************)
(* How a display is opened over Bluetooth and given up again: the driver's *)
(* constructor with the ports it tries, terminate, NVDA running __init__   *)
(* on the same object once more, the sender threads that this leaves, and  *)
(* the connections (ble/hwIo.py) with their coroutines and readers.        *)
(*                                                                         *)
(* The candidates are one device, found again or more than once.  What the *)
(* sender does with a packet is in PacketSender; here it waits, sends the  *)
(* last line again, writes, and may be held up in either write, which have *)
(* no time-out.  The serial transport, the library and the renderer are    *)
(* left out.                                                               *)
(***************************************************************************)
EXTENDS Integers, Sequences, FiniteSets

CONSTANTS
  MaxConnections, \* bound: connections made
  MaxSessions     \* bound: runs of __init__ on one object

ASSUME BoundsAssumption == MaxConnections \in Nat \ {0} /\ MaxSessions \in Nat \ {0}

Connections == 1 .. MaxConnections
Sessions == 1 .. MaxSessions

(* The driver object, of which NVDA's thread is in one place.              *)
VARIABLES
  main,        \* where the thread that constructs and terminates is
  then,        \* where it goes when terminate or close is through
  session,     \* runs of __init__ on the present object
  current,     \* braille.handler.display is the present object
  dev,         \* _dev, 0 before the first
  terminating, \* _isTerminating
  leaving,     \* _terminationStarted
  gate,        \* _readyToSend
  gone,        \* _displayGone
  queue,       \* _queuedPackets: "probe", the board information request, or "other"
  unfinished,  \* its unfinished_tasks
  board,       \* connection whose board information was taken, 0 for None
  sender,      \* sender threads by session: place, packet, connection written to
  releases     \* releaseIfStillCurrent in core.callLater: connection each is about

(* The connections, in the order in which they are made.                   *)
VARIABLES
  made,        \* how many
  attempt,     \* _initAndConnect on the event loop
  linked,      \* has the client a GATT session that is active?
  disconnect,  \* the client's disconnect on the event loop
  reader,      \* the reader thread, if it works for the present object
  received,    \* answers to a probe in _queuedData
  skipped,     \* received data taken and never marked done
  stopped,     \* _stopReaderEvent
  closed,      \* _closed
  remembered   \* _pendingDisconnects, of the one device; 0 for none

(* History. *)
VARIABLES
  stalled,     \* its sessions whose sender outlived terminate's join
  overran,     \* the object's connections whose reader outlived close's join
  escaped,     \* connections whose constructor raised without releasing them, or
               \* could not: the disconnect raised
  impatient    \* connections that did not wait for a disconnect to its end

fields == <<dev, terminating, leaving, gate, gone, queue, unfinished, board>>
object == <<session, current, fields, sender>>
links == <<attempt, linked, disconnect>>
readers == <<reader, received, skipped, stopped>>
history == <<stalled, overran, escaped, impatient>>
connections == <<made, links, readers, closed, remembered>>
vars == <<main, then, object, releases, connections, history>>

Idle == [at |-> "get", packet |-> "none", on |-> 0]
Exited == [at |-> "exited", packet |-> "none", on |-> 0]

Alive(s) == sender[s].at # "exited"

(* A write that may be held up: of a packet, or of the last line again.    *)
Writing(s) == sender[s].at \in {"write", "resend"}

Start(event, c) == [event EXCEPT ![c] = TRUE]

-----------------------------------------------------------------------------
(* The constructor. *)

(* The head of __init__: new events, a new queue and a sender for them.    *)
Initialise(s, others) ==
  /\ session' = s /\ sender' = [others EXCEPT ![s] = Idle]
  /\ terminating' = FALSE /\ leaving' = FALSE /\ gate' = TRUE /\ gone' = FALSE
  /\ queue' = <<>> /\ unfinished' = 0 /\ board' = 0
  /\ main' = "port"

(* NVDA constructs a display, a new object.  What the sender threads, the  *)
(* readers and the calls left of an earlier one do, they do to that one.   *)
Construct ==
  /\ main = "off" /\ made < MaxConnections
  /\ Initialise(1, [s \in Sessions |-> Exited])
  /\ dev' = 0 /\ releases' = {} /\ reader' = [c \in Connections |-> "none"]
  /\ stalled' = {} /\ overran' = {}
  /\ UNCHANGED <<then, current, made, links, received, skipped, stopped, closed, remembered, escaped,
                 impatient>>

(* NVDA runs __init__ again on an object it has terminated.                *)
Reinitialise ==
  /\ main = "again"
  /\ Initialise(session + 1, sender)
  /\ UNCHANGED <<then, current, dev, releases, connections, history>>

(* Mutant: an answer to an earlier port's request is kept.                 *)
TryPort_KeepsInformation ==
  /\ main = "port" /\ made < MaxConnections
  /\ main' = "await"
  /\ gone' = FALSE /\ board' = board
  /\ made' = made + 1 /\ reader' = [reader EXCEPT ![made + 1] = "waiting"]
  /\ UNCHANGED <<then, session, current, dev, terminating, leaving, gate, queue, unfinished, sender,
                 releases, links, received, skipped, stopped, closed, remembered, history>>

(* The next candidate: the connection and its reader are created.          *)
TryPort ==
  /\ main = "port" /\ made < MaxConnections
  /\ main' = "await"
  /\ gone' = FALSE /\ board' = 0
  /\ made' = made + 1 /\ reader' = [reader EXCEPT ![made + 1] = "waiting"]
  /\ UNCHANGED <<then, session, current, dev, terminating, leaving, gate, queue, unfinished, sender,
                 releases, links, received, skipped, stopped, closed, remembered, history>>

(* There is no candidate left.                                             *)
NoPort ==
  /\ main = "port" /\ main' = "failed"
  /\ UNCHANGED <<then, object, releases, connections, history>>

(* _awaitPreviousDisconnect, and the attempt is handed to the event loop.  *)
Connect ==
  /\ main = "await" /\ main' = "connect"
  /\ impatient' = IF remembered = 0 THEN impatient ELSE impatient \cup {made}
  /\ attempt' = [attempt EXCEPT ![made] = "connecting"]
  /\ UNCHANGED <<then, object, releases, made, linked, disconnect, readers, closed, remembered,
                 stalled, overran, escaped>>

(* _abandonConnection, up to the wait for the disconnect.                  *)
Abandon(c) ==
  /\ main' = "abandon"
  /\ stopped' = Start(stopped, c)
  /\ disconnect' = [disconnect EXCEPT ![c] = "asked"]

ConnectReturns ==
  /\ main = "connect" /\ attempt[made] = "done"
  /\ main' = "services"
  /\ UNCHANGED <<then, object, releases, connections, history>>

(* Only a time-out is released; anything else leaves __init__ at once, and *)
(* is no RuntimeError, so the driver's constructor fails too.              *)
ConnectRaises ==
  /\ main = "connect" /\ attempt[made] = "failed"
  /\ main' = "failed" /\ escaped' = escaped \cup {made}
  /\ UNCHANGED <<then, object, releases, connections, stalled, overran, impatient>>

ConnectTimesOut ==
  /\ main = "connect" /\ attempt[made] \in {"connecting", "subscribing", "timed out"}
  /\ Abandon(made)
  /\ UNCHANGED <<then, object, releases, made, attempt, linked, reader, received, skipped, closed,
                 remembered, history>>

(* waitForConnection finds the connection up, and the device is asked for  *)
(* its board information.                                                  *)
ConnectionIsUp ==
  /\ main = "services" /\ linked[made]
  /\ main' = "probe" /\ dev' = made
  /\ queue' = Append(queue, "probe") /\ unfinished' = unfinished + 1
  /\ UNCHANGED <<then, session, current, terminating, leaving, gate, gone, board, sender, releases,
                 connections, history>>

(* Mutant: a connection without services is left as it is.                 *)
NotUsable_NotReleased ==
  /\ main = "services"
  /\ main' = "port"
  /\ UNCHANGED <<then, object, releases, connections, history>>

(* It never is, or no services are found.                                  *)
NotUsable ==
  /\ main = "services"
  /\ Abandon(made)
  /\ UNCHANGED <<then, object, releases, made, attempt, linked, reader, received, skipped, closed,
                 remembered, history>>

Abandoned ==
  /\ main = "abandon" /\ disconnect[made] = "over"
  /\ main' = "port"
  /\ UNCHANGED <<then, object, releases, connections, history>>

(* The disconnect takes too long and is cancelled.                         *)
AbandonTimesOut ==
  /\ main = "abandon" /\ disconnect[made] # "over"
  /\ main' = "port" /\ escaped' = escaped \cup {made}
  /\ disconnect' = [disconnect EXCEPT ![made] = "over"]
  /\ attempt' = [attempt EXCEPT ![made] = "failed"]
  /\ UNCHANGED <<then, object, releases, made, linked, readers, closed, remembered, stalled, overran,
                 impatient>>

-----------------------------------------------------------------------------
(* Closing a connection, and terminate. *)

(* Mutant: a disconnect in flight is not remembered.                       *)
Disconnect_Forgotten(c) ==
  /\ disconnect' = [disconnect EXCEPT ![c] = IF linked[c] THEN "running" ELSE @]
  /\ remembered' = remembered

Disconnect(c) ==
  /\ disconnect' = [disconnect EXCEPT ![c] = IF linked[c] THEN "running" ELSE @]
  /\ remembered' = IF linked[c] THEN c ELSE remembered

(* close, up to its waits for the reader. *)
Close(c, next) ==
  IF c = 0 \/ closed[c]
  THEN main' = next /\ UNCHANGED <<disconnect, remembered, closed>>
  ELSE main' = "drain" /\ closed' = Start(closed, c) /\ Disconnect(c)

(* The wait for the answer ends, and the gate reopens for the next port.   *)
ProbeTimesOut ==
  /\ main = "probe" /\ board = 0
  /\ gate' = TRUE
  /\ then' = "port" /\ Close(dev, "port")
  /\ UNCHANGED <<session, current, dev, terminating, leaving, gone, queue, unfinished, board, sender,
                 releases, made, attempt, linked, readers, history>>

ProbeAnswered ==
  /\ main = "probe" /\ board # 0
  /\ main' = "running" /\ current' = TRUE
  /\ queue' = Append(queue, "other") /\ unfinished' = unfinished + 1
  /\ UNCHANGED <<then, session, dev, terminating, leaving, gate, gone, board, sender, releases,
                 connections, history>>

(* The wait for received data to be dispatched ends, in time or not.       *)
DrainReceived ==
  /\ main = "drain" /\ main' = "reader"
  /\ stopped' = Start(stopped, dev)
  /\ UNCHANGED <<then, object, releases, made, links, reader, received, skipped, closed, remembered,
                 history>>

(* So does the wait for the reader, which a dispatch can hold up.          *)
JoinReader ==
  /\ main = "reader" /\ reader[dev] \in {"ended", "dispatching"}
  /\ main' = then
  /\ overran' = IF reader[dev] = "ended" THEN overran ELSE overran \cup {dev}
  /\ UNCHANGED <<then, object, releases, connections, stalled, escaped, impatient>>

(* terminate, up to its wait for the queue.  It empties the queue, which   *)
(* raises when a sender of an earlier session has spoilt the count; NVDA   *)
(* then drops the display, after a second try if it was to open it again.  *)
Terminate(next) ==
  /\ leaving' = TRUE /\ current' = (next = "again")
  /\ IF Len(queue) <= unfinished
     THEN /\ main' = "flush" /\ then' = next
          /\ queue' = <<>> /\ unfinished' = unfinished - Len(queue)
          /\ UNCHANGED escaped
     ELSE /\ main' = (IF next = "again" THEN "failed" ELSE "off") /\ UNCHANGED then
          /\ queue' = SubSeq(queue, unfinished + 2, Len(queue)) /\ unfinished' = 0
          /\ escaped' = escaped \cup {dev}
  /\ UNCHANGED <<session, dev, terminating, gate, gone, board, sender, connections, stalled, overran,
                 impatient>>

Reselect == main = "running" /\ session < MaxSessions /\ Terminate("again") /\ UNCHANGED releases

SwitchAway == main = "running" /\ Terminate("off") /\ UNCHANGED releases

(* __init__ raised.  A new object is dropped; of one that is still NVDA's  *)
(* display the fallback display takes the place.                           *)
GiveUp ==
  /\ main = "failed"
  /\ \/ current /\ Terminate("off") /\ UNCHANGED releases
     \/ ~current /\ main' = "off" /\ UNCHANGED <<then, object, releases, connections, history>>

(* The queue has drained, or the wait for it ends.                         *)
Flush ==
  /\ main = "flush" /\ main' = "join"
  /\ terminating' = TRUE
  /\ UNCHANGED <<then, session, current, dev, leaving, gate, gone, queue, unfinished, board, sender,
                 releases, connections, history>>

(* Mutant: the sender is not waited for.                                   *)
JoinOver_AtOnce == TRUE

(* Mutant: the wait for the sender has no time-out.                        *)
JoinOver_Exited == sender[session].at = "exited"

(* The time-out is longer than all that the sender waits for but a write.  *)
JoinOver == sender[session].at = "exited" \/ Writing(session)

Join ==
  /\ main = "join" /\ JoinOver
  /\ stalled' = IF Writing(session) THEN stalled \cup {session} ELSE stalled
  /\ Close(dev, then)
  /\ UNCHANGED <<then, object, releases, made, attempt, linked, readers, overran, escaped, impatient>>

(* releaseIfStillCurrent, when NVDA's main thread comes to it.             *)
Release(c) ==
  /\ main \in {"running", "off"} /\ c \in releases
  /\ releases' = releases \ {c}
  /\ \/ current /\ Terminate("off")
     \/ ~current /\ UNCHANGED <<main, then, object, connections, history>>

(* __del__: an instance that nobody holds closes itself.  It waits for its *)
(* reader on whatever thread it is on, which nobody sees.                  *)
Collect(c) ==
  /\ c \in escaped /\ ~closed[c] /\ main \notin {"connect", "services", "abandon"}
  /\ closed' = Start(closed, c) /\ stopped' = Start(stopped, c) /\ Disconnect(c)
  /\ UNCHANGED <<main, then, object, releases, made, attempt, linked, reader, received, skipped,
                 history>>

(* Something to send: frames, requests.                                    *)
Send ==
  /\ main = "running" /\ queue = <<>>
  /\ queue' = <<"other">> /\ unfinished' = unfinished + 1
  /\ UNCHANGED <<main, then, session, current, dev, terminating, leaving, gate, gone, board, sender,
                 releases, connections, history>>

(* What NVDA's thread does without being asked again.                      *)
GoOn ==
  \/ Reinitialise \/ TryPort \/ NoPort
  \/ Connect \/ ConnectReturns \/ ConnectRaises \/ ConnectTimesOut
  \/ ConnectionIsUp \/ NotUsable \/ Abandoned \/ AbandonTimesOut
  \/ ProbeTimesOut \/ ProbeAnswered \/ DrainReceived \/ JoinReader
  \/ GiveUp \/ Flush \/ Join

MainStep ==
  \/ GoOn
  \/ Construct \/ Reselect \/ SwitchAway \/ Send
  \/ \E c \in Connections : Release(c) \/ Collect(c)

-----------------------------------------------------------------------------
(* The sender threads.  Each works on the fields as they are when it reads *)
(* them, whichever session it was started in.                              *)

(* Mutant: a replaced queue is counted down all the same.                  *)
Done_Unchecked(s) == unfinished' = unfinished - 1 /\ sender' = [sender EXCEPT ![s] = Idle]

(* task_done, which raises and ends the thread when the queue has been     *)
(* replaced and counts nothing.                                            *)
Done(s) ==
  IF unfinished > 0
  THEN unfinished' = unfinished - 1 /\ sender' = [sender EXCEPT ![s] = Idle]
  ELSE unfinished' = unfinished /\ sender' = [sender EXCEPT ![s] = Exited]

(* _reportDisplayUnavailable *)
Report(c) == releases' = IF leaving THEN releases ELSE releases \cup {c}

SenderExits(s) ==
  /\ sender[s].at = "get" /\ terminating
  /\ sender' = [sender EXCEPT ![s] = Exited]
  /\ UNCHANGED <<main, then, session, current, fields, releases, connections, history>>

Take(s) ==
  /\ sender[s].at = "get" /\ ~terminating /\ queue # <<>>
  /\ queue' = Tail(queue)
  /\ IF gone THEN Done(s)
     ELSE sender' = [sender EXCEPT ![s].at = "slot", ![s].packet = Head(queue)] /\ UNCHANGED unfinished
  /\ UNCHANGED <<main, then, session, current, dev, terminating, leaving, gate, gone, board, releases,
                 connections, history>>

SlotOpens(s) ==
  /\ sender[s].at = "slot" /\ gate /\ ~terminating
  /\ gate' = FALSE
  /\ sender' = [sender EXCEPT ![s].at = "write", ![s].on = dev]
  /\ UNCHANGED <<main, then, session, current, dev, terminating, leaving, gone, queue, unfinished,
                 board, releases, connections, history>>

(* The wait is given up: on the way out, or because the display does not   *)
(* answer or has gone.                                                     *)
GiveUpSlot(s) ==
  /\ sender[s].at = "slot" /\ (~gate \/ terminating)
  /\ IF terminating \/ leaving THEN UNCHANGED <<gone, releases>> ELSE gone' = TRUE /\ Report(dev)
  /\ Done(s)
  /\ UNCHANGED <<main, then, session, current, dev, terminating, leaving, gate, queue, board,
                 connections, history>>

(* The display does not answer, and the last line is sent to it again.     *)
Resend(s) ==
  /\ sender[s].at = "slot" /\ ~gate
  /\ sender' = [sender EXCEPT ![s].at = "resend", ![s].on = dev]
  /\ UNCHANGED <<main, then, session, current, fields, releases, connections, history>>

(* The wait for the gate goes on.  A probe sent twice is answered once.    *)
ResendReturns(s) ==
  /\ sender[s].at = "resend" /\ linked[sender[s].on]
  /\ sender' = [sender EXCEPT ![s].at = "slot"]
  /\ UNCHANGED <<main, then, session, current, fields, releases, connections, history>>

ResendRaises(s) ==
  /\ sender[s].at = "resend" /\ ~linked[sender[s].on]
  /\ gone' = (gone \/ ~leaving) /\ Report(sender[s].on)
  /\ Done(s)
  /\ UNCHANGED <<main, then, session, current, dev, terminating, leaving, gate, queue, board,
                 connections, history>>

(* A write returns once it is handed over; the device may answer a probe.  *)
WriteReturns(s) ==
  /\ sender[s].at = "write" /\ linked[sender[s].on]
  /\ received' \in {received} \cup
       (IF sender[s].packet = "probe" /\ ~stopped[sender[s].on]
        THEN {[received EXCEPT ![sender[s].on] = @ + 1]} ELSE {})
  /\ Done(s)
  /\ UNCHANGED <<main, then, session, current, dev, terminating, leaving, gate, gone, queue, board,
                 releases, made, links, reader, skipped, stopped, closed, remembered, history>>

WriteRaises(s) ==
  /\ sender[s].at = "write" /\ ~linked[sender[s].on]
  /\ gate' = TRUE /\ gone' = TRUE /\ Report(sender[s].on)
  /\ Done(s)
  /\ UNCHANGED <<main, then, session, current, dev, terminating, leaving, queue, board, connections,
                 history>>

SenderStep ==
  \E s \in Sessions :
    \/ SenderExits(s) \/ Take(s) \/ SlotOpens(s) \/ GiveUpSlot(s)
    \/ Resend(s) \/ ResendReturns(s) \/ ResendRaises(s) \/ WriteReturns(s) \/ WriteRaises(s)

-----------------------------------------------------------------------------
(* The reader of a connection: queueReader.  It tests the stop event and   *)
(* then waits, so it may still take what is there when it is stopped.      *)

ReaderTakes(c) ==
  /\ reader[c] = "waiting" /\ received[c] > 0
  /\ reader' = [reader EXCEPT ![c] = "dispatching"]
  /\ received' = [received EXCEPT ![c] = @ - 1]
  /\ UNCHANGED <<main, then, object, releases, made, links, skipped, stopped, closed, remembered,
                 history>>

(* _onReceive builds the displays, publishes the board information, even   *)
(* when that raises, and opens the gate.  An exception, perhaps before all *)
(* of it, leaves the gate shut and the data is never marked done.          *)
Dispatch(c) ==
  /\ reader[c] = "dispatching"
  /\ \/ board' = c /\ gate' = TRUE /\ UNCHANGED skipped
     \/ board' \in {board, c} /\ skipped' = Start(skipped, c) /\ UNCHANGED gate
  /\ reader' = [reader EXCEPT ![c] = IF stopped[c] THEN "ended" ELSE "waiting"]
  /\ UNCHANGED <<main, then, session, current, dev, terminating, leaving, gone, queue, unfinished,
                 sender, releases, made, links, received, stopped, closed, remembered, history>>

ReaderEnds(c) ==
  /\ reader[c] = "waiting" /\ stopped[c]
  /\ reader' = [reader EXCEPT ![c] = "ended"]
  /\ UNCHANGED <<main, then, object, releases, made, links, received, skipped, stopped, closed,
                 remembered, history>>

ReaderStep == \E c \in Connections : ReaderTakes(c) \/ Dispatch(c) \/ ReaderEnds(c)

-----------------------------------------------------------------------------
(* The event loop and the device (bleak). *)

linkFrame == <<main, then, object, releases, made, readers, closed, stalled, overran, impatient>>

Progress(c) ==
  /\ \/ /\ attempt[c] = "connecting" /\ disconnect[c] = "none"
        /\ \/ /\ attempt' = [attempt EXCEPT ![c] = "subscribing"]
              /\ linked' = Start(linked, c)
           \/ attempt' \in {[attempt EXCEPT ![c] = how] : how \in {"failed", "timed out"}}
              /\ UNCHANGED linked
     \/ /\ attempt[c] = "subscribing" /\ disconnect[c] = "none"
        /\ attempt' \in {[attempt EXCEPT ![c] = how] :
                           how \in {"failed"} \cup IF linked[c] THEN {"done"} ELSE {}}
        /\ UNCHANGED linked
  /\ UNCHANGED <<linkFrame, disconnect, remembered, escaped>>

(* The attempt is cancelled before the disconnect that follows it starts.  *)
Cancel(c) ==
  /\ disconnect[c] = "asked"
  /\ disconnect' = [disconnect EXCEPT ![c] = "running"]
  /\ attempt' = [attempt EXCEPT ![c] = IF @ = "done" THEN "done" ELSE "failed"]
  /\ UNCHANGED <<linkFrame, linked, remembered, escaped>>

(* A disconnect ends, and is forgotten if it is the one remembered.  That  *)
(* of an abandoned attempt may raise, which leaves the link up.            *)
Disconnected(c) ==
  /\ disconnect[c] = "running"
  /\ disconnect' = [disconnect EXCEPT ![c] = "over"]
  /\ \/ linked' = [linked EXCEPT ![c] = FALSE] /\ UNCHANGED escaped
     \/ linked[c] /\ ~closed[c] /\ escaped' = escaped \cup {c} /\ UNCHANGED linked
  /\ remembered' = IF remembered = c THEN 0 ELSE remembered
  /\ UNCHANGED <<linkFrame, attempt>>

(* The device goes out of reach or is switched off.                        *)
LoseLink(c) ==
  /\ linked[c] /\ linked' = [linked EXCEPT ![c] = FALSE]
  /\ UNCHANGED <<linkFrame, attempt, disconnect, remembered, escaped>>

LoopStep == \E c \in Connections : Progress(c) \/ Cancel(c) \/ Disconnected(c) \/ LoseLink(c)

Init ==
  /\ main = "off" /\ then = "off" /\ session = 0 /\ current = FALSE
  /\ dev = 0 /\ terminating = FALSE /\ leaving = FALSE /\ gate = TRUE /\ gone = FALSE
  /\ queue = <<>> /\ unfinished = 0 /\ board = 0
  /\ sender = [s \in Sessions |-> Exited] /\ releases = {}
  /\ made = 0
  /\ attempt = [c \in Connections |-> "none"] /\ disconnect = [c \in Connections |-> "none"]
  /\ linked = [c \in Connections |-> FALSE]
  /\ reader = [c \in Connections |-> "none"] /\ received = [c \in Connections |-> 0]
  /\ skipped = [c \in Connections |-> FALSE] /\ stopped = [c \in Connections |-> FALSE]
  /\ closed = [c \in Connections |-> FALSE] /\ remembered = 0
  /\ stalled = {} /\ overran = {} /\ escaped = {} /\ impatient = {}

Next == MainStep \/ SenderStep \/ ReaderStep \/ LoopStep

Spec == Init /\ [][Next]_vars

(* Time passes and threads are scheduled, and a sender that waits for the  *)
(* gate does not go round for ever: the display is given up at the second  *)
(* time-out in a row, and each round begins with a test of _isTerminating. *)
(* Nothing is assumed of a write, of the event loop or of the device.      *)
Fairness ==
  /\ WF_vars(GoOn)
  /\ \A s \in Sessions : SF_vars(SenderExits(s) \/ GiveUpSlot(s))
  /\ \A c \in Connections : WF_vars(ReaderEnds(c))

FairSpec == Spec /\ Fairness

-----------------------------------------------------------------------------
(* Properties. *)

TypeOK ==
  /\ main \in {"off", "again", "port", "await", "connect", "services", "abandon", "probe", "running",
               "failed", "flush", "join", "drain", "reader"}
  /\ then \in {"off", "again", "port"} /\ session \in 0 .. MaxSessions /\ current \in BOOLEAN
  /\ dev \in 0 .. made /\ made \in 0 .. MaxConnections /\ board \in 0 .. made
  /\ {terminating, leaving, gate, gone} \subseteq BOOLEAN
  /\ queue \in Seq({"probe", "other"}) /\ unfinished \in Nat
  /\ sender \in [Sessions -> [at : {"get", "slot", "resend", "write", "exited"},
                              packet : {"none", "probe", "other"}, on : 0 .. made]]
  /\ releases \subseteq Connections
  /\ attempt \in [Connections -> {"none", "connecting", "subscribing", "done", "failed", "timed out"}]
  /\ disconnect \in [Connections -> {"none", "asked", "running", "over"}]
  /\ reader \in [Connections -> {"none", "waiting", "dispatching", "ended"}]
  /\ received \in [Connections -> Nat] /\ remembered \in 0 .. made
  /\ {linked, skipped, stopped, closed} \subseteq [Connections -> BOOLEAN]
  /\ {overran, escaped, impatient} \subseteq SUBSET Connections /\ stalled \subseteq Sessions

(* While a display is opened or in use, its queue has one sender, the one  *)
(* of this session.  It takes a write, also one of a line that is sent     *)
(* again in the wait for the gate, that outlives terminate's join, on a    *)
(* display that NVDA then opens again, to leave another.                   *)
OneSender ==
  main \in {"port", "await", "connect", "services", "abandon", "probe", "running"} /\ stalled = {}
    => \A s \in Sessions : Alive(s) <=> s = session

(* No connection but the one in use outlives its attempt or its session:   *)
(* it is down or going down, and its reader has ended or is about to.      *)
(* Exceptions: an attempt that failed otherwise than by a time-out, and an *)
(* abandoned one whose disconnect takes too long or raises.                *)
NoLingering ==
  main \in {"off", "again", "port", "running"} =>
    \A c \in 1 .. made :
      c \in escaped \/ (main = "running" /\ c = dev)
      \/ /\ linked[c] => disconnect[c] = "running"
         /\ stopped[c]

(* The device is not connected to while a disconnect from it is under way, *)
(* unless a connection did not wait to the end of one, and may have had    *)
(* its own remembered instead, or an instance was left to be collected.    *)
ConnectAlone ==
  \A c, d \in Connections :
    attempt[c] = "connecting" /\ d # c /\ disconnect[d] = "running"
      => impatient \cup escaped # {}

(* The board information a port is accepted on is that of the device it    *)
(* connected to: an answer that comes after its port was given up is not   *)
(* taken for that of the next, unless its dispatch outlives the close.     *)
(* This says nothing of the displays that were built before, which are     *)
(* dropped once for each __init__, not for each port.                      *)
FreshInformation == main = "running" => board = dev \/ overran # {}

(* Opening and giving up a display come to an end, whatever the device and *)
(* the event loop do: NVDA's main thread is never left waiting, for a      *)
(* sender held up in a write in particular.                                *)
MainReturns == main \notin {"off", "running"} ~> main \in {"off", "running"}
=============================================================================
