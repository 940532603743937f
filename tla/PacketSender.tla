---------------------------- MODULE PacketSender ----------------------------
(***************************************************************************)
(* The send path of the DotPad driver on one open connection: the packet   *)
(* queue, the sender thread with its gate and its retries, the threads     *)
(* that draw frames with no lock between them, the main thread (manual     *)
(* refresh, then terminate()), the reader thread's effect on the gate, and *)
(* the display itself.                                                     *)
(*                                                                         *)
(* Data abstraction.  A row's cells are the number of the frame last drawn *)
(* in it, 0 being blank; every draw that writes a row is a frame of its    *)
(* own, whatever it looks like.  A packet's timestamp is the rank n it was *)
(* created in (time.time() has 100 ns resolution on the Python this add-on *)
(* requires, so two packets never share one); 0 stands for None and        *)
(* for the 0.0 that a blocked write returns.  Time itself is a choice: a   *)
(* wait may expire at any moment its condition is false.  What only paces  *)
(* refreshes (lastRefreshAttempt, the intervals) is therefore left out,    *)
(* and so is awaitingAck, which nothing in the add-on ever sets.           *)
(***************************************************************************)
EXTENDS Integers, FiniteSets

CONSTANTS
  Rows,           \* destinations of the external rows
  Drawers,        \* threads that call Display.display
  MainThread,     \* the main thread, which may be one of them
  AutoRefresh,    \* is automatic refresh configured for the display?
  AutoRefreshNum, \* AUTO_REFRESH_NUM, the refreshes that follow a frame
  ManualRefresh,  \* may the user ask for a refresh?
  Ble,            \* BLE transport, rather than serial
  Faulty,         \* may the link fail, or the display lose or reject a line?
  MaxPackets,     \* bound: no new operation starts once so many packets exist
  MaxAtEnd,       \* bound: terminate() begins while no more packets exist
  MaxUnanswered,  \* bound: a display so many lines behind is not sent a resend
  MaxFrames,      \* bound: frames drawn in a row
  NoPacket        \* the sender holds no packet

Blank == 0
MAX_CONSECUTIVE_RENDER_TIMEOUTS == 2
MAX_TRIES == 3
AUTO_REFRESH_PRIORITY == 999

(* "frame": drawn content or a clear; "refresh": Display.refresh();        *)
(* "idle": the sender's own idle refresh, the only kind the code can tell  *)
(* from the others, by its priority.                                       *)
Packet == [n : Nat, row : Rows, frame : Nat, kind : {"frame", "refresh", "idle"}]

ASSUME RowsAssumption == Rows \subseteq Nat /\ Rows # {} /\ IsFiniteSet(Rows)
ASSUME ConfigAssumption ==
  /\ AutoRefresh \in BOOLEAN /\ ManualRefresh \in BOOLEAN /\ Ble \in BOOLEAN
  /\ Faulty \in BOOLEAN
  /\ AutoRefreshNum \in Nat
ASSUME BoundAssumption == {MaxPackets, MaxAtEnd, MaxFrames, MaxUnanswered} \subseteq Nat
ASSUME NoPacketAssumption == NoPacket \notin Packet

VARIABLES
  queue,         \* _queuedPackets: a heap on priority alone
  unfinished,    \* its unfinished_tasks
  serial,        \* packets created so far
  cells,         \* frame held by each row of externalCells
  lastWritten,   \* ExternalRowEntry.lastWritten
  lastRefreshed, \* ExternalRowEntry.lastRefreshed
  refreshCount,  \* ExternalRowEntry.refreshCount
  maxRefreshes,  \* _maxRefreshes
  draw,          \* where each drawing thread is, inside Display.display for one row
  main,          \* where the main thread is
  left,          \* rows a manual refresh has still to do
  seen,          \* frame the manual refresh read from the row it is at
  pc,            \* where the sender thread is
  hand,          \* packet the sender took from the queue, or is building
  todo,          \* rows the idle check has still to look at
  leaving,       \* _waitForSendSlot's local "terminating"
  ready,         \* _readyToSend, the gate
  timeouts,      \* _consecutiveRenderTimeouts
  lastSent,      \* _lastSentPacket is not None
  tries,         \* _lastSentPacketNumTries
  displayGone,   \* _displayGone
  reports,       \* callLater(releaseIfStillCurrent) calls made
  link,          \* "up", "silent" (writes succeed, no answers) or "down"
  unanswered,    \* lines the display received and has not rendered yet
  faults,        \* has the link or the display lost anything?
  handed,        \* history: the frame of each row last handed to the transport
  raced          \* history: rows whose last draw was not left alone

queueVars  == <<queue, unfinished, serial>>
rowVars    == <<cells, lastWritten, lastRefreshed, refreshCount, maxRefreshes>>
mainVars   == <<main, left, seen>>
senderVars == <<pc, hand, todo, leaving, lastSent, tries, displayGone, reports>>
gateVars   == <<ready, timeouts>>
deviceVars == <<link, unanswered, faults>>
raceVars   == <<draw, raced>>
vars == <<queueVars, rowVars, raceVars, mainVars, senderVars, gateVars, deviceVars, handed>>

terminationStarted == main \notin {"run", "refresh", "refreshPut"}
blockNewWrites == terminationStarted /\ main # "block"
isTerminating == main \in {"join", "closed"}

FirstRow == CHOOSE r \in Rows : TRUE
Resting == [at |-> "rest", row |-> FirstRow, frame |-> Blank, n |-> 0, alone |-> TRUE]
Priority(p) == IF p.kind = "idle" THEN AUTO_REFRESH_PRIORITY + p.row ELSE p.row

(* The displays have just been built: the last packet sent is the answered *)
(* request for the board information, each row's constructor clear() is    *)
(* queued and stamped, and no line has reached the display.                *)
Init ==
  /\ queue = {[n |-> 1, row |-> r, frame |-> Blank, kind |-> "frame"] : r \in Rows}
  /\ unfinished = Cardinality(queue)
  /\ serial = 1
  /\ cells = [r \in Rows |-> Blank]
  /\ lastWritten = [r \in Rows |-> 1]
  /\ lastRefreshed = [r \in Rows |-> 0]
  /\ refreshCount = [r \in Rows |-> 0]
  /\ maxRefreshes = [r \in Rows |-> 0]
  /\ draw = [d \in Drawers |-> Resting] /\ raced = [r \in Rows |-> FALSE]
  /\ main = "run" /\ left = {} /\ seen = Blank
  /\ pc = "get" /\ hand = NoPacket /\ todo = {} /\ leaving = FALSE
  /\ lastSent = TRUE /\ tries = 0 /\ displayGone = FALSE /\ reports = 0
  /\ ready = TRUE /\ timeouts = 0
  /\ link = "up" /\ unanswered = 0 /\ faults = FALSE
  /\ handed = [r \in Rows |-> -1]

-----------------------------------------------------------------------------
(* The queue. *)

Put(p, refreshes) ==
  /\ queue' = queue \cup {p}
  /\ unfinished' = unfinished + 1
  /\ serial' = p.n
  /\ maxRefreshes' = [maxRefreshes EXCEPT ![p.row] = refreshes]

NewPacket(r, frame, kind) == [n |-> serial + 1, row |-> r, frame |-> frame, kind |-> kind]

-----------------------------------------------------------------------------
(* The drawing threads: Display.display, one row at a time.  A row is      *)
(* written when its cells changed, or unchanged when forced or never       *)
(* written before; otherwise nothing happens.                              *)

InRow(d, r) == draw[d].at # "rest" /\ draw[d].row = r

(* A refresh has read the row and not queued what it read.                 *)
Refreshing(r) ==
  \/ main = "refreshPut" /\ r \in left /\ \A q \in left : r <= q
  \/ pc = "idlePut" /\ hand.row = r

(* The draws in progress in a row are disturbed.                           *)
Disturbed(r) ==
  [d \in Drawers |-> IF InRow(d, r) THEN [draw[d] EXCEPT !.alone = FALSE] ELSE draw[d]]

(* A refresh reads a row.  If a draw is in progress in it, nobody knows    *)
(* which of them is the newer.                                             *)
ReadRace(r) ==
  /\ draw' = Disturbed(r)
  /\ raced' = [raced EXCEPT ![r] = @ \/ \E d \in Drawers : InRow(d, r)]

Draw(d, r) ==
  /\ draw[d] = Resting /\ main # "closed" /\ serial < MaxPackets
  /\ d = MainThread => main = "run"
  /\ cells[r] < MaxFrames
  /\ cells' = [cells EXCEPT ![r] = @ + 1]
  /\ LET alone == ~Refreshing(r) /\ \A e \in Drawers : ~InRow(e, r)
     IN  /\ draw' = [Disturbed(r) EXCEPT
                       ![d] = [at |-> "drawn", row |-> r, frame |-> Blank, n |-> 0, alone |-> alone]]
         /\ raced' = [raced EXCEPT ![r] = @ \/ ~alone]
  /\ UNCHANGED <<queueVars, lastWritten, lastRefreshed, refreshCount, maxRefreshes,
                 mainVars, senderVars, gateVars, deviceVars, handed>>

(* The row is copied into a packet, and the block tested: a write that is  *)
(* not blocked at the test was not blocked at the copy either.             *)
CopyRow(d) ==
  /\ draw[d].at = "drawn"
  /\ draw' = [draw EXCEPT ![d] = IF blockNewWrites THEN [@ EXCEPT !.at = "stamp"]
                                  ELSE [@ EXCEPT !.at = "put", !.frame = cells[draw[d].row]]]
  /\ UNCHANGED <<queueVars, rowVars, raced, mainVars, senderVars, gateVars, deviceVars, handed>>

PutFrame(d) ==
  /\ draw[d].at = "put"
  /\ LET p == NewPacket(draw[d].row, draw[d].frame, "frame")
     IN  /\ Put(p, IF AutoRefresh THEN AutoRefreshNum ELSE 0)
         /\ draw' = [draw EXCEPT ![d] = [@ EXCEPT !.at = "stamp", !.n = p.n, !.frame = Blank]]
  /\ UNCHANGED <<cells, lastWritten, lastRefreshed, refreshCount, raced,
                 mainVars, senderVars, gateVars, deviceVars, handed>>

(* The sender is about to send what is older than this draw.               *)
Outdated(d) == hand # NoPacket /\ pc # "popped" /\ hand.row = draw[d].row /\ hand.n < draw[d].n

(* A draw that was left alone makes up for the races before it.            *)
StampRow(d) ==
  /\ draw[d].at = "stamp"
  /\ lastWritten' = [lastWritten EXCEPT ![draw[d].row] = draw[d].n]
  /\ raced' = [raced EXCEPT ![draw[d].row] = @ /\ ~(draw[d].alone /\ ~Outdated(d))]
  /\ draw' = [draw EXCEPT ![d] = Resting]
  /\ UNCHANGED <<queueVars, cells, lastRefreshed, refreshCount, maxRefreshes,
                 mainVars, senderVars, gateVars, deviceVars, handed>>

DrawStep(d) == CopyRow(d) \/ PutFrame(d) \/ StampRow(d)

-----------------------------------------------------------------------------
(* The main thread: Display.refresh() row by row, and terminate(). *)

MainDraws == MainThread \in Drawers /\ draw[MainThread] # Resting

StartRefresh ==
  /\ main = "run" /\ ManualRefresh /\ serial < MaxPackets /\ ~MainDraws
  /\ main' = "refresh" /\ left' = Rows
  /\ UNCHANGED <<queueVars, rowVars, raceVars, seen, senderVars, gateVars, deviceVars, handed>>

ReadRow(r) ==
  /\ main = "refresh"
  /\ r \in left /\ \A q \in left : r <= q
  /\ seen' = cells[r] /\ main' = "refreshPut"
  /\ ReadRace(r)
  /\ UNCHANGED <<queueVars, rowVars, left, senderVars, gateVars, deviceVars, handed>>

PutRefresh(r) ==
  /\ main = "refreshPut"
  /\ r \in left /\ \A q \in left : r <= q
  /\ Put(NewPacket(r, seen, "refresh"), 0)
  /\ left' = left \ {r}
  /\ main' = IF left' = {} THEN "run" ELSE "refresh"
  /\ seen' = Blank
  /\ UNCHANGED <<cells, lastWritten, lastRefreshed, refreshCount,
                 raceVars, senderVars, gateVars, deviceVars, handed>>

StartTermination ==
  /\ main = "run" /\ serial <= MaxAtEnd /\ ~MainDraws
  /\ main' = "block"
  /\ UNCHANGED <<queueVars, rowVars, raceVars, left, seen, senderVars, gateVars, deviceVars, handed>>

BlockNewWrites ==
  /\ main = "block"
  /\ main' = "drain"
  /\ UNCHANGED <<queueVars, rowVars, raceVars, left, seen, senderVars, gateVars, deviceVars, handed>>

DrainOne(p) ==
  /\ main = "drain"
  /\ p \in queue /\ \A q \in queue : Priority(p) <= Priority(q)
  /\ queue' = queue \ {p} /\ main' = "drained"
  /\ UNCHANGED <<unfinished, serial, rowVars, raceVars, left, seen, senderVars, gateVars, deviceVars,
                 handed>>

DrainedOne ==
  /\ main = "drained"
  /\ unfinished' = unfinished - 1 /\ main' = "drain"
  /\ UNCHANGED <<queue, serial, rowVars, raceVars, left, seen, senderVars, gateVars, deviceVars, handed>>

(* Over BLE the clear is left to the display's own disconnect handling.    *)
DrainEnds ==
  /\ main = "drain" /\ queue = {}
  /\ IF Ble THEN main' = "flush" /\ UNCHANGED left
            ELSE main' = "clear" /\ left' = Rows
  /\ UNCHANGED <<queueVars, rowVars, raceVars, seen, senderVars, gateVars, deviceVars, handed>>

(* clearForTermination leaves row.lastWritten alone. *)
ClearRow(r) ==
  /\ main = "clear"
  /\ r \in left /\ \A q \in left : r <= q
  /\ cells' = [cells EXCEPT ![r] = Blank]
  /\ Put(NewPacket(r, Blank, "frame"), 0)
  /\ left' = left \ {r}
  /\ main' = IF left' = {} THEN "flush" ELSE "clear"
  /\ UNCHANGED <<lastWritten, lastRefreshed, refreshCount,
                 seen, raceVars, senderVars, gateVars, deviceVars, handed>>

(* _waitForQueueDrain returns: everything is done, or the deadline passed. *)
FlushEnds ==
  /\ main = "flush"
  /\ main' = "join"
  /\ UNCHANGED <<queueVars, rowVars, raceVars, left, seen, senderVars, gateVars, deviceVars, handed>>

(* join returns: the sender exited, or the deadline passed. *)
JoinEnds ==
  /\ main = "join"
  /\ main' = "closed"
  /\ UNCHANGED <<queueVars, rowVars, raceVars, left, seen, senderVars, gateVars, deviceVars, handed>>

MainStep ==
  \/ StartRefresh \/ \E r \in Rows : ReadRow(r) \/ PutRefresh(r)
  \/ StartTermination \/ BlockNewWrites \/ (\E p \in queue : DrainOne(p)) \/ DrainedOne
  \/ DrainEnds \/ \E r \in Rows : ClearRow(r)
  \/ FlushEnds \/ JoinEnds

-----------------------------------------------------------------------------
(* The sender thread: _queuedPacketsSender, one packet at a time. *)

Connected == ~Ble \/ (link # "down" /\ main # "closed")
Writable == link # "down" /\ main # "closed"

Loop == IF isTerminating THEN "exited" ELSE "get"

(* Mutant: the early return for a display that is gone skips task_done().  *)
TaskDone_SkippedWhenGone == unfinished' = IF displayGone THEN unfinished ELSE unfinished - 1

(* Mutant: a packet given up on is counted as done twice.                  *)
TaskDone_TwiceOnGiveUp == unfinished' = IF pc = "failed" THEN unfinished - 2 ELSE unfinished - 1

TaskDone == unfinished' = unfinished - 1

(* task_done(), and back to the head of the loop.                          *)
Finish ==
  /\ TaskDone
  /\ pc' = Loop /\ hand' = NoPacket /\ leaving' = FALSE

(* Mutant: a disconnected link is only noted.                              *)
Report_NotOnDisconnect ==
  reports' = IF terminationStarted \/ (pc = "expired" /\ ~Connected) THEN reports ELSE reports + 1

(* _reportDisplayUnavailable.                                              *)
Report == reports' = IF terminationStarted THEN reports ELSE reports + 1

Take(p) ==
  /\ pc = "get"
  /\ p \in queue /\ \A q \in queue : Priority(p) <= Priority(q)
  /\ queue' = queue \ {p} /\ hand' = p /\ pc' = "popped"
  /\ UNCHANGED <<unfinished, serial, rowVars, raceVars, mainVars, todo, leaving, lastSent,
                 tries, displayGone, reports, gateVars, deviceVars, handed>>

(* Mutant: only automatic refreshes are dropped.                           *)
Superseded_RefreshesOnly(p) ==
  main # "closed" /\ p.kind = "idle" /\ AutoRefresh /\ lastRefreshed[p.row] > p.n

(* Mutant: the comparison with lastWritten admits equality.                *)
Superseded_OrEqual(p) ==
  /\ main # "closed"
  /\ \/ p.kind = "idle" /\ AutoRefresh /\ lastRefreshed[p.row] > p.n
     \/ lastWritten[p.row] >= p.n

(* hasBeenRefreshedSince or hasBeenWrittenSince.  Once terminate() has     *)
(* dropped the displays no row is found and nothing is stale.              *)
Superseded(p) ==
  /\ main # "closed"
  /\ \/ p.kind = "idle" /\ AutoRefresh /\ lastRefreshed[p.row] > p.n
     \/ lastWritten[p.row] > p.n

DropPacket ==
  /\ pc = "popped"
  /\ displayGone \/ Superseded(hand)
  /\ Finish
  /\ UNCHANGED <<queue, serial, rowVars, raceVars, mainVars, todo, lastSent, tries, displayGone,
                 reports, gateVars, deviceVars, handed>>

(* The heap does not keep packets of one row in order, so the sender may   *)
(* have sent the newer one: an older one passes until the row is stamped.  *)
PassRace(p) ==
  IF \E d \in Drawers : draw[d].at = "stamp" /\ draw[d].row = p.row /\ draw[d].n > p.n
  THEN draw' = Disturbed(p.row) /\ raced' = [raced EXCEPT ![p.row] = TRUE]
  ELSE UNCHANGED raceVars

(* The row's bookkeeping, then the first test of _waitForSendSlot's loop.  *)
ExaminePacket ==
  /\ pc = "popped" /\ ~displayGone /\ ~Superseded(hand)
  /\ IF main = "closed" THEN UNCHANGED <<lastRefreshed, refreshCount>>
     ELSE IF hand.kind = "idle"
     THEN /\ lastRefreshed' = [lastRefreshed EXCEPT ![hand.row] = hand.n]
          /\ refreshCount' = [refreshCount EXCEPT ![hand.row] = @ + 1]
     ELSE /\ refreshCount' = [refreshCount EXCEPT ![hand.row] = 0]
          /\ UNCHANGED lastRefreshed
  /\ pc' = IF isTerminating THEN "failed" ELSE "wait"
  /\ leaving' = terminationStarted
  /\ PassRace(hand)
  /\ UNCHANGED <<queueVars, cells, lastWritten, maxRefreshes, mainVars, hand, todo,
                 lastSent, tries, displayGone, reports, gateVars, deviceVars, handed>>

(* wait() returns True, and the gate is shut before the write. *)
SlotOpens ==
  /\ pc = "wait" /\ ready
  /\ ready' = FALSE /\ pc' = "write"
  /\ UNCHANGED <<queueVars, rowVars, raceVars, mainVars, hand, todo, leaving, lastSent, tries,
                 displayGone, reports, timeouts, deviceVars, handed>>

WaitExpires ==
  /\ pc = "wait" /\ ~ready
  /\ pc' = "expired"
  /\ UNCHANGED <<queueVars, rowVars, raceVars, mainVars, hand, todo, leaving, lastSent, tries,
                 displayGone, reports, gateVars, deviceVars, handed>>

WaitAgain == IF isTerminating THEN "failed" ELSE "wait"

GiveUpLeaving ==
  /\ pc = "expired" /\ leaving
  /\ pc' = "failed"
  /\ UNCHANGED <<queueVars, rowVars, raceVars, mainVars, hand, todo, leaving, lastSent, tries,
                 displayGone, reports, gateVars, deviceVars, handed>>

NoticeDisconnect ==
  /\ pc = "expired" /\ ~Connected
  /\ Report /\ pc' = "failed"
  /\ UNCHANGED <<queueVars, rowVars, raceVars, mainVars, hand, todo, leaving, lastSent, tries,
                 displayGone, gateVars, deviceVars, handed>>

KeepWaiting ==
  /\ pc = "expired" /\ Connected
  /\ pc' = WaitAgain
  /\ UNCHANGED <<queueVars, rowVars, raceVars, mainVars, hand, todo, leaving, lastSent, tries,
                 displayGone, reports, gateVars, deviceVars, handed>>

(* The render budget is spent while the link looks up. *)
RenderTimeout ==
  /\ pc = "expired" /\ Connected /\ unanswered < MaxUnanswered
  /\ timeouts' = timeouts + 1
  /\ IF timeouts' >= MAX_CONSECUTIVE_RENDER_TIMEOUTS
     THEN Report /\ pc' = "failed"
     ELSE pc' = "resend" /\ UNCHANGED reports
  /\ UNCHANGED <<queueVars, rowVars, raceVars, mainVars, hand, todo, leaving, lastSent, tries,
                 displayGone, ready, deviceVars, handed>>

(* What dev.write(packet) does to the display when it does not raise.      *)
Transmit == unanswered' = IF link = "up" THEN unanswered + 1 ELSE unanswered

(* _resendLastPacket, of a line there always is: see ShutGateHasLine.       *)
ResendLine ==
  /\ pc = "resend" /\ lastSent /\ tries < MAX_TRIES /\ Writable
  /\ tries' = tries + 1 /\ Transmit /\ pc' = WaitAgain
  /\ UNCHANGED <<queueVars, rowVars, raceVars, mainVars, hand, todo, leaving, lastSent,
                 displayGone, reports, gateVars, link, faults, handed>>

ResendFails ==
  /\ pc = "resend" /\ lastSent /\ tries < MAX_TRIES /\ ~Writable
  /\ tries' = tries + 1 /\ Report /\ pc' = "failed"
  /\ UNCHANGED <<queueVars, rowVars, raceVars, mainVars, hand, todo, leaving, lastSent,
                 displayGone, gateVars, deviceVars, handed>>

(* Mutant: the line is forgotten but the gate stays shut.                  *)
AbandonLine_GateStaysShut ==
  /\ pc = "resend" /\ lastSent /\ tries >= MAX_TRIES
  /\ lastSent' = FALSE /\ tries' = 0 /\ pc' = WaitAgain
  /\ UNCHANGED <<queueVars, rowVars, raceVars, mainVars, hand, todo, leaving,
                 displayGone, reports, gateVars, deviceVars, handed>>

(* Three resends of this line are enough: forget it and open the gate.     *)
AbandonLine ==
  /\ pc = "resend" /\ lastSent /\ tries >= MAX_TRIES
  /\ lastSent' = FALSE /\ tries' = 0 /\ ready' = TRUE /\ pc' = WaitAgain
  /\ UNCHANGED <<queueVars, rowVars, raceVars, mainVars, hand, todo, leaving,
                 displayGone, reports, timeouts, deviceVars, handed>>

(* Mutant: giving up on the display is not remembered.                     *)
Latch_Forgotten == UNCHANGED displayGone

Latch == displayGone' = (displayGone \/ ~terminationStarted)

(* _waitForSendSlot returned False.  On the way out that says nothing      *)
(* about the display.                                                      *)
GiveUpSlot ==
  /\ pc = "failed"
  /\ Latch
  /\ Finish
  /\ UNCHANGED <<queue, serial, rowVars, raceVars, mainVars, todo, lastSent, tries,
                 reports, gateVars, deviceVars, handed>>

SendBytes ==
  /\ pc = "write" /\ Writable
  /\ Transmit /\ pc' = "written"
  /\ handed' = [handed EXCEPT ![hand.row] = hand.frame]
  /\ UNCHANGED <<queueVars, rowVars, raceVars, mainVars, hand, todo, leaving, lastSent, tries,
                 displayGone, reports, gateVars, link, faults>>

(* Mutant: the gate is shut again once the write has returned.             *)
WriteReturns_ClearsGate ==
  /\ pc = "written"
  /\ lastSent' = TRUE /\ tries' = 0 /\ ready' = FALSE
  /\ Finish
  /\ UNCHANGED <<queue, serial, rowVars, raceVars, mainVars, todo, displayGone, reports,
                 timeouts, deviceVars, handed>>

WriteReturns ==
  /\ pc = "written"
  /\ lastSent' = TRUE /\ tries' = 0
  /\ Finish
  /\ UNCHANGED <<queue, serial, rowVars, raceVars, mainVars, todo, displayGone, reports,
                 gateVars, deviceVars, handed>>

WriteFails ==
  /\ pc \in {"write", "written"} /\ ~Writable
  /\ ready' = TRUE /\ Report /\ displayGone' = TRUE
  /\ Finish
  /\ UNCHANGED <<queue, serial, rowVars, raceVars, mainVars, todo, lastSent, tries,
                 timeouts, deviceVars, handed>>

-----------------------------------------------------------------------------
(* The sender thread with an empty queue: _checkIdleRefresh. *)

StartIdleCheck ==
  /\ pc = "get" /\ queue = {} /\ AutoRefresh /\ main # "closed"
  /\ pc' = "idle" /\ todo' = Rows
  /\ UNCHANGED <<queueVars, rowVars, raceVars, mainVars, hand, leaving, lastSent, tries,
                 displayGone, reports, gateVars, deviceVars, handed>>

(* Mutant: one refresh too many.                                           *)
BudgetLeft_OffByOne(r) == refreshCount[r] <= maxRefreshes[r]

BudgetLeft(r) == refreshCount[r] < maxRefreshes[r]

(* Rows are taken in order; any may be skipped for lack of elapsed time.   *)
ReadIdleRow(r) ==
  /\ pc = "idle" /\ r \in todo /\ serial < MaxPackets
  /\ maxRefreshes[r] # 0 /\ lastWritten[r] # 0 /\ BudgetLeft(r)
  /\ hand' = [n |-> 0, row |-> r, frame |-> cells[r], kind |-> "idle"]
  /\ todo' = {q \in todo : q > r}
  /\ pc' = "idlePut"
  /\ ReadRace(r)
  /\ UNCHANGED <<queueVars, rowVars, mainVars, leaving, lastSent, tries,
                 displayGone, reports, gateVars, deviceVars, handed>>

PutIdleRefresh ==
  /\ pc = "idlePut"
  /\ IF isTerminating THEN UNCHANGED queueVars
     ELSE /\ queue' = queue \cup {[hand EXCEPT !.n = serial + 1]}
          /\ unfinished' = unfinished + 1
          /\ serial' = serial + 1
  /\ hand' = NoPacket /\ pc' = "idle"
  /\ UNCHANGED <<rowVars, raceVars, mainVars, todo, leaving, lastSent, tries,
                 displayGone, reports, gateVars, deviceVars, handed>>

EndIdleCheck ==
  /\ pc = "idle"
  /\ pc' = Loop /\ todo' = {}
  /\ UNCHANGED <<queueVars, rowVars, raceVars, mainVars, hand, leaving, lastSent, tries,
                 displayGone, reports, gateVars, deviceVars, handed>>

Exit ==
  /\ pc = "get" /\ queue = {} /\ isTerminating
  /\ pc' = "exited"
  /\ UNCHANGED <<queueVars, rowVars, raceVars, mainVars, hand, todo, leaving, lastSent, tries,
                 displayGone, reports, gateVars, deviceVars, handed>>

SenderStep ==
  \/ \E p \in queue : Take(p)
  \/ DropPacket \/ ExaminePacket \/ SlotOpens \/ WaitExpires
  \/ GiveUpLeaving \/ NoticeDisconnect \/ KeepWaiting \/ RenderTimeout
  \/ ResendLine \/ ResendFails \/ AbandonLine \/ GiveUpSlot
  \/ SendBytes \/ WriteReturns \/ WriteFails
  \/ StartIdleCheck \/ \E r \in Rows : ReadIdleRow(r)
  \/ PutIdleRefresh \/ EndIdleCheck \/ Exit

-----------------------------------------------------------------------------
(* The display and the reader thread, _handleResponse.  Any packet shows   *)
(* that the display still responds; all but RSP_DISPLAY_LINE open the gate.*)

senderSide == <<queueVars, rowVars, raceVars, mainVars, senderVars, handed>>

RenderLine ==
  /\ link = "up" /\ unanswered > 0 /\ main # "closed"
  /\ unanswered' = unanswered - 1
  /\ timeouts' = 0 /\ ready' = TRUE
  /\ UNCHANGED <<senderSide, link, faults>>

AcknowledgeLine ==
  /\ link = "up" /\ unanswered > 0 /\ main # "closed"
  /\ timeouts' = 0
  /\ UNCHANGED <<senderSide, ready, deviceVars>>

RejectLine ==
  /\ Faulty /\ link = "up" /\ unanswered > 0 /\ main # "closed"
  /\ unanswered' = unanswered - 1 /\ faults' = TRUE
  /\ timeouts' = 0
  /\ UNCHANGED <<senderSide, ready, link>>

(* A key press, an error or any other packet nobody asked for.             *)
SendUnsolicited ==
  /\ link = "up" /\ main # "closed"
  /\ timeouts' = 0 /\ ready' = TRUE
  /\ UNCHANGED <<senderSide, deviceVars>>

LoseLine ==
  /\ Faulty /\ link = "up" /\ unanswered > 0
  /\ unanswered' = unanswered - 1 /\ faults' = TRUE
  /\ UNCHANGED <<senderSide, gateVars, link>>

ChangeLink(state) ==
  /\ Faulty
  /\ <<link, state>> \in {<<"up", "silent">>, <<"up", "down">>, <<"silent", "down">>,
                          <<"silent", "up">>}
  /\ link' = state /\ unanswered' = 0 /\ faults' = TRUE
  /\ UNCHANGED <<senderSide, gateVars>>

DeviceStep ==
  \/ RenderLine \/ AcknowledgeLine \/ RejectLine \/ SendUnsolicited \/ LoseLine
  \/ \E state \in {"up", "silent", "down"} : ChangeLink(state)

DrawerStep == \E d \in Drawers : (\E r \in Rows : Draw(d, r)) \/ DrawStep(d)

Next == DrawerStep \/ MainStep \/ SenderStep \/ DeviceStep

Spec == Init /\ [][Next]_vars

(* NVDA's threads are scheduled, and a wait that is not answered reaches   *)
(* its deadline.  Nothing is assumed of the display, the user or the link. *)
FairSpec ==
  /\ Spec
  /\ WF_vars(SenderStep) /\ SF_vars(RenderTimeout) /\ SF_vars(GiveUpLeaving)
  /\ WF_vars(DrainedOne) /\ \A d \in Drawers : WF_vars(DrawStep(d))

-----------------------------------------------------------------------------
(* Properties. *)

Senders == {"get", "popped", "wait", "expired", "resend", "failed", "write", "written",
            "idle", "idlePut", "exited"}
Mains == {"run", "refresh", "refreshPut", "block", "drain", "drained", "clear", "flush", "join", "closed"}

TypeOK ==
  /\ queue \subseteq Packet /\ unfinished \in Nat /\ serial \in Nat
  /\ cells \in [Rows -> Nat]
  /\ lastWritten \in [Rows -> Nat] /\ lastRefreshed \in [Rows -> Nat]
  /\ refreshCount \in [Rows -> Nat] /\ maxRefreshes \in [Rows -> Nat]
  /\ draw \in [Drawers -> [at : {"rest", "drawn", "put", "stamp"}, row : Rows, frame : Nat, n : Nat,
                            alone : BOOLEAN]]
  /\ raced \in [Rows -> BOOLEAN]
  /\ main \in Mains /\ left \subseteq Rows /\ seen \in Nat
  /\ pc \in Senders /\ hand \in Packet \cup {NoPacket} /\ todo \subseteq Rows
  /\ leaving \in BOOLEAN /\ lastSent \in BOOLEAN /\ tries \in Nat
  /\ displayGone \in BOOLEAN /\ reports \in Nat
  /\ ready \in BOOLEAN /\ timeouts \in Nat
  /\ link \in {"up", "silent", "down"} /\ unanswered \in Nat /\ faults \in BOOLEAN
  /\ handed \in [Rows -> Int]

(* The packets the sender or terminate() took from the queue and is not    *)
(* done with.                                                              *)
Taken ==
  (IF hand # NoPacket /\ pc # "idlePut" THEN 1 ELSE 0) + (IF main = "drained" THEN 1 ELSE 0)

(* Every packet put on the queue is counted until the sender is done with  *)
(* it, on every path out of _sendQueuedPacket, so terminate()'s wait for   *)
(* the queue to drain ends exactly when nothing is left to send.           *)
QueueAccounting == unfinished = Cardinality(queue) + Taken

(* Dropping stale packets never loses content: what a row holds is what    *)
(* was last handed to the transport, or a packet that carries it is on its *)
(* way, or a thread is about to queue one -- unless the driver is          *)
(* terminating or has given the display up.  It takes a draw that met      *)
(* another draw, a refresh or the sender in its row to leave the row with  *)
(* other content, and it stays so only until the row is drawn undisturbed. *)
ContentNeverLost ==
  \/ terminationStarted \/ displayGone
  \/ \A r \in Rows :
       \/ raced[r]
       \/ handed[r] = cells[r]
       \/ \E d \in Drawers : draw[d].at \in {"drawn", "put"} /\ draw[d].row = r
       \/ \E p \in queue \cup {hand} : p # NoPacket /\ p.row = r /\ p.frame = cells[r]

(* The gate is shut only while an answer is still to come: as long as the  *)
(* display lost nothing, a shut gate means a line it has not rendered, or  *)
(* a write about to be made.  A notification that arrives while the write  *)
(* is in flight is not lost.                                               *)
NoLostWakeup == ~faults => ready \/ unanswered > 0 \/ pc = "write"

(* A sender whose wait expires has a line to resend, so the retries run    *)
(* out and somebody opens the gate or gives the display up.  In particular *)
(* _resendLastPacket always finds a packet: its "if packet" never fails.   *)
ShutGateHasLine ==
  /\ pc = "wait" /\ ~ready => lastSent
  /\ pc \in {"expired", "resend"} => lastSent

(* The driver never goes quiet on its own: once it stops writing, NVDA has *)
(* been asked to release the display or is already releasing it.           *)
GoneIsReported == displayGone => reports > 0 \/ terminationStarted

(* ... and NVDA is asked once: a second releaseIfStillCurrent could reach  *)
(* a display that came back meanwhile.                                     *)
ReportedOnce == reports <= 1

(* A row's idle refreshes stop at the configured number.                   *)
RefreshBudget == \A r \in Rows : refreshCount[r] <= AutoRefreshNum

(* The sender never stalls: whatever the display does or does not answer,  *)
(* the queue comes to be fully processed, again and again, until the       *)
(* thread is told to exit.                                                 *)
AlwaysDrains == []<>(unfinished = 0 \/ isTerminating)

(* The send path implements what DisplayService promises: queue, gate,     *)
(* retries, superseding and giving up, seen from outside, deliver content  *)
(* in order, but for draws that were not left alone, and never to a        *)
(* display that was given up or closed, and NVDA is told once, before that *)
(* or with it.                                                             *)
Service == INSTANCE DisplayService WITH
  content <- cells, shown <- handed, told <- reports, gone <- displayGone, torn <- raced,
  drawing <- [r \in Rows |-> \E d \in Drawers : InRow(d, r)],
  phase <- IF ~terminationStarted THEN "running" ELSE IF main = "closed" THEN "over" ELSE "ending"

ServiceKept == Service!Spec

(* ... and what a row holds is delivered in the end, whatever the display  *)
(* answers, unless its draw was not left alone, the display is given up or *)
(* the driver terminates.                                                  *)
ContentArrives == Service!FairSpec

(* "The sender drops any queued refresh packet for a row the recentered    *)
(* frame rewrites": a refresh never puts back what a frame replaced.       *)
RefreshIsCurrent ==
  pc = "write" /\ hand.kind = "refresh" => hand.frame >= handed[hand.row]
=============================================================================
