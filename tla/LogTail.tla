------------------------------ MODULE LogTail -------------------------------
(***************************************************************************)
(* From a logged line to the browser that watches the log:                 *)
(*   Backend/src/utils/logger.js                                           *)
(*   Backend/src/services/SystemLogTailService.js                          *)
(*   Backend/src/controllers/AuditLogController.js (streamSystemLogs)      *)
(*                                                                         *)
(* A process writes its lines one after another from a bounded queue into  *)
(* files that roll over; one poller per process reads what the files have  *)
(* grown by and sends it to every open stream.  One level, one day, and    *)
(* the lines of one process; files never shrink, and a size is a number of *)
(* lines.                                                                  *)
(***************************************************************************)
EXTENDS Integers, Sequences, FiniteSets, Functions

CONSTANTS
  Users,
  QueueMax,    \* _maxQueueLength
  FileMax,     \* MAX_FILE_SIZE
  RowsMax,     \* MAX_ROWS_PER_TICK
  MaxErrors,   \* MAX_CONSECUTIVE_ERRORS
  Rolls,       \* bound: files after the first
  MaxLines,    \* bound: lines that this process logs
  MaxStreams,  \* bound: streams that are opened
  MaxFaults    \* bound: failed file operations

VARIABLES
  queue, writing, dropped,   \* the logger; writing is 0 when it is idle
  logged,                    \* history: lines logged so far, which are their names
  gone, failed, reported,    \* history: lines dropped, and not written; drops reported
  disk,                      \* per file its entries: a line, or -n for "n dropped"
  conns,                     \* per user the stream that _connections holds, 0 for none
  stream,                    \* the streams opened so far
  poller,                    \* the timer, _currentDir, _initializedDir, errors
  offsets,                   \* Unseen, or the size up to which a file was read
  tick,                      \* the tick under way
  torn,                      \* history: places that a failed read or tick has passed over
  faults

logger == <<queue, writing, dropped, logged, gone, failed, reported>>
tail   == <<conns, stream, poller, offsets, tick, torn>>
vars   == <<queue, writing, dropped, logged, gone, failed, reported, disk, conns, stream,
            poller, offsets, tick, torn, faults>>

Files  == 0..Rolls
Unseen == -1
NoTick == [at |-> "idle", first |-> FALSE, todo |-> {}, from |-> 0, size |-> 0, rows |-> <<>>]
Stopped == [timer |-> FALSE, dir |-> FALSE, init |-> FALSE, errors |-> 0]
Forgotten == [f \in Files |-> Unseen]

Init ==
  /\ queue = <<>> /\ writing = 0 /\ dropped = 0
  /\ logged = 0 /\ gone = {} /\ failed = {} /\ reported = 0
  /\ disk = [f \in Files |-> <<>>]
  /\ conns = [u \in Users |-> 0] /\ stream = <<>>
  /\ poller = Stopped /\ offsets = Forgotten /\ tick = NoTick /\ torn = {}
  /\ faults = 0

Fault == faults < MaxFaults /\ faults' = faults + 1

-----------------------------------------------------------------------------
(* The logger                                                              *)

\* log: a full queue drops its oldest line.
Enqueue(q, n) == Append(IF Len(q) >= QueueMax THEN Tail(q) ELSE q, n)

Log ==
  LET q == Enqueue(queue, logged + 1)
  IN  /\ logged < MaxLines /\ logged' = logged + 1
      /\ dropped' = dropped + (Len(queue) + 1 - Len(q))
      /\ gone' = gone \cup (Range(queue \o <<logged + 1>>) \ Range(q))
      /\ IF writing = 0 THEN writing' = Head(q) /\ queue' = Tail(q)
                        ELSE writing' = writing /\ queue' = q
      /\ UNCHANGED <<failed, reported, disk, tail, faults>>

\* What an entry says was dropped.
Gap(e) == IF e < 0 THEN -e ELSE 0

\* getAvailableFilename.
Available(f) == /\ f = Rolls \/ Len(disk[f]) < FileMax
                /\ \A g \in 0..(f - 1) : Len(disk[g]) >= FileMax

\* Deviation: the counter is reset after the report is written.
AdvanceResetsLate ==
  \/ writing > 0 /\ queue # <<>> /\ writing' = Head(queue) /\ queue' = Tail(queue) /\ UNCHANGED dropped
  \/ /\ writing > 0 /\ queue = <<>>
     /\ writing' = -dropped /\ UNCHANGED <<queue, dropped>>
  \/ writing < 0 /\ writing' = 0 /\ dropped' = 0 /\ UNCHANGED queue

\* processWriteQueue after a line: the next one, then the report of what was dropped.
\* After the report it is idle, whatever was queued meanwhile.
Advance ==
  \/ writing > 0 /\ queue # <<>> /\ writing' = Head(queue) /\ queue' = Tail(queue) /\ UNCHANGED dropped
  \/ writing > 0 /\ queue = <<>> /\ writing' = -dropped /\ dropped' = 0 /\ UNCHANGED queue
  \/ writing < 0 /\ writing' = 0 /\ UNCHANGED <<queue, dropped>>

Written ==
  /\ writing # 0
  /\ \E f \in Files : Available(f) /\ disk' = [disk EXCEPT ![f] = Append(@, writing)]
  /\ Advance
  /\ reported' = reported + Gap(writing)
  /\ UNCHANGED <<logged, gone, failed, tail, faults>>

\* appendFile throws: the console has it.
WriteFails ==
  /\ writing # 0 /\ Fault
  /\ failed' = failed \cup {writing}
  /\ Advance
  /\ reported' = reported + Gap(writing)
  /\ UNCHANGED <<logged, gone, disk, tail>>

\* flush, which a shutdown repeats every 10 ms.
Flush ==
  /\ writing = 0 /\ queue # <<>>
  /\ writing' = Head(queue) /\ queue' = Tail(queue)
  /\ UNCHANGED <<dropped, logged, gone, failed, reported, disk, tail, faults>>

-----------------------------------------------------------------------------
(* Streams                                                                 *)

UpTo(size) == UNION {{f} \X (1..size[f]) : f \in Files}
OnDisk     == UpTo([f \in Files |-> Len(disk[f])])
Read       == UpTo(offsets)

\* streamSystemLogs: 409 while the account has a stream; addConnection.
\* What the new stream is not owed: everything when it starts the poller, else what
\* was read so far.  odd: circumstances in which the code breaks that promise.
Open(u) ==
  LET s == Len(stream) + 1
      mine == {r \in 1..Len(stream) : stream[r].user = u}
  IN  /\ conns[u] = 0 /\ s <= MaxStreams
      /\ conns' = [conns EXCEPT ![u] = s]
      /\ stream' = Append(stream,
           [user |-> u, open |-> TRUE, told |-> FALSE, sent |-> <<>>, more |-> 0,
            base |-> IF poller.timer THEN Read ELSE OnDisk,
            odd |-> \/ u \in DOMAIN tick.rows             \* re-opened during a tick
                    \/ ~poller.timer /\ poller.dir        \* after repeated errors
                    \/ \E r \in mine : stream[r].open])   \* beside a stream given up
      /\ poller' = IF poller.timer THEN poller ELSE [poller EXCEPT !.timer = TRUE, !.errors = 0]
      /\ UNCHANGED <<logger, disk, offsets, tick, torn, faults>>

\* Nothing has been read then, and nothing passed over.
Forget == offsets' = Forgotten /\ torn' = {}

\* The socket closes: removeConnection removes what its user has, and the last one
\* out stops the poller.
Close(s) ==
  LET rest == [conns EXCEPT ![stream[s].user] = 0]
      stops == poller.timer /\ \A u \in Users : rest[u] = 0
  IN  /\ stream[s].open
      /\ stream' = [stream EXCEPT ![s].open = FALSE]
      /\ conns' = rest
      /\ poller' = IF stops THEN [Stopped EXCEPT !.errors = poller.errors] ELSE poller
      /\ IF stops THEN Forget ELSE UNCHANGED <<offsets, torn>>
      /\ UNCHANGED <<logger, disk, tick, faults>>

-----------------------------------------------------------------------------
(* The poller                                                              *)

Connected == {u \in Users : conns[u] # 0}

\* What the files of a tick gave a user: so many lines, and the number of the others.
Dispatched(rows, streams) ==
  [s \in 1..Len(streams) |->
     LET u == streams[s].user
     IN  IF conns[u] # s \/ u \notin DOMAIN rows THEN streams[s]
         ELSE LET n == IF Len(rows[u]) > RowsMax THEN RowsMax ELSE Len(rows[u])
              IN  [streams[s] EXCEPT !.sent = @ \o SubSeq(rows[u], 1, n),
                                     !.more = @ + Len(rows[u]) - n]]

\* The files of a tick are taken in the order of their names.
Current == CHOOSE f \in tick.todo : \A g \in tick.todo : f <= g

\* To the next file, or to the end of the tick.
Continue(rows, streams) ==
  \/ /\ tick.todo # {Current}
     /\ tick' = [tick EXCEPT !.at = "stat", !.todo = @ \ {Current}, !.rows = rows]
     /\ stream' = streams /\ UNCHANGED poller
  \/ /\ tick.todo = {Current}
     /\ tick' = NoTick
     /\ stream' = Dispatched(rows, streams)
     /\ poller' = [poller EXCEPT !.init = TRUE, !.errors = 0]

\* The interval fires.
Tick ==
  /\ poller.timer /\ tick.at = "idle" /\ Connected # {}
  /\ tick' = [NoTick EXCEPT !.at = "readdir"]
  /\ IF poller.dir THEN UNCHANGED <<poller, offsets, torn>>
     ELSE poller' = [poller EXCEPT !.dir = TRUE, !.init = FALSE] /\ Forget
  /\ UNCHANGED <<logger, disk, conns, stream, faults>>

Readdir ==
  LET names == {f \in Files : disk[f] # <<>>}
  IN  /\ tick.at = "readdir" /\ names # {}
      /\ tick' = [tick EXCEPT !.at = "stat", !.todo = names, !.first = ~poller.init,
                              !.rows = [u \in Connected |-> <<>>]]
      /\ UNCHANGED <<logger, disk, conns, stream, poller, offsets, torn, faults>>

\* history: a scan that finds nothing of what is there makes the next one no first scan.
Odd(some) == [s \in 1..Len(stream) |-> [stream[s] EXCEPT !.odd = @ \/ some]]

\* There is no directory yet, or it cannot be read: taken as scanned.
NoDirectory ==
  /\ tick.at = "readdir"
  /\ \/ OnDisk = {} /\ UNCHANGED <<stream, faults>>
     \/ OnDisk # {} /\ Fault /\ stream' = Odd(~poller.init)
  /\ tick' = NoTick
  /\ poller' = [poller EXCEPT !.init = TRUE, !.errors = 0]
  /\ UNCHANGED <<logger, disk, conns, offsets, torn>>

\* Deviation: a file is skipped to its end whenever it is seen for the first time.
SightedAtEnd(f) == Len(disk[f])

\* Where the reading of a file starts that is seen for the first time.
Sighted(f) == IF tick.first THEN Len(disk[f]) ELSE 0

\* history: no stream is owed what the first scan passes over.
Skipping(f) == [s \in 1..Len(stream) |->
                  [stream[s] EXCEPT !.base = @ \cup {<<f, i>> : i \in 1..Len(disk[f])}]]

Stat ==
  LET f    == Current
      size == Len(disk[f])
      new  == offsets[f] = Unseen
      from == IF new THEN Sighted(f) ELSE offsets[f]
  IN  /\ tick.at = "stat"
      /\ offsets' = [offsets EXCEPT ![f] = from]
      /\ \/ /\ size > from
            /\ tick' = [tick EXCEPT !.at = "read", !.from = from, !.size = size]
            /\ UNCHANGED <<stream, poller>>
         \/ /\ size = from
            /\ Continue(tick.rows, IF new /\ tick.first THEN Skipping(f) ELSE stream)
      /\ UNCHANGED <<logger, disk, conns, torn, faults>>

StatFails ==
  /\ tick.at = "stat" /\ Fault
  /\ Continue(tick.rows, Odd(tick.first))
  /\ UNCHANGED <<logger, disk, conns, offsets, torn>>

Delta == [i \in 1..(tick.size - tick.from) |-> <<Current, tick.from + i>>]

\* A user that has no rows makes the tick throw; too many such ticks end every stream.
Throws ==
  LET last == poller.errors + 1 >= MaxErrors
  IN  /\ tick' = NoTick
      /\ torn' = torn \cup Range(Delta) \cup UNION {Range(tick.rows[u]) : u \in DOMAIN tick.rows}
      /\ conns' = IF last THEN [u \in Users |-> 0] ELSE conns
      /\ stream' = [s \in 1..Len(stream) |->
           [stream[s] EXCEPT !.told = @ \/ (last /\ conns[stream[s].user] = s)]]
      /\ poller' = [poller EXCEPT !.errors = @ + 1, !.timer = @ /\ ~last]

\* Deviation: the offset moves to the size that the file has by now.
ReachedNow == Len(disk[Current])

Reached == tick.size

ReadDelta ==
  /\ tick.at = "read"
  /\ offsets' = [offsets EXCEPT ![Current] = Reached]
  /\ IF Connected \subseteq DOMAIN tick.rows
     THEN /\ Continue([u \in DOMAIN tick.rows |->
                         tick.rows[u] \o (IF u \in Connected THEN Delta ELSE <<>>)], stream)
          /\ UNCHANGED <<conns, torn>>
     ELSE Throws
  /\ UNCHANGED <<logger, disk, faults>>

\* The read fails: the offset moves all the same.
ReadFails ==
  /\ tick.at = "read" /\ Fault
  /\ offsets' = [offsets EXCEPT ![Current] = Reached]
  /\ torn' = torn \cup Range(Delta)
  /\ Continue(tick.rows, stream)
  /\ UNCHANGED <<logger, disk, conns>>

Next ==
  \/ Log \/ Written \/ WriteFails \/ Flush
  \/ \E u \in Users : Open(u)
  \/ \E s \in 1..Len(stream) : Close(s)
  \/ Tick \/ Readdir \/ NoDirectory \/ Stat \/ StatFails \/ ReadDelta \/ ReadFails

Spec == Init /\ [][Next]_vars

-----------------------------------------------------------------------------
(* Properties                                                              *)

\* Every line is waiting, being written, on disk once, known to the console, or
\* counted as dropped, and a report that is on its way or was made counts it.
At(p) == disk[p[1]][p[2]]
LinesAccounted ==
  /\ \A n \in 1..logged :
       \/ n \in Range(queue) \cup {writing} \cup failed \cup gone
       \/ Cardinality({p \in OnDisk : At(p) = n}) = 1
  /\ Cardinality(gone) = dropped + Gap(writing) + reported

\* The files hold the lines in the order in which they were logged.
InLogOrder ==
  \A p, q \in OnDisk :
    /\ At(p) > 0 /\ At(q) > 0
    /\ p[1] < q[1] \/ (p[1] = q[1] /\ p[2] < q[2])
    => At(p) < At(q)

\* Between two ticks every stream was sent, once, or told the number of, the lines
\* that the poller has read since the stream was opened, and nothing older.
\* (Excused: torn lines and odd streams.)
StreamExact(s) ==
  LET owed == (Read \ stream[s].base) \ torn
      sent == stream[s].sent
  IN  /\ conns[stream[s].user] = s /\ ~stream[s].odd
      /\ tick.at = "idle" /\ poller.dir /\ poller.init
      => /\ Range(sent) \subseteq owed /\ Cardinality(Range(sent)) = Len(sent)
         /\ Len(sent) + stream[s].more = Cardinality(owed)

\* A stream that is open, and was not told that the poller gave up, is served.
StreamServed(s) ==
  stream[s].open /\ ~stream[s].told /\ ~stream[s].odd
    => conns[stream[s].user] = s /\ poller.timer

LogIsWhole == LinesAccounted /\ InLogOrder /\ \A s \in DOMAIN stream : StreamExact(s) /\ StreamServed(s)
=============================================================================
