----------------------------- MODULE AccessLog ------------------------------
(***************************************************************************)
(* The access log of a node (access_log.rs) over the traffic counters of   *)
(* stats.rs: connections hand a record to a bounded channel without        *)
(* waiting, one writer task appends the records and the periodic gauges to *)
(* the file and forwards each line to a syslog collector, which may be     *)
(* slow, hang or go away.                                                  *)
(*                                                                         *)
(* The file is behind tracing_appender::non_blocking, a second bounded     *)
(* queue with a thread of its own: a line that does not fit, or that       *)
(* cannot be written, is given up there and nothing of rove counts it.     *)
(*                                                                         *)
(* A line is [name, n]: the record of connection `name' with n = 1, or the *)
(* gauge of row `name' with the n bytes since the previous gauge.  A row   *)
(* is a listener or an egress; bytes up and down are one counter.          *)
(***************************************************************************)
EXTENDS Integers, Sequences, FiniteSets

CONSTANTS
    Rows,       \* listener and egress rows, in the order a tick writes them
    LogCap,     \* access_log.channel_capacity
    AppendCap,  \* lines the non-blocking appender queues
    Protocol,   \* syslog: "off", "udp" or "tcp"
    Conns       \* proxied connections

ASSUME LogBounds ==
    /\ LogCap \in Nat \ {0} /\ AppendCap \in Nat \ {0} /\ Protocol \in {"off", "udp", "tcp"}
    /\ IsFiniteSet(Conns)

\* A row is written once per tick, and a connection is no row.
ASSUME RowsDistinct ==
    /\ Len(Rows) \in Nat /\ Rows = [i \in 1 .. Len(Rows) |-> Rows[i]]
    /\ \A i, j \in DOMAIN Rows : Rows[i] = Rows[j] => i = j
    /\ \A i \in DOMAIN Rows : Rows[i] \notin Conns

VARIABLES
    logQ,       \* records in the channel
    dropped,    \* AccessLogger.dropped
    lastDropped,\* last_dropped of the writer
    totals,     \* cumulative bytes of each row
    lastBytes,  \* baseline of the deltas of each row
    logged,     \* what was handed to the appender: records of a connection, bytes of a row
    writer,     \* the writer: [at, todo], todo the lines still to emit
    socket,     \* the sink's socket: "none" or "open"
    appendQ,    \* lines the appender's thread has not written yet
    onDisk,     \* records the file holds of each connection
    givenUp     \* connections whose record the appender lost

fileVars == <<appendQ, onDisk, givenUp>>
logVars == <<logQ, dropped, lastDropped, totals, lastBytes, logged, writer, socket, fileVars>>

RowSet == {Rows[i] : i \in DOMAIN Rows}

\* AccessLogRecord::from_candidate: the line of a finished connection.
Record(c) == [name |-> c, n |-> 1]

bytes_delta_since(r) == IF totals[r] > lastBytes[r] THEN totals[r] - lastBytes[r] ELSE 0

\* AccessLogStatsRecord and EgressStatsRecord: the line of a row at a tick.
Gauge(r) == [name |-> r, n |-> bytes_delta_since(r)]

\* Faulty: a record that does not fit is lost without a count.
LogRecordSilent(c) ==
    /\ logQ' = IF Len(logQ) < LogCap THEN Append(logQ, Record(c)) ELSE logQ
    /\ UNCHANGED dropped

\* record: try_send, or count the loss.
LogRecord(c) ==
    IF Len(logQ) < LogCap
    THEN logQ' = Append(logQ, Record(c)) /\ UNCHANGED dropped
    ELSE dropped' = dropped + 1 /\ UNCHANGED logQ

\* record_listener_bytes and record_egress_bytes: a blocked connection has no egress row.
RecordBytes(rows, n) == totals' = [r \in RowSet |-> IF r \in rows THEN totals[r] + n ELSE totals[r]]

-----------------------------------------------------------------------------
(* The writer task                                                         *)

\* The appender loses a line; what is told apart is whose record it was.
GiveUp(line) == givenUp' = givenUp \cup ({line.name} \cap Conns)

\* NonBlocking::write queues a line or loses it, and returns Ok either way.
AppendLine(line) ==
    IF Len(appendQ) < AppendCap
    THEN appendQ' = Append(appendQ, line) /\ UNCHANGED <<onDisk, givenUp>>
    ELSE GiveUp(line) /\ UNCHANGED <<appendQ, onDisk>>

\* The appender's thread writes the next line; it ignores an error of the file.
AppenderWrite(ok) ==
    /\ appendQ # <<>>
    /\ appendQ' = Tail(appendQ)
    /\ IF ok
       THEN /\ onDisk' = [c \in Conns |-> IF c = Head(appendQ).name THEN onDisk[c] + 1 ELSE onDisk[c]]
            /\ UNCHANGED givenUp
       ELSE GiveUp(Head(appendQ)) /\ UNCHANGED onDisk
    /\ UNCHANGED <<logQ, dropped, lastDropped, totals, lastBytes, logged, writer, socket>>

\* The line at hand goes to the file's appender, then to the sink when there is one.
Emit(lines) ==
    IF lines = <<>>
    THEN writer' = [at |-> "select", todo |-> <<>>] /\ UNCHANGED <<logged, fileVars>>
    ELSE /\ logged' = [logged EXCEPT ![Head(lines).name] = @ + Head(lines).n]
         /\ AppendLine(Head(lines))
         /\ writer' = [at |-> IF Protocol = "off" THEN "next" ELSE "sink", todo |-> Tail(lines)]

WriterRecv ==
    /\ writer.at = "select" /\ logQ # <<>>
    /\ Emit(<<Head(logQ)>>)
    /\ logQ' = Tail(logQ)
    /\ UNCHANGED <<dropped, lastDropped, totals, lastBytes, socket>>

\* build_stats_records: one gauge per row, the baselines advance at once.
StatsTick ==
    /\ writer.at = "select"
    /\ Emit([i \in DOMAIN Rows |-> Gauge(Rows[i])])
    /\ lastBytes' = totals
    /\ UNCHANGED <<logQ, dropped, lastDropped, totals, socket>>

\* dropped_delta_since: warn about the records lost since the last check.
DropCheckTick ==
    /\ writer.at = "select" /\ dropped > lastDropped
    /\ lastDropped' = dropped
    /\ UNCHANGED <<logQ, dropped, totals, lastBytes, logged, writer, socket, fileVars>>

NextLine ==
    /\ writer.at = "next"
    /\ Emit(writer.todo)
    /\ UNCHANGED <<logQ, dropped, lastDropped, totals, lastBytes, socket>>

\* send_json: a missing socket is opened first; a failure gives the line up.
SinkOpen(ok) ==
    /\ writer.at = "sink" /\ socket = "none"
    /\ socket' = IF ok THEN "open" ELSE "none"
    /\ writer' = [writer EXCEPT !.at = IF ok THEN "sink" ELSE "next"]
    /\ UNCHANGED <<logQ, dropped, lastDropped, totals, lastBytes, logged, fileVars>>

\* The collector takes the line; a failed datagram leaves the socket as it is.
SinkSent ==
    /\ writer.at = "sink" /\ socket = "open"
    /\ writer' = [writer EXCEPT !.at = "next"]
    /\ UNCHANGED <<logQ, dropped, lastDropped, totals, lastBytes, logged, socket, fileVars>>

\* A stream that fails is dropped, and so is one that does not take the line in time.
SinkFailed ==
    /\ writer.at = "sink" /\ socket = "open" /\ Protocol = "tcp"
    /\ writer' = [writer EXCEPT !.at = "next"]
    /\ socket' = "none"
    /\ UNCHANGED <<logQ, dropped, lastDropped, totals, lastBytes, logged, fileVars>>

\* Faulty: the time-out tries the same stream again.
SinkTimeoutRetries ==
    /\ writer.at = "sink" /\ socket = "open" /\ Protocol = "tcp"
    /\ UNCHANGED logVars

SinkTimeout ==
    /\ writer.at = "sink" /\ socket = "open" /\ Protocol = "tcp"
    /\ writer' = [writer EXCEPT !.at = "next"]
    /\ socket' = "none"
    /\ UNCHANGED <<logQ, dropped, lastDropped, totals, lastBytes, logged, fileVars>>

LogInit ==
    /\ logQ = <<>> /\ dropped = 0 /\ lastDropped = 0
    /\ totals = [r \in RowSet |-> 0] /\ lastBytes = [r \in RowSet |-> 0]
    /\ logged = [x \in Conns \cup RowSet |-> 0]
    /\ writer = [at |-> "select", todo |-> <<>>]
    /\ socket = "none"
    /\ appendQ = <<>> /\ onDisk = [c \in Conns |-> 0] /\ givenUp = {}

Writer ==
    \/ WriterRecv \/ StatsTick \/ DropCheckTick \/ NextLine
    \/ SinkSent \/ SinkFailed \/ SinkTimeout
    \/ \E ok \in BOOLEAN : SinkOpen(ok) \/ AppenderWrite(ok)

\* The writer runs when it can; select! picks its ready branches at random, hence SF; an
\* attempt to open the socket ends, and a write ends at its time-out.  Nothing is assumed of
\* the collector, nor of the appender's thread: the writer never waits for it.
WriterFairness ==
    /\ SF_logVars(WriterRecv)
    /\ WF_logVars(NextLine)
    /\ WF_logVars(SinkTimeout)
    /\ WF_logVars(\E ok \in BOOLEAN : SinkOpen(ok))
    /\ Protocol = "udp" => WF_logVars(SinkSent)

-----------------------------------------------------------------------------
(* Properties                                                              *)

\* The gauges handed to the appender or about to be add up to the baseline of each row.
GaugesAddUp ==
    \A r \in RowSet :
        LET ahead == {i \in DOMAIN writer.todo : writer.todo[i].name = r}
        IN  logged[r] + (IF ahead = {} THEN 0 ELSE writer.todo[CHOOSE i \in ahead : TRUE].n) = lastBytes[r]

Appending(c) == \E i \in DOMAIN appendQ : appendQ[i].name = c

\* A record handed to the appender is in one place: its queue, the file or what it gave up.
InOnePlace(c) ==
    /\ onDisk[c] \in 0 .. 1
    /\ logged[c] = 0 => ~Appending(c) /\ onDisk[c] = 0 /\ c \notin givenUp
    /\ logged[c] = 1 =>
          \/ Appending(c) /\ onDisk[c] = 0 /\ c \notin givenUp
          \/ ~Appending(c) /\ onDisk[c] = 1 /\ c \notin givenUp
          \/ ~Appending(c) /\ onDisk[c] = 0 /\ c \in givenUp

\* A record in the channel is handed to the file's appender although the collector, or the
\* file, may hang for ever.
LogDrains == \A c \in Conns : (\E i \in DOMAIN logQ : logQ[i].name = c) ~> logged[c] = 1
=============================================================================
