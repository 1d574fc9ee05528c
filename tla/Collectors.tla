----------------------------- MODULE Collectors -----------------------------
(***************************************************************************)
(* The network, inventory, filesystem, USB and passive network collectors  *)
(* (agent/internal/collectors), each with the goroutines it starts, and    *)
(* the part of the caller that starts it, stops it and closes the channel  *)
(* it writes to (main; the passive collector, which main does not start    *)
(* yet, is given the same caller).                                         *)
(*                                                                         *)
(* The collectors share nothing but the channel, so a behaviour has one of *)
(* them, chosen by Init; what the others and the ingestion engine do to    *)
(* the channel is the environment's (Traffic).  The channel is represented *)
(* by how full it is.  What the operating system reports is numbered.      *)
(*                                                                         *)
(* Start and Stop are called once.  Their flags turn further calls into    *)
(* calls without effect, and Stop cancels a context that the signal has    *)
(* already cancelled: main calls it only then.                             *)
(***************************************************************************)
EXTENDS Naturals, Sequences, FiniteSets, SequencesExt, PassiveDecoder

CONSTANTS
    Frames,     \* what the capture adapter may hand over
    ChanCap,    \* capacity of the channel (200 in the code)
    InnerCap,   \* capacity of internalOut and rawCh (100 in the code)
    MaxRows,    \* bound: rows of a table, interfaces of a host
    MaxReports  \* bound: reports of the operating system

ASSUME CollectorAssumption ==
    /\ Frames \subseteq Frame /\ Frames # {}
    /\ {ChanCap, InnerCap, MaxRows, MaxReports} \subseteq Nat \ {0}

Kinds    == {"network", "inventory", "filesystem", "usb", "passive"}
Periodic == {"network", "inventory"}        \* they poll, the others are told
Tables   == {"TCP4", "TCP6", "UDP4", "UDP6"}

VARIABLES
    kind, os,       \* the collector of this behaviour, the host
    main,           \* the caller: off, running, adapter, waiting, closed, fatal
    cancelled,      \* the agent's context, and with it the collector's, is done
    worker,         \* the run goroutine
    event,          \* the event that it is handing over
    source,         \* the goroutine that feeds it: the USB watcher, fsnotify's
                    \* reader or the capture adapter
    pump,           \* Windows: the goroutine with the message loop
    held,           \* the report that source or pump is handing over
    inner,          \* internalOut, watcher.Events or rawCh
    innerClosed,
    closeFailed,    \* watcher.Close has returned an error
    fill,           \* the channel to the ingestion engine
    reported, delivered     \* ghosts: reports taken, reports sent on

caller == <<main, closeFailed>>
feed   == <<source, pump, held, inner, innerClosed, reported>>
output == <<worker, event, fill, delivered>>
vars   == <<kind, os, caller, cancelled, output, feed>>

Nothing == [no |-> 0, report |-> <<>>, truth |-> <<>>]

Init ==
    /\ kind \in Kinds /\ os \in {"linux", "windows"}
    /\ main = "off" /\ cancelled = FALSE /\ closeFailed = FALSE
    /\ worker = "none" /\ event = Nothing
    /\ source = "none" /\ pump = "none" /\ held = 0
    /\ inner = <<>> /\ innerClosed = FALSE
    /\ fill = 0 /\ reported = 0 /\ delivered = <<>>

-----------------------------------------------------------------------------
(* The environment: other producers, the ingestion engine, the signal.     *)
Traffic ==
    /\ main # "closed"
    /\ fill' \in 0..ChanCap \cap {fill - 1, fill + 1}
    /\ UNCHANGED <<kind, os, caller, cancelled, worker, event, delivered, feed>>

Signal ==
    /\ ~cancelled
    /\ cancelled' = TRUE
    /\ UNCHANGED <<kind, os, caller, output, feed>>

-----------------------------------------------------------------------------
(* Start.  The polling collectors take a snapshot first.                   *)
Started(w, src) ==
    /\ main = "off"
    /\ main' = "running" /\ worker' = w /\ source' = src
    /\ UNCHANGED <<kind, os, closeFailed, cancelled, event, fill, delivered,
                   pump, held, inner, innerClosed, reported>>

StartFails ==
    /\ main = "off"
    /\ main' = "fatal"
    /\ UNCHANGED <<kind, os, closeFailed, cancelled, output, feed>>

StartPolling == kind \in Periodic /\ Started("collect", "none")
StartUsb     == kind = "usb" /\ Started("loop", "open")
StartPassive == kind = "passive" /\ (Started("loop", "ready") \/ StartFails)

(* Without paths to watch there is nothing to start.                       *)
StartFiles ==
    /\ kind = "filesystem"
    /\ Started("loop", "ready") \/ Started("none", "none") \/ StartFails

(* Stop, called when the agent's context is done.  The passive collector   *)
(* stops its adapter first; the others wait for their goroutines.          *)
Stop ==
    /\ main = "running" /\ cancelled /\ kind # "filesystem"
    /\ main' = IF kind = "passive" THEN "adapter" ELSE "waiting"
    /\ UNCHANGED <<kind, os, closeFailed, cancelled, output, feed>>

(* The filesystem collector closes its watcher and does not wait if that   *)
(* fails.                                                                  *)
StopFiles ==
    /\ main = "running" /\ cancelled /\ kind = "filesystem"
    /\ \/ source = "ready" /\ source' = "quitting" /\ main' = "waiting" /\ UNCHANGED closeFailed
       \/ source = "ready" /\ closeFailed' = TRUE /\ main' = "closed" /\ UNCHANGED source
       \/ source = "none" /\ main' = "waiting" /\ UNCHANGED <<source, closeFailed>>
    /\ UNCHANGED <<kind, os, cancelled, output, pump, held, inner, innerClosed, reported>>

(* adapter.Stop: <-r.done                                                  *)
AdapterStopped ==
    /\ main = "adapter" /\ source = "ended"
    /\ main' = "waiting"
    /\ UNCHANGED <<kind, os, closeFailed, cancelled, output, feed>>

(* c.wg.Wait; then main closes the channel.                                *)
CloseChannel ==
    /\ main = "waiting" /\ worker \in {"none", "ended"}
    /\ main' = "closed"
    /\ UNCHANGED <<kind, os, closeFailed, cancelled, output, feed>>

-----------------------------------------------------------------------------
(* Handing an event over: select {out, ctx.Done, a timer of one second},   *)
(* after the timer select {out, ctx.Done}.  The passive collector has no   *)
(* timer.  Either way the goroutine goes on with its loop.                 *)
Taken ==
    /\ fill < ChanCap
    /\ fill' = fill + 1
    /\ delivered' = IF kind \in Periodic THEN delivered ELSE Append(delivered, event.no)

GivenUp ==
    /\ cancelled
    /\ UNCHANGED <<fill, delivered>>

M_Emit ==
    /\ worker \in {"emit", "stalled"}
    /\ \/ Taken
       \/ worker = "emit" /\ GivenUp
    /\ worker' = "loop" /\ event' = Nothing
    /\ UNCHANGED <<kind, os, caller, cancelled, feed>>

Emit ==
    /\ worker \in {"emit", "stalled"}
    /\ Taken \/ GivenUp
    /\ worker' = "loop" /\ event' = Nothing
    /\ UNCHANGED <<kind, os, caller, cancelled, feed>>

Stalls ==
    /\ worker = "emit" /\ kind # "passive"
    /\ worker' = "stalled"
    /\ UNCHANGED <<kind, os, caller, cancelled, event, fill, delivered, feed>>

-----------------------------------------------------------------------------
(* The polling collectors: a snapshot at the start and at every tick.      *)

(* A table that was read, with its number of rows, or could not be.        *)
Failed    == [ok |-> FALSE, rows |-> 0]
Read(n)   == [ok |-> TRUE, rows |-> n]

(* parseTcpTable, parseUdpTable: the rows that fit into the buffer.        *)
RowSize == [TCP4 |-> 24, TCP6 |-> 56, UDP4 |-> 12, UDP6 |-> 28]

M_ParseTable(t, len, numEntries) ==
    Cardinality({i \in 1..numEntries : 4 + i * RowSize[t] < len})

ParseTable(t, len, numEntries) ==
    Cardinality({i \in 1..numEntries : 4 + i * RowSize[t] <= len})

(* Linux reads a file.  Windows asks for the size and then for the table,  *)
(* which fails if the table has grown in between; it may have become       *)
(* shorter than the buffer.                                                *)
Readings(t) ==
    {[found |-> Failed, truth |-> Failed]} \cup
    IF os = "linux"
    THEN {[found |-> Read(n), truth |-> Read(n)] : n \in 0..MaxRows}
    ELSE UNION {{[found |-> Read(ParseTable(t, 4 + size * RowSize[t], n)), truth |-> Read(n)]
                  : size \in n..MaxRows} : n \in 0..MaxRows}

(* osSpecificConnections: each table is read by itself; the snapshot has   *)
(* the rows of those that could be read, and a flag for each other one.    *)
Connections(table) ==
    [rows  |-> [t \in Tables |-> table[t].rows],
     ips   |-> <<>>,
     flags |-> {t \in Tables : ~table[t].ok}]

NetworkSnapshot ==
    /\ kind = "network"
    /\ \E reading \in [Tables -> UNION {Readings(t) : t \in Tables}] :
          /\ \A t \in Tables : reading[t] \in Readings(t)
          /\ LET found == Connections([t \in Tables |-> reading[t].found])
                 truth == [sources |-> [t \in Tables |-> reading[t].truth], ips |-> <<>>]
             IN  IF found.flags = Tables
                 THEN worker' = "loop" /\ UNCHANGED event
                 ELSE worker' = "emit" /\ event' = [no |-> 0, report |-> found, truth |-> truth]

(* takeSnapshot of the inventory: the host's name, its interfaces and, of  *)
(* each one, the addresses.  A host that could not be named is called      *)
(* unknown, a name that a host may also have.  An interface whose addresses*)
(* could not be read is listed with none, and no flag says so.             *)
Addresses == [ok : BOOLEAN, rows : 0..MaxRows]

Inventory(hostname, interfaces, addresses) ==
    [rows  |-> [hostname |-> 0, interfaces |-> interfaces.rows],
     ips   |-> [i \in 1..interfaces.rows |-> IF addresses[i].ok THEN addresses[i].rows ELSE 0],
     flags |-> {s \in {"hostname"} : hostname = "failed"} \cup {s \in {"interfaces"} : ~interfaces.ok}]

InventorySnapshot ==
    /\ kind = "inventory"
    /\ \E hostname \in {"named", "unknown", "failed"},
          interfaces \in {Failed} \cup {Read(n) : n \in 0..MaxRows} :
       \E addresses \in [1..interfaces.rows -> Addresses] :
          LET found == Inventory(hostname, interfaces, addresses)
              truth == [sources |-> [hostname   |-> IF hostname = "failed" THEN Failed ELSE Read(0),
                                     interfaces |-> interfaces],
                        ips     |-> addresses]
          IN  IF ~interfaces.ok /\ hostname # "named"
              THEN worker' = "loop" /\ UNCHANGED event
              ELSE worker' = "emit" /\ event' = [no |-> 0, report |-> found, truth |-> truth]

TakeSnapshot ==
    /\ worker = "collect"
    /\ NetworkSnapshot \/ InventorySnapshot
    /\ UNCHANGED <<kind, os, caller, cancelled, fill, delivered, feed>>

(* The ticker, unless the interval is disabled.                            *)
Tick ==
    /\ worker = "loop" /\ kind \in Periodic
    /\ worker' = "collect"
    /\ UNCHANGED <<kind, os, caller, cancelled, event, fill, delivered, feed>>

(* ctx.Done in the loops.  The USB collector waits for its watcher.        *)
Quit ==
    /\ worker = "loop" /\ cancelled
    /\ worker' = IF kind = "usb" THEN "join" ELSE "ended"
    /\ UNCHANGED <<kind, os, caller, cancelled, event, fill, delivered, feed>>

Joined ==
    /\ worker = "join" /\ source = "ended"
    /\ worker' = "ended"
    /\ UNCHANGED <<kind, os, caller, cancelled, event, fill, delivered, feed>>

-----------------------------------------------------------------------------
(* The collectors that are told: the next report from the inner channel    *)
(* becomes an event.  A filesystem report that only changes attributes     *)
(* (number 0) is none.  Any of the frames may be the next one captured;    *)
(* what processRaw makes of it is kept with what the frame really holds.   *)
Observed(f) ==
    LET obs == Decode(f)
    IN  [report |-> [transport |-> obs.transport, conf |-> obs.conf, hint |-> obs.hint,
                     flags |-> obs.flags],
         truth  |-> [overrun |-> obs.read > f.len, intact |-> Intact(f), modbus |-> HoldsModbus(f)]]

Observations == {Observed(f) : f \in Frames}

Convert(n) ==
    IF kind # "passive" THEN {[Nothing EXCEPT !.no = n]}
    ELSE {[no |-> n, report |-> o.report, truth |-> o.truth] : o \in Observations}

Take ==
    /\ worker = "loop" /\ inner # <<>>
    /\ inner' = Tail(inner)
    /\ IF Head(inner) = 0
       THEN UNCHANGED <<worker, event>>
       ELSE worker' = "emit" /\ event' \in Convert(Head(inner))
    /\ UNCHANGED <<kind, os, caller, cancelled, fill, delivered,
                   source, pump, held, innerClosed, reported>>

(* A closed and empty inner channel ends the goroutine.                    *)
FeedEnded ==
    /\ worker = "loop" /\ inner = <<>> /\ innerClosed
    /\ worker' = "ended"
    /\ UNCHANGED <<kind, os, caller, cancelled, event, fill, delivered, feed>>

-----------------------------------------------------------------------------
(* What the sources have in common: a report is numbered when it is taken  *)
(* from the system, handed to the inner channel, and the channel is closed *)
(* when the source ends (not by the capture adapter).                      *)
Report ==
    /\ reported < MaxReports
    /\ reported' = reported + 1
    /\ held' = reported + 1

HandOver ==
    /\ Len(inner) < InnerCap
    /\ inner' = Append(inner, held)
    /\ held' = 0

SourceEnds ==
    /\ source' = "ended"
    /\ innerClosed' = (kind # "passive")

(* fsnotify (external): reports wait until the collector takes them; what  *)
(* the kernel drops on overflow is an entry of the Errors channel, which   *)
(* the collector only logs.  A closed watcher closes its channels.         *)
WatchFiles ==
    /\ kind = "filesystem"
    /\ \/ /\ source = "ready" /\ Len(inner) < InnerCap
          /\ \/ reported < MaxReports /\ reported' = reported + 1 /\ inner' = Append(inner, reported + 1)
             \/ inner' = Append(inner, 0) /\ UNCHANGED reported
          /\ UNCHANGED <<source, innerClosed>>
       \/ /\ source = "quitting"
          /\ SourceEnds
          /\ inner' = <<>> /\ UNCHANGED reported
    /\ UNCHANGED <<kind, os, caller, cancelled, output, pump, held>>

(* ReplayAdapter: one report after the other, select {ctx.Done, out}.      *)
Replay ==
    /\ kind = "passive" /\ source = "ready"
    /\ \/ /\ Len(inner) < InnerCap /\ reported < MaxReports
          /\ reported' = reported + 1
          /\ inner' = Append(inner, reported + 1)
          /\ UNCHANGED <<source, innerClosed>>
       \/ /\ cancelled \/ reported = MaxReports
          /\ SourceEnds
          /\ UNCHANGED <<inner, reported>>
    /\ UNCHANGED <<kind, os, caller, cancelled, output, pump, held>>

-----------------------------------------------------------------------------
(* USB on Linux.  The socket may fail at first or at any read; a read ends *)
(* after a second at the latest, and the context is looked at before each. *)
OpenNetlink ==
    /\ kind = "usb" /\ os = "linux" /\ source = "open"
    /\ \/ source' = "ready" /\ UNCHANGED innerClosed
       \/ SourceEnds
    /\ UNCHANGED <<kind, os, caller, cancelled, output, pump, held, inner, reported>>

Receive ==
    /\ kind = "usb" /\ os = "linux" /\ source = "ready"
    /\ \/ ~cancelled /\ source' = "read" /\ UNCHANGED innerClosed
       \/ cancelled /\ SourceEnds
    /\ UNCHANGED <<kind, os, caller, cancelled, output, pump, held, inner, reported>>

(* Recvfrom and parseUevent: a timeout or a report about something else, a *)
(* fatal error, or a report to send.                                       *)
Received ==
    /\ kind = "usb" /\ os = "linux" /\ source = "read"
    /\ \/ source' = "ready" /\ UNCHANGED <<innerClosed, held, reported>>
       \/ SourceEnds /\ UNCHANGED <<held, reported>>
       \/ Report /\ source' = "send" /\ UNCHANGED innerClosed
    /\ UNCHANGED <<kind, os, caller, cancelled, output, pump, inner>>

M_SendReport ==
    /\ kind = "usb" /\ os = "linux" /\ source = "send"
    /\ \/ HandOver
       \/ Len(inner) = InnerCap /\ held' = 0 /\ UNCHANGED inner
    /\ source' = "ready"
    /\ UNCHANGED <<kind, os, caller, cancelled, output, pump, reported, innerClosed>>

SendReport ==
    /\ kind = "usb" /\ os = "linux" /\ source = "send"
    /\ \/ HandOver /\ source' = "ready" /\ UNCHANGED innerClosed
       \/ cancelled /\ SourceEnds /\ held' = 0 /\ UNCHANGED inner
    /\ UNCHANGED <<kind, os, caller, cancelled, output, pump, reported>>

-----------------------------------------------------------------------------
(* USB on Windows.  The watcher starts a goroutine with a window and its   *)
(* message loop, waits for it, then for the context, posts WM_CLOSE, waits *)
(* for the loop to end and clears watcherOut.                              *)
OpenWindow ==
    /\ kind = "usb" /\ os = "windows" /\ source = "open"
    /\ source' = "startup" /\ pump' = "register"
    /\ UNCHANGED <<kind, os, caller, cancelled, output, held, inner, innerClosed, reported>>

(* Registration fails (errCh) or succeeds (hwndCh).                        *)
Register ==
    /\ pump = "register"
    /\ pump' \in {"failed", "get"}
    /\ UNCHANGED <<kind, os, caller, cancelled, output, source, held, inner, innerClosed, reported>>

(* select {errCh, hwndCh, ctx.Done}: after ctx.Done the loop is left alone.*)
Startup ==
    /\ source = "startup"
    /\ \/ pump = "failed" /\ source' = "clear"
       \/ pump \in {"get", "send", "deaf", "done"} /\ source' = "ready"
       \/ cancelled /\ source' = "clear"
    /\ UNCHANGED <<kind, os, caller, cancelled, output, pump, held, inner, innerClosed, reported>>

PostClose ==
    /\ kind = "usb" /\ os = "windows" /\ source = "ready" /\ cancelled
    /\ source' = "closing"
    /\ UNCHANGED <<kind, os, caller, cancelled, output, pump, held, inner, innerClosed, reported>>

LoopDone ==
    /\ source = "closing" /\ pump = "done"
    /\ source' = "clear"
    /\ UNCHANGED <<kind, os, caller, cancelled, output, pump, held, inner, innerClosed, reported>>

(* The deferred function takes watcherMu, which a window procedure that is *)
(* sending holds.                                                          *)
M_Clear ==
    /\ source = "clear"
    /\ SourceEnds
    /\ UNCHANGED <<kind, os, caller, cancelled, output, pump, held, inner, reported>>

Clear ==
    /\ source = "clear" /\ pump # "send"
    /\ SourceEnds
    /\ UNCHANGED <<kind, os, caller, cancelled, output, pump, held, inner, reported>>

(* GetMessageW: a device notification, which wndProc sends on if watcherOut*)
(* is still set, or WM_CLOSE.                                              *)
GetMessage ==
    /\ pump = "get"
    /\ \/ Report /\ source # "ended" /\ pump' = "send"
       \/ source = "closing" /\ pump' = "done" /\ UNCHANGED <<held, reported>>
    /\ UNCHANGED <<kind, os, caller, cancelled, output, source, inner, innerClosed>>

(* GetMessageW fails, or somebody else closes the window (external): the   *)
(* loop ends by itself, and the watcher waits for the context as before.   *)
LoopEndsEarly ==
    /\ pump = "get"
    /\ pump' = "done"
    /\ UNCHANGED <<kind, os, caller, cancelled, output, source, held, inner, innerClosed, reported>>

(* watcherOut <- USBEvent, with watcherMu held and without ctx.            *)
WndProcSends ==
    /\ pump = "send"
    /\ HandOver
    /\ pump' = "get"
    /\ UNCHANGED <<kind, os, caller, cancelled, output, source, innerClosed, reported>>

(* The Go scheduler (external) may continue the goroutine on a thread that *)
(* does not own the window: GetMessageW then waits for ever.               *)
Migrate ==
    /\ pump = "get"
    /\ pump' = "deaf"
    /\ UNCHANGED <<kind, os, caller, cancelled, output, source, held, inner, innerClosed, reported>>

-----------------------------------------------------------------------------
Main     == StartPolling \/ StartUsb \/ StartFiles \/ StartPassive
             \/ Stop \/ StopFiles \/ AdapterStopped \/ CloseChannel
Worker   == Emit \/ TakeSnapshot \/ Quit \/ Joined \/ Take \/ FeedEnded
Linux    == OpenNetlink \/ Receive \/ Received \/ SendReport
Windows  == OpenWindow \/ Startup \/ PostClose \/ LoopDone \/ Clear
Pump     == Register \/ GetMessage \/ WndProcSends

Next ==
    \/ Traffic \/ Signal
    \/ Main \/ Worker \/ Stalls \/ Tick
    \/ WatchFiles \/ Replay \/ Linux \/ Windows \/ Pump \/ LoopEndsEarly \/ Migrate

Spec == Init /\ [][Next]_vars

(* Goroutines run, and a select that stands before ctx.Done and something  *)
(* else again and again takes ctx.Done at last: it chooses at random.      *)
(* Nobody has to read the channel, send the signal or report anything.     *)
Fairness ==
    /\ WF_vars(Main) /\ WF_vars(Worker) /\ SF_vars(Quit)
    /\ WF_vars(Replay) /\ WF_vars(Linux) /\ WF_vars(Windows) /\ WF_vars(Pump)

FairSpec == Spec /\ Fairness

-----------------------------------------------------------------------------
TypeOK ==
    /\ kind \in Kinds /\ os \in {"linux", "windows"}
    /\ main \in {"off", "running", "adapter", "waiting", "closed", "fatal"}
    /\ {cancelled, innerClosed, closeFailed} \subseteq BOOLEAN
    /\ worker \in {"none", "collect", "loop", "emit", "stalled", "join", "ended"}
    /\ source \in {"none", "open", "ready", "read", "send", "startup", "closing",
                   "clear", "quitting", "ended"}
    /\ pump \in {"none", "register", "failed", "get", "send", "deaf", "done"}
    /\ fill \in 0..ChanCap /\ {reported, held} \subseteq 0..MaxReports
    /\ inner \in Seq(0..MaxReports) /\ Len(inner) <= InnerCap

Emitting == worker \in {"emit", "stalled"}

(* No goroutine can send on a channel that has been closed: when main has  *)
(* closed its channel the run goroutine has ended, and when the USB watcher*)
(* has closed internalOut the window procedure is not sending on it,       *)
(* although the watcher may have left the message loop running.  Not so if *)
(* watcher.Close failed: the filesystem collector's Stop then returns      *)
(* without waiting.                                                        *)
NoSendOnClosed ==
    /\ main = "closed" /\ ~closeFailed => worker \in {"none", "ended"}
    /\ innerClosed => source = "ended" /\ pump # "send"

(* Backpressure loses nothing: until the context is cancelled every report *)
(* that was taken from the system is delivered, in order, or is still on   *)
(* its way (the select statements of watcher, loop and emission have no    *)
(* other way out).  After that reports may be missing, never out of order. *)
NothingSkipped ==
    LET way == delivered \o <<event.no>> \o inner \o <<held>>   \* 0 is no report
    IN  /\ ~cancelled => ToSet(way) \ {0} = 1..reported
        /\ \A i, j \in 1..Len(way) : i < j /\ way[i] # 0 /\ way[j] # 0 => way[i] < way[j]

(* A snapshot names every table, list of interfaces or hostname that could *)
(* not be read and has every row of those that could, and at least one     *)
(* could (takeSnapshot, osSpecificConnections, parseTcpTable).  One failure*)
(* is not named: an interface whose addresses could not be read looks like *)
(* one without addresses, so of a listed interface the snapshot has either *)
(* all addresses or, after a failure, none; it never has a part of them.   *)
SnapshotsAreHonest ==
    Emitting /\ kind \in Periodic =>
        LET sources == event.truth.sources
            ips     == event.truth.ips
        IN  /\ \A s \in DOMAIN sources :
                  /\ sources[s].ok <=> s \notin event.report.flags
                  /\ sources[s].rows = event.report.rows[s]
            /\ \E s \in DOMAIN sources : sources[s].ok
            /\ DOMAIN event.report.ips = DOMAIN ips
            /\ \A i \in DOMAIN ips : \/ event.report.ips[i] = ips[i].rows
                                     \/ event.report.ips[i] = 0 /\ ~ips[i].ok

(* The decoder never looks beyond the bytes that were captured, whatever   *)
(* the length fields of the headers say.                                   *)
DecoderStaysInFrame ==
    Emitting /\ kind = "passive" => ~event.truth.overrun

(* What an event claims is in the frame: a frame whose headers are not     *)
(* intact is flagged and never known, an intact one is not rejected, and   *)
(* Modbus is known only where there is a complete Modbus header.           *)
EvidenceIsSound ==
    Emitting /\ kind = "passive" =>
        /\ ~event.truth.intact => event.report.conf # "known" /\ event.report.flags # {}
        /\ event.truth.intact => event.report.conf # "unsupported"
        /\ event.report.hint = "modbus" /\ event.report.conf = "known" => event.truth.modbus

(* The two ways in which the USB collector cannot be stopped on Windows:   *)
(* the window procedure waits for room that nobody will make any more, or  *)
(* the message loop does not hear WM_CLOSE.                                *)
Wedged ==
    \/ pump = "send" /\ Len(inner) = InnerCap /\ worker = "join"
    \/ pump = "deaf" /\ source = "closing"

(* The signal leads to a closed channel, without the help of a reader: no  *)
(* goroutine that Stop waits for can be stuck on a full channel.           *)
StopReturns == cancelled ~> (main \in {"closed", "fatal"} \/ Wedged)

(* docs/context/CURRENT_STATE.md: "Collectors stop immediately upon        *)
(* lifecycle cancellation (`ctx.Done()`)."  Even when the message loop     *)
(* stays on its thread, so that only the code's own waiting is left, Stop  *)
(* may never return.                                                       *)
CollectorsStop == cancelled ~> (main \in {"closed", "fatal"} \/ pump = "deaf")
=============================================================================
