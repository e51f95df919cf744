----------------------------- MODULE StreamBridge -----------------------------
(***************************************************************************)
(* A server stream of the desktop application: a command of the host sends *)
(* frames over a channel, and a generator in the web view hands them to    *)
(* the client that pulls (connect_stream for queries, files_download for   *)
(* files).  JavaScript runs to the next yield or await without a break.    *)
(* Tauri, external, delivers the frames of a channel in their order and    *)
(* the answer of the command after them.                                   *)
(***************************************************************************)
EXTENDS Naturals, Sequences

CONSTANT MaxFrames \* frames in a stream (bound)

ASSUME BridgeAssumption == MaxFrames \in Nat \ {0}

VARIABLES command, \* the command: what it serves, how far it is, and the frames it has sent
          channel, \* the frames on their way
          bridge,  \* the queue, done, failure, notify and the client's signal
          reader   \* where the generator waits, and (history) what it has yielded

bridgeVars == <<command, channel, bridge, reader>>

Frames == 1..MaxFrames

BridgeTypeOK ==
  /\ command \in [serves : {"query", "download"}, state : {"new", "running", "ok", "failed"}, sent : 0..MaxFrames]
  /\ channel \in Seq(Frames)
  /\ bridge \in [queue : Seq(Frames), done : BOOLEAN, failure : BOOLEAN, notify : BOOLEAN, aborted : BOOLEAN]
  /\ reader \in [at : {"top", "yielded", "asleep", "woken", "ended", "threw", "aborted", "left"}, got : Seq(Frames)]

BridgeInit ==
  /\ command \in [serves : {"query", "download"}, state : {"new"}, sent : {0}]
  /\ channel = <<>>
  /\ bridge = [queue |-> <<>>, done |-> FALSE, failure |-> FALSE, notify |-> FALSE, aborted |-> FALSE]
  /\ reader = [at |-> "top", got |-> <<>>]

-----------------------------------------------------------------------------
\* A download is invoked by the generator, as it begins; a query before there is one.
Invoked == command.serves = "download" => reader.at \notin {"top", "left"}

\* The command takes a snapshot of the active environment and asks it for the stream.
Invoke ==
  /\ command.state = "new" /\ Invoked
  /\ command' = [command EXCEPT !.state = "running"]
  /\ UNCHANGED <<channel, bridge, reader>>

SendFrame ==
  /\ command.state = "running" /\ command.sent < MaxFrames
  /\ command' = [command EXCEPT !.sent = @ + 1]
  /\ channel' = Append(channel, command.sent + 1)
  /\ UNCHANGED <<bridge, reader>>

\* The stream ends; or there is no active environment, the call, the stream or a send fails.
Return ==
  /\ \/ command.state = "running" /\ command' = [command EXCEPT !.state = "ok"]
     \/ command.state \in {"new", "running"} /\ Invoked /\ command' = [command EXCEPT !.state = "failed"]
  /\ UNCHANGED <<channel, bridge, reader>>

\* notify?.()
Notified == [reader EXCEPT !.at = IF @ = "asleep" /\ bridge.notify THEN "woken" ELSE @]

\* Mutant: a frame wakes nobody up.
OnMessageSilent ==
  /\ channel # <<>>
  /\ channel' = Tail(channel)
  /\ bridge' = [bridge EXCEPT !.queue = Append(@, Head(channel))]
  /\ UNCHANGED <<command, reader>>

OnMessage ==
  /\ channel # <<>>
  /\ channel' = Tail(channel)
  /\ bridge' = [bridge EXCEPT !.queue = Append(@, Head(channel))]
  /\ reader' = Notified
  /\ UNCHANGED command

Completed ==
  /\ command.state \in {"ok", "failed"} /\ channel = <<>> /\ ~bridge.done
  /\ bridge' = [bridge EXCEPT !.done = TRUE, !.failure = command.state = "failed"]
  /\ reader' = Notified
  /\ UNCHANGED <<command, channel>>

Abort ==
  /\ command.serves = "query" /\ ~bridge.aborted
  /\ bridge' = [bridge EXCEPT !.aborted = TRUE]
  /\ UNCHANGED <<command, channel, reader>>

-----------------------------------------------------------------------------
\* The client asks for the next message, of a new generator or after the last message; a generator
\* that was awake goes on by itself.  The signal is looked at only at the top of the loop.
AtTop == reader.at \in {"top", "woken"}
Aborted == AtTop /\ bridge.aborted
Runs == reader.at \in {"top", "woken", "yielded"} /\ ~Aborted
Reads(at) == reader' = [reader EXCEPT !.at = at]
Awake == [bridge EXCEPT !.notify = FALSE]

ThrowAborted ==
  /\ Aborted
  /\ Reads("aborted") /\ bridge' = Awake
  /\ UNCHANGED <<command, channel>>

YieldFrame ==
  /\ Runs /\ bridge.queue # <<>>
  /\ reader' = [at |-> "yielded", got |-> Append(reader.got, Head(bridge.queue))]
  /\ bridge' = [Awake EXCEPT !.queue = Tail(@)]
  /\ UNCHANGED <<command, channel>>

\* Mutant: done is looked at before the queue.
EndWhenDone ==
  /\ Runs /\ bridge.done
  /\ Reads(IF bridge.failure THEN "threw" ELSE "ended") /\ bridge' = Awake
  /\ UNCHANGED <<command, channel>>

\* The queue is drained before done is looked at.
EndStream ==
  /\ Runs /\ bridge.queue = <<>> /\ bridge.done
  /\ Reads(IF bridge.failure THEN "threw" ELSE "ended") /\ bridge' = Awake
  /\ UNCHANGED <<command, channel>>

Sleep ==
  /\ Runs /\ bridge.queue = <<>> /\ ~bridge.done
  /\ Reads("asleep") /\ bridge' = [bridge EXCEPT !.notify = TRUE]
  /\ UNCHANGED <<command, channel>>

\* The client breaks off; the command goes on.
LeaveStream ==
  /\ reader.at \in {"top", "yielded"}
  /\ Reads("left")
  /\ UNCHANGED <<command, channel, bridge>>

BridgeNext ==
  \/ Invoke \/ SendFrame \/ Return \/ OnMessage \/ Completed \/ Abort
  \/ ThrowAborted \/ YieldFrame \/ EndStream \/ Sleep \/ LeaveStream

BridgeSpec == BridgeInit /\ [][BridgeNext]_bridgeVars

-----------------------------------------------------------------------------
\* The client gets what the command sent, in order; a stream that ends or fails by itself does so when
\* the command has, and after all of its frames ("surface a command error, if any").
InOrderAndWhole ==
  /\ reader.got \o bridge.queue \o channel = [i \in 1..command.sent |-> i]
  /\ reader.at \in {"ended", "threw"} =>
       /\ Len(reader.got) = command.sent
       /\ command.state = IF reader.at = "ended" THEN "ok" ELSE "failed"

\* A generator that sleeps has nothing to do, and will be woken up.
SleepsWithCause == reader.at = "asleep" => bridge.queue = <<>> /\ ~bridge.done /\ bridge.notify

\* Frames and the end of the command come while the client is busy, before it begins and between its
\* reading the queue and falling asleep: nothing is lost, misplaced or waited for in vain.
BridgeIsWhole == InOrderAndWhole /\ SleepsWithCause
=============================================================================
