------------------------------ MODULE QtSocket ------------------------------
(***************************************************************************)
(* PuTTY's Socket on top of a QTcpSocket (QtNet.cpp), from sk_new to       *)
(* sk_close, with the plug that uses it: the SSH backend's output queue    *)
(* and throttle (puttysrc/ssh/ssh.c) and the choice, made while data is    *)
(* being received, to freeze the socket (telnet.c, ssh.c).                 *)
(*                                                                         *)
(* All of it runs in the event loop.  A signal handler, a queued call and  *)
(* a top-level callback are one step each, except that on_readyRead takes  *)
(* one step per buffer it reads: while it loops nothing else runs.         *)
(*                                                                         *)
(* Data is counted in pieces; pieces written are numbered from 1.          *)
(***************************************************************************)
EXTENDS Naturals, Sequences, FiniteSetsExt

CONSTANTS MaxOut,      \* bound: pieces the backend produces
          MaxIn,       \* bound: pieces the peer sends
          ReadSize,    \* pieces one buffer of on_readyRead holds
          MaxBacklog   \* SSH_MAX_BACKLOG, in pieces

ASSUME SocketAssumption ==
  /\ MaxOut \in Nat /\ MaxIn \in Nat /\ MaxBacklog \in Nat
  /\ ReadSize \in Nat \ {0}

VARIABLES
  link,            \* Qt: "connecting", "connected", "failed" or "closed"
  alive,           \* the QtSocket has not been destroyed by sk_close
  writable, frozen, frozenReadable,    \* the fields of QtSocket
  outputData,      \* pieces kept until the connection is made
  loop,            \* on_readyRead is looping, called by a "signal" or by "unfreeze"
  posted,          \* a plug_closing call is queued in the event loop
  told,            \* history: the plug's closing() was called
  unread,          \* Qt: pieces received and not yet read
  arrived,         \* Qt: pieces received in all
  wire,            \* pieces handed to Qt for sending, in order
  toWrite,         \* Qt: bytesToWrite, the last pieces of wire
  outRaw,          \* ssh: out_raw
  produced,        \* ssh: pieces put into out_raw so far
  cbQueued,        \* ssh: the ic_out_raw callback is queued
  throttled        \* ssh: throttled_all

inVars == <<frozen, frozenReadable, loop, unread, arrived>>
outVars == <<outputData, wire, toWrite>>
sshVars == <<outRaw, produced, cbQueued, throttled>>
endVars == <<posted, told>>
vars == <<link, alive, writable, inVars, outVars, sshVars, endVars>>

Init ==
  /\ link = "connecting" /\ alive = TRUE
  /\ writable = FALSE /\ frozen = FALSE /\ frozenReadable = FALSE
  /\ outputData = <<>> /\ loop = "no"
  /\ posted = FALSE /\ told = FALSE
  /\ unread = 0 /\ arrived = 0 /\ wire = <<>> /\ toWrite = 0
  /\ outRaw = <<>> /\ produced = 0 /\ cbQueued = FALSE /\ throttled = FALSE

\* A signal or a callback is handled: none is while on_readyRead loops.
Event == loop = "no"

-----------------------------------------------------------------------------
(* Making and losing the connection.                                       *)

\* Mutant: what was written before the connection was made is not sent first.
OnConnectedNoFlush ==
  /\ Event /\ alive /\ link = "connecting"
  /\ link' = "connected"
  /\ writable' = TRUE
  /\ UNCHANGED <<alive, inVars, outVars, sshVars, endVars>>

\* on_connected: what was written so far goes out.
OnConnected ==
  /\ Event /\ alive /\ link = "connecting"
  /\ link' = "connected"
  /\ writable' = TRUE
  /\ wire' = wire \o outputData
  /\ toWrite' = toWrite + Len(outputData)
  /\ outputData' = <<>>
  /\ UNCHANGED <<alive, inVars, sshVars, endVars>>

\* on_error while connecting: reported with PLUGLOG_CONNECT_FAILED only.
OnConnectError ==
  /\ Event /\ alive /\ link = "connecting"
  /\ link' = "failed"
  /\ writable' = FALSE
  /\ outputData' = <<>>
  /\ UNCHANGED <<alive, inVars, wire, toWrite, sshVars, endVars>>

\* Mutant: closing() is not queued.
OnDisconnectedSilent ==
  /\ Event /\ alive /\ link = "connected"
  /\ link' = "closed"
  /\ writable' = FALSE
  /\ outputData' = <<>>
  /\ UNCHANGED <<alive, inVars, wire, toWrite, sshVars, endVars>>

\* The connection is lost or closed by the peer: on_error, then on_disconnected,
\* which queues the call of closing().
OnDisconnected ==
  /\ Event /\ alive /\ link = "connected"
  /\ link' = "closed"
  /\ writable' = FALSE
  /\ outputData' = <<>>
  /\ posted' = TRUE
  /\ UNCHANGED <<alive, inVars, wire, toWrite, sshVars, told>>

\* The queued call: made if the socket still exists, and both backends then
\* close it (telnet_closing, ssh_remote_error).
InvokePlugClosing ==
  /\ Event /\ posted
  /\ posted' = FALSE
  /\ IF alive THEN told' = TRUE /\ alive' = FALSE
              ELSE UNCHANGED <<told, alive>>
  /\ UNCHANGED <<link, writable, inVars, outVars, sshVars>>

\* sk_tcp_close, at the backend's own initiative.
SkClose ==
  /\ Event /\ alive
  /\ alive' = FALSE
  /\ UNCHANGED <<link, writable, inVars, outVars, sshVars, endVars>>

-----------------------------------------------------------------------------
(* Receiving.                                                              *)

\* Qt has read k pieces and emits readyRead.
OnReadyRead ==
  /\ Event /\ alive /\ link = "connected"
  /\ \E k \in 1..MaxIn :
       /\ arrived + k =< MaxIn
       /\ arrived' = arrived + k
       /\ unread' = unread + k
  /\ IF frozen THEN frozenReadable' = TRUE /\ UNCHANGED loop
               ELSE loop' = "signal" /\ UNCHANGED frozenReadable
  /\ UNCHANGED <<link, alive, writable, frozen, outVars, sshVars, endVars>>

\* Mutant: one buffer is read per signal, without the loop.
ReadOnce ==
  /\ loop # "no"
  /\ unread' = unread - Min({unread, ReadSize})
  /\ frozen' \in BOOLEAN
  /\ loop' = "no"
  /\ frozenReadable' = (frozenReadable /\ frozen' = frozen /\ ~(loop = "unfreeze"))
  /\ UNCHANGED <<link, alive, writable, arrived, outVars, sshVars, endVars>>

\* One turn of the loop: a buffer is read and given to the plug, which may call
\* sk_set_frozen.  The loop ends when nothing is left, and with it the
\* sk_tcp_set_frozen that started it.
ReadAndReceive ==
  /\ loop # "no"
  /\ unread' = unread - Min({unread, ReadSize})
  /\ frozen' \in BOOLEAN
  /\ loop' = IF unread' > 0 THEN loop ELSE "no"
  /\ frozenReadable' = (frozenReadable /\ frozen' = frozen /\ ~(loop = "unfreeze" /\ unread' = 0))
  /\ UNCHANGED <<link, alive, writable, arrived, outVars, sshVars, endVars>>

\* Mutant: unfreezing forgets the notification it missed.
SetFrozenForgets(b) ==
  /\ Event /\ alive
  /\ frozen # b
  /\ frozen' = b
  /\ frozenReadable' = FALSE
  /\ UNCHANGED <<link, alive, writable, loop, unread, arrived, outVars, sshVars, endVars>>

\* sk_tcp_set_frozen from a callback: telnet_unthrottle, ssh_check_frozen.
SetFrozen(b) ==
  /\ Event /\ alive
  /\ frozen # b
  /\ frozen' = b
  /\ IF ~b /\ frozenReadable
     THEN loop' = "unfreeze" /\ UNCHANGED frozenReadable
     ELSE frozenReadable' = FALSE /\ UNCHANGED loop
  /\ UNCHANGED <<link, alive, writable, unread, arrived, outVars, sshVars, endVars>>

-----------------------------------------------------------------------------
(* Sending.                                                                *)

\* The connection layer adds to out_raw, which queues the output callback.
\* While throttled the channels send nothing.
Produce ==
  /\ Event /\ alive
  /\ produced < MaxOut /\ ~throttled
  /\ produced' = produced + 1
  /\ outRaw' = Append(outRaw, produced + 1)
  /\ cbQueued' = TRUE
  /\ UNCHANGED <<link, alive, writable, inVars, outVars, endVars, throttled>>

\* How many pieces ssh_bpp_output_raw_data_callback writes before the backlog
\* that sk_tcp_write returns makes it stop.
Writes ==
  IF writable THEN Min({Len(outRaw), Max({1, MaxBacklog + 1 - toWrite})}) ELSE Len(outRaw)

\* ssh_bpp_output_raw_data_callback, a sk_tcp_write for each piece.
OutputCallback ==
  /\ Event /\ alive /\ cbQueued
  /\ cbQueued' = FALSE
  /\ outRaw' = SubSeq(outRaw, Writes + 1, Len(outRaw))
  /\ LET data == SubSeq(outRaw, 1, Writes) IN
     IF writable
     THEN /\ wire' = wire \o data
          /\ toWrite' = toWrite + Len(data)
          /\ throttled' = (throttled \/ toWrite' > MaxBacklog)
          /\ UNCHANGED outputData
     ELSE outputData' = outputData \o data /\ UNCHANGED <<wire, toWrite, throttled>>
  /\ UNCHANGED <<link, alive, writable, inVars, endVars, produced>>

\* Qt sends a piece and emits bytesWritten; on_bytesWritten only stirs the
\* random pool.
OnBytesWritten ==
  /\ Event /\ alive /\ link = "connected" /\ toWrite > 0
  /\ toWrite' = toWrite - 1
  /\ UNCHANGED <<link, alive, writable, inVars, outputData, wire, sshVars, endVars>>

-----------------------------------------------------------------------------
Next ==
  \/ OnConnected \/ OnConnectError \/ OnDisconnected \/ InvokePlugClosing \/ SkClose
  \/ OnReadyRead \/ ReadAndReceive \/ (\E b \in BOOLEAN : SetFrozen(b))
  \/ Produce \/ OutputCallback \/ OnBytesWritten

\* The event loop runs what is queued, and Qt sends while it is connected.
Fairness ==
  /\ WF_vars(ReadAndReceive)
  /\ WF_vars(InvokePlugClosing)
  /\ WF_vars(OutputCallback)
  /\ WF_vars(OnBytesWritten)

Spec == Init /\ [][Next]_vars /\ Fairness

-----------------------------------------------------------------------------
TypeOK ==
  /\ link \in {"connecting", "connected", "failed", "closed"}
  /\ loop \in {"no", "signal", "unfreeze"}
  /\ alive \in BOOLEAN /\ writable \in BOOLEAN
  /\ frozen \in BOOLEAN /\ frozenReadable \in BOOLEAN
  /\ posted \in BOOLEAN /\ told \in BOOLEAN
  /\ cbQueued \in BOOLEAN /\ throttled \in BOOLEAN
  /\ arrived \in Nat /\ unread \in 0..arrived
  /\ wire \in Seq(Nat) /\ outputData \in Seq(Nat) /\ outRaw \in Seq(Nat)
  /\ toWrite \in 0..Len(wire)
  /\ produced \in Nat

\* What reaches Qt is what the backend wrote, in order, nothing lost or doubled,
\* whether it was written before or after the connection was made (sk_tcp_write
\* and on_connected); until the connection ends the rest is in outputData.
WritesInOrder ==
  /\ \A i \in DOMAIN wire : wire[i] = i
  /\ link \in {"connecting", "connected"} =>
       /\ \A i \in DOMAIN outputData : outputData[i] = Len(wire) + i
       /\ \A i \in DOMAIN outRaw : outRaw[i] = Len(wire) + Len(outputData) + i

\* No wake-up is lost: between events, data waits in the socket only while it is
\* frozen and remembers a missed notification (frozen_readable), so unfreezing
\* it delivers the data, however freezing, receiving and closing interleave.
MissedIsRemembered ==
  loop = "no" /\ unread > 0 => frozen /\ frozenReadable

\* Data that has arrived at a socket that is not frozen reaches the plug, even if
\* the plug freezes the socket while it is being given the data.
WaitingDataDelivered == (unread > 0 /\ ~frozen) ~> (unread = 0)

\* A lost connection reaches the backend, which closes its socket.
LossReachesBackend == (link = "closed") ~> ~alive

\* "closing() will be called" when a connection attempt has failed for good.
FailureReachesBackend == (link = "failed") ~> (told \/ ~alive)

-----------------------------------------------------------------------------
(* The inductive invariant behind WritesInOrder and MissedIsRemembered.    *)

\* Writes go to Qt exactly while it is connected; nothing is held back then.
ModesAgree ==
  /\ writable <=> link = "connected"
  /\ link = "connected" => outputData = <<>>

\* Every piece produced is on the wire, held back or still in out_raw.
AllAccounted ==
  link \in {"connecting", "connected"} =>
    produced = Len(wire) + Len(outputData) + Len(outRaw)

SocketInv == TypeOK /\ ModesAgree /\ AllAccounted /\ WritesInOrder /\ MissedIsRemembered
=============================================================================
