----------------------------- MODULE TmuxChannel -----------------------------
(***************************************************************************)
(* The command channel of the tmux control mode gateway:                   *)
(* TmuxGateway::sendCommand and TmuxGateway::parseCommand                  *)
(* (tmux/TmuxGateway.cpp) on one side, a tmux server on the other.         *)
(*                                                                         *)
(* The gateway writes a command to the line discipline and queues who is   *)
(* to get the answer.  The server answers every command, in order, with a  *)
(* block  %begin / lines / %end,  and writes notifications between blocks. *)
(* Nothing in a block names the command it answers, so the queue is all    *)
(* that ties an answer to its command.                                     *)
(*                                                                         *)
(* What a callback or a notification handler does is left open here: it    *)
(* may send any number of further commands.  Module TmuxGateway says what  *)
(* the handlers do.                                                        *)
(*                                                                         *)
(* Lines carry ghost fields the program cannot see: n, how many commands   *)
(* the server had begun to answer when it wrote the line, and k, the       *)
(* position of the line in its block (for "end": the number of lines).     *)
(***************************************************************************)
EXTENDS Naturals, Sequences

CONSTANTS MaxSent,   \* bound: commands sent in one behaviour
          MaxBurst,  \* bound: commands one handler sends
          MaxLines,  \* bound: lines in one answer
          MaxNotes   \* bound: notifications written in one behaviour

ASSUME ChannelAssumption ==
  /\ MaxSent \in Nat
  /\ MaxBurst \in Nat
  /\ MaxLines \in Nat
  /\ MaxNotes \in Nat

VARIABLES
  sent,      \* commands sent so far; the ids of the commands are 1..sent
  cmdq,      \* _commandQueue: ids of the commands whose %begin is to come
  cur,       \* _currentCommand: the command being answered, 0 for receiver = NULL
  resp,      \* _currentCommandResponse: the lines collected for cur
  callback,  \* the last performCallback: the command and the answer it was given
  toSrv,     \* commands written to the server that it has not yet answered
  stream,    \* lines the server wrote that parseCommand has not yet seen
  notes      \* notifications written so far

vars == <<sent, cmdq, cur, resp, callback, toSrv, stream, notes>>

Kinds == {"begin", "data", "end", "error", "note"}
Line == [t : Kinds, n : Nat, k : Nat]
NoCallback == [cmd |-> 0, lines |-> <<>>, size |-> 0]

\* Commands the server has begun to answer, and those whose %begin was parsed.
Answered == sent - Len(toSrv)
Begun == sent - Len(cmdq)

-----------------------------------------------------------------------------
(* tmux announces the attach itself with a block no command asked for.     *)
AttachBlock == << [t |-> "begin", n |-> 0, k |-> 0], [t |-> "end", n |-> 0, k |-> 0] >>

Init ==
  /\ sent = 0 /\ cmdq = <<>> /\ cur = 0 /\ resp = <<>>
  /\ callback = NoCallback
  /\ toSrv = <<>>
  /\ stream = AttachBlock
  /\ notes = 0

\* The ids m+1..m+b, in order.
Ids(m, b) == [i \in 1..b |-> m + i]

\* sendCommand, b times in a row: each command is written and queued.
SendCommands(b) ==
  /\ sent + b =< MaxSent
  /\ sent' = sent + b
  /\ cmdq' = cmdq \o Ids(sent, b)
  /\ toSrv' = toSrv \o Ids(sent, b)

-----------------------------------------------------------------------------
(* The server (external).                                                  *)

Block(id, m, last) ==
  [i \in 1..(m + 2) |->
     [t |-> IF i = 1 THEN "begin" ELSE IF i = m + 2 THEN last ELSE "data",
      n |-> id,
      k |-> IF i = m + 2 THEN m ELSE i - 1]]

Answer(m, last) ==
  /\ toSrv # <<>>
  /\ toSrv' = Tail(toSrv)
  /\ stream' = stream \o Block(Head(toSrv), m, last)
  /\ UNCHANGED <<sent, cmdq, cur, resp, callback, notes>>

SrvAnswer == \E m \in 0..MaxLines : Answer(m, "end")

\* tmux closes the block of a command that failed with %error.
SrvFail == Answer(1, "error")

SrvNotify ==
  /\ notes < MaxNotes
  /\ notes' = notes + 1
  /\ stream' = Append(stream, [t |-> "note", n |-> Answered, k |-> 0])
  /\ UNCHANGED <<sent, cmdq, cur, resp, callback, toSrv>>

-----------------------------------------------------------------------------
(* The gateway.  parseCommand takes the next line; its tests, in the order *)
(* of the code, are the guards of the five actions below.                  *)

NextLine(t) ==
  /\ stream # <<>>
  /\ Head(stream).t = t
  /\ stream' = Tail(stream)
  /\ UNCHANGED notes

\* Mutant: the receiver is not reset once it was called back.
ParseEndKeepsCurrent ==
  /\ NextLine("end")
  /\ cur # 0
  /\ callback' = [cmd |-> cur, lines |-> resp, size |-> Head(stream).k]
  /\ cur' = cur
  /\ resp' = <<>>
  /\ \E b \in 0..MaxBurst : SendCommands(b)

\* %end of the command being answered: its receiver gets the answer, and may
\* send more commands while it handles it.
ParseEnd ==
  /\ NextLine("end")
  /\ cur # 0
  /\ callback' = [cmd |-> cur, lines |-> resp, size |-> Head(stream).k]
  /\ cur' = 0
  /\ resp' = <<>>
  /\ \E b \in 0..MaxBurst : SendCommands(b)

\* %end when nothing is being answered is ignored.
ParseStrayEnd ==
  /\ NextLine("end")
  /\ cur = 0
  /\ UNCHANGED <<sent, cmdq, cur, resp, callback, toSrv>>

\* Any line that is not %end belongs to the answer while one is being collected.
ParseResponseLine ==
  /\ \E t \in Kinds \ {"end"} : NextLine(t)
  /\ cur # 0
  /\ resp' = Append(resp, Head(stream))
  /\ UNCHANGED <<sent, cmdq, cur, callback, toSrv>>

\* Mutant: the youngest queued command is taken, as from a stack.
ParseBeginLast ==
  /\ NextLine("begin")
  /\ cur = 0
  /\ IF cmdq = <<>>
     THEN UNCHANGED <<cmdq, cur, resp>>
     ELSE cur' = cmdq[Len(cmdq)] /\ cmdq' = SubSeq(cmdq, 1, Len(cmdq) - 1) /\ resp' = <<>>
  /\ UNCHANGED <<sent, callback, toSrv>>

\* %begin starts the answer of the oldest queued command; with an empty queue
\* it is ignored.
ParseBegin ==
  /\ NextLine("begin")
  /\ cur = 0
  /\ IF cmdq = <<>>
     THEN UNCHANGED <<cmdq, cur, resp>>
     ELSE cur' = Head(cmdq) /\ cmdq' = Tail(cmdq) /\ resp' = <<>>
  /\ UNCHANGED <<sent, callback, toSrv>>

\* A notification outside a block; %session-changed and %window-add send commands.
ParseNotification ==
  /\ NextLine("note")
  /\ cur = 0
  /\ \E b \in 0..MaxBurst : SendCommands(b)
  /\ UNCHANGED <<cur, resp, callback>>

\* A keystroke or a resize in a pane (tmux_send, resizeEvent).  There is a pane
\* only once a callback has created one.
UserSends ==
  /\ callback # NoCallback
  /\ SendCommands(1)
  /\ UNCHANGED <<cur, resp, callback, stream, notes>>

Parse == ParseEnd \/ ParseStrayEnd \/ ParseResponseLine \/ ParseBegin \/ ParseNotification

Next == SrvAnswer \/ SrvNotify \/ Parse \/ UserSends

\* The network delivers and tmux answers; neither notifications nor users are owed.
Fairness == WF_vars(SrvAnswer) /\ WF_vars(Parse)

Spec == Init /\ [][Next]_vars /\ Fairness

\* The same channel with a server whose commands can fail.
SpecWithErrors == Init /\ [][Next \/ SrvFail]_vars /\ WF_vars(SrvAnswer \/ SrvFail) /\ WF_vars(Parse)

-----------------------------------------------------------------------------
TypeOK ==
  /\ sent \in Nat
  /\ cmdq \in Seq(Nat \ {0})
  /\ cur \in Nat
  /\ resp \in Seq(Line)
  /\ callback \in [cmd : Nat, lines : Seq(Line), size : Nat]
  /\ toSrv \in Seq(Nat \ {0})
  /\ stream \in Seq(Line)
  /\ notes \in Nat

\* Every answer is handed to the command it answers, whole and in order: the
\* lines are those of that command's block, none lost, doubled or foreign.
\* (parseCommand, %end: "command response received")
AnswerMatchesCommand ==
  /\ Len(callback.lines) = callback.size
  /\ \A i \in DOMAIN callback.lines :
        callback.lines[i] = [t |-> "data", n |-> callback.cmd, k |-> i]

\* Callbacks come in the order the commands were sent, none skipped.
CallbacksInOrder ==
  [][callback' # callback => callback'.cmd = callback.cmd + 1]_vars

\* No notification is ever collected as part of an answer: the handlers of
\* parseCommand see every notification tmux writes.
NotesNotSwallowed == \A i \in DOMAIN resp : resp[i].t # "note"

\* %begin never arrives while an answer is still open: the case parseCommand
\* calls fatal ("TMUX %begin command without end").
BeginClosesNothing == \A i \in DOMAIN resp : resp[i].t # "begin"

\* Every command that was sent is answered, and its receiver called back.
EveryCommandAnswered ==
  \A c \in 1..MaxSent : (sent >= c) ~> (callback.cmd >= c)
-----------------------------------------------------------------------------
(* The inductive invariant.  Each part ties one structure to its           *)
(* predecessor: a line of the stream to the line before it, the first line *)
(* to the parser's own state (cur, resp, Begun).                           *)

\* The lines of the block tmux writes on its own account.
Unasked(i) == stream[i].n = 0 /\ stream[i].t \in {"begin", "end"}

\* What has been counted, opened and collected before line i is parsed.
CountBefore(i) == IF i = 1 THEN Begun ELSE stream[i - 1].n
OpenBefore(i) == IF i = 1 THEN cur # 0 ELSE stream[i - 1].t \in {"begin", "data"}
LinesBefore(i) == IF i = 1 THEN Len(resp) ELSE stream[i - 1].k

\* The queue and the commands on the wire are the youngest ids, in order.
QueueNumbered ==
  /\ Len(cmdq) =< sent
  /\ \A i \in DOMAIN cmdq : cmdq[i] = Begun + i

WireNumbered ==
  /\ Len(toSrv) =< sent
  /\ \A i \in DOMAIN toSrv : toSrv[i] = Answered + i

\* Line i is one of: a notification or a %begin after a closed block, a line or
\* the %end of an open one.
LineFollows(i) ==
  \/ /\ stream[i].t = "note"
     /\ ~OpenBefore(i)
     /\ stream[i].n = CountBefore(i)
  \/ /\ stream[i].t = "begin"
     /\ ~OpenBefore(i)
     /\ stream[i].n = CountBefore(i) + 1
     /\ stream[i].k = 0
  \/ /\ stream[i].t = "data"
     /\ OpenBefore(i)
     /\ stream[i].n = CountBefore(i)
     /\ stream[i].k = LinesBefore(i) + 1
  \/ /\ stream[i].t = "end"
     /\ OpenBefore(i)
     /\ stream[i].n = CountBefore(i)
     /\ stream[i].k = LinesBefore(i)

StreamFollows == \A i \in DOMAIN stream : Unasked(i) \/ LineFollows(i)

\* The block nobody asked for comes before any command is sent.
UnaskedFirst ==
  \A i \in DOMAIN stream : Unasked(i) =>
    /\ sent = 0
    /\ cur = 0
    /\ stream[i].t = "begin" => i = 1 /\ Len(stream) > 1 /\ Unasked(2) /\ stream[2].t = "end"
    /\ stream[i].t = "end" => i = 1 \/ (i = 2 /\ Unasked(1) /\ stream[1].t = "begin")

\* The stream ends with a closed block, at the last command answered.
StreamEnds ==
  /\ stream = <<>> => cur = 0 /\ Begun = Answered
  /\ stream # <<>> =>
       stream[Len(stream)].t \in {"end", "note"} /\ stream[Len(stream)].n = Answered
  /\ \A i \in DOMAIN stream : stream[i].n =< Answered

\* What the parser holds is the front part of the block of the last command begun.
Collecting ==
  /\ cur # 0 => cur = Begun
  /\ cur = 0 => resp = <<>>
  /\ \A i \in DOMAIN resp : resp[i] = [t |-> "data", n |-> cur, k |-> i]

\* Every command begun but the current one has been called back.
CalledBack ==
  /\ callback.cmd = IF cur = 0 THEN Begun ELSE Begun - 1
  /\ callback = NoCallback \/ callback.cmd > 0

ChannelInv ==
  /\ TypeOK
  /\ QueueNumbered
  /\ WireNumbered
  /\ StreamFollows
  /\ UnaskedFirst
  /\ StreamEnds
  /\ Collecting
  /\ CalledBack
  /\ AnswerMatchesCommand
=============================================================================
