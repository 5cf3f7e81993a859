------------------------------ MODULE SshChannel ------------------------------
(***************************************************************************)
(* The channels of an SSH-2 connection as QuTTY runs them: the connection  *)
(* layer of PuTTY (ssh/connection2.c), the main session channel            *)
(* (ssh/mainchan.c), channels for remotely forwarded ports                 *)
(* (ssh/portfwd.c), and what they become when their local side is gone:    *)
(* zombies (ssh/common.c).  The server is external: any server that keeps  *)
(* to the protocol and notices when the client does not.                   *)
(*                                                                         *)
(* The handlers run to completion, so each is an operator on a record p:   *)
(* the channel, the packets sent so far, and whether the channel was       *)
(* destroyed, the session aborted or an assertion failed on the way.       *)
(*                                                                         *)
(* Data is counted in units, and the packets try_send cuts at remmaxpkt    *)
(* are one DATA.  Left out: connection sharing, channels for X11 and the   *)
(* agent, a main channel that is itself a forwarding, global requests,     *)
(* known server bugs, "simple" mode (QuTTY's settings do not offer it) and *)
(* the throttling of the whole connection: BacklogWithinWindow shows that  *)
(* no channel asks for it.  Locally forwarded ports need sk_newlistener,   *)
(* which QtNet.cpp does not implement: only the server opens forwardings.  *)
(***************************************************************************)
EXTENDS Integers, Sequences, FiniteSets, SequencesExt

CONSTANTS
  WinSize,    \* OUR_V2_WINSIZE, in units of data
  MaxLocWin,  \* the window grows while below this (0x40000000)
  RemWin,     \* bound: the largest window the server gives
  MaxDown,    \* bound: units the server sends on a channel
  MaxUp,      \* bound: units written to a channel here
  MaxOpens,   \* bound: channels the server opens
  MaxAlive,   \* bound: channels it has when it opens one, that one included
  MaxQueue    \* bound: packets on their way when the server or the user adds one

ASSUME ChannelAssumption ==
  /\ {WinSize, RemWin} \subseteq Nat \ {0}
  /\ {MaxLocWin, MaxDown, MaxUp, MaxOpens, MaxAlive, MaxQueue} \subseteq Nat

VARIABLES
  chan,       \* s->channels, by localid
  srv,        \* the server's ends, by its own ids
  toServer,   \* packets on the way to the server
  toClient,   \* packets on the way to us
  callbacks,  \* top-level callbacks that are queued: "check", "abort"
  conn,       \* "up", "closed" by check_termination, "aborted"
  opens,      \* channels the server has opened
  fault       \* the assertion or protocol check that failed

vars == <<chan, srv, toServer, toClient, callbacks, conn, opens, fault>>

Ids == 0..MaxOpens
Closes == {"SENT_EOF", "SENT_CLOSE", "RCVD_EOF", "RCVD_CLOSE"}
Packet(type, id, arg) == [type |-> type, id |-> id, arg |-> arg]

\* struct ssh2_channel after ssh2_channel_init, with its Channel: sink is what that
\* holds of the server's data, localEof that its socket has ended, ready, got_pty,
\* eof_pending and eof_sent are mainchan's, wanted is s->want_user_input.
NewChannel(kind, remoteid, halfopen, remwindow) ==
  [kind |-> kind, remoteid |-> remoteid, halfopen |-> halfopen, closes |-> {},
   pending_eof |-> FALSE, outbuffer |-> 0, written |-> 0, remwindow |-> remwindow,
   locwindow |-> WinSize, locmaxwin |-> WinSize, remlocwin |-> WinSize,
   throttle_state |-> "UNTHROTTLED", chanreq |-> <<>>, sink |-> 0, localEof |-> FALSE,
   ready |-> FALSE, got_pty |-> FALSE, eof_pending |-> FALSE, eof_sent |-> FALSE,
   wanted |-> FALSE]
NoChannel == NewChannel("none", 0, FALSE, 0)
Used == {i \in Ids : chan[i].kind # "none"}

NoEnd == [st |-> "none", peer |-> 0, sndwin |-> 0, tosend |-> 0, rcvwin |-> 0, got |-> 0,
          asked |-> 0, started |-> FALSE, closes |-> {}]

\* The connection layer has started: mainchan_new has opened the main channel.
Init ==
  /\ chan = [i \in Ids |-> IF i = 0 THEN NewChannel("main", 0, TRUE, 0) ELSE NoChannel]
  /\ srv = [r \in Ids |-> NoEnd]
  /\ toServer = <<Packet("OPEN", 0, 0)>> /\ toClient = <<>>
  /\ callbacks = {} /\ conn = "up" /\ opens = 0 /\ fault = "none"

Live == conn = "up" /\ fault = "none"

-----------------------------------------------------------------------------
(* Sending, closing and window keeping of one channel.                     *)

P(c) == [c |-> c, out |-> <<>>, gone |-> FALSE, abort |-> FALSE, err |-> "none"]
Send(p, type, arg) == [p EXCEPT !.out = Append(@, Packet(type, p.c.remoteid, arg))]
Err(p, e) == [p EXCEPT !.err = IF @ = "none" THEN e ELSE @]
Done(p, flags) == flags \subseteq p.c.closes

\* what: the request, and the handler that waits for its reply unless it wants none.
ssh2_chanreq_init(p, what, n) ==
  IF Done(p, {"SENT_CLOSE"}) \/ Done(p, {"RCVD_CLOSE"}) THEN Err(p, "chanreq")
  ELSE [Send(p, "REQ", what) EXCEPT
          !.c.chanreq = IF what = "window-change" THEN @
                        ELSE Append(@, [what |-> what, n |-> n])]

ssh2_channel_destroy(p) ==
  IF p.c.chanreq # <<>> THEN Err(p, "destroy") ELSE [p EXCEPT !.gone = TRUE]

want_close(p) == p.c.kind = "zombie" \/ Done(p, {"SENT_EOF", "RCVD_EOF"})

\* Mutant: CLOSE is sent while replies are awaited.
ssh2_channel_check_close_early(p) ==
  LET q == IF want_close(p) /\ ~Done(p, {"SENT_CLOSE"})
           THEN [Send(p, "CLOSE", 0) EXCEPT !.c.closes = @ \cup {"SENT_EOF", "SENT_CLOSE"}]
           ELSE p
  IN IF p.c.halfopen THEN p
     ELSE IF Done(q, {"SENT_CLOSE", "RCVD_CLOSE"}) THEN ssh2_channel_destroy(q)
     ELSE q

ssh2_channel_check_close(p) ==
  LET closing == want_close(p) /\ p.c.chanreq = <<>> /\ ~Done(p, {"SENT_CLOSE"})
      q == IF closing THEN [Send(p, "CLOSE", 0) EXCEPT
                              !.c.closes = @ \cup {"SENT_EOF", "SENT_CLOSE"}]
           ELSE p
  IN IF p.c.halfopen THEN p
     ELSE IF Done(q, {"SENT_CLOSE", "RCVD_CLOSE"}) THEN ssh2_channel_destroy(q)
     ELSE q

\* Mutant: EOF overtakes what the window holds back.
ssh2_channel_try_eof_at_once(p) ==
  IF p.c.halfopen THEN p
  ELSE ssh2_channel_check_close(
         [Send(p, "EOF", p.c.written) EXCEPT !.c.pending_eof = FALSE,
                                             !.c.closes = @ \cup {"SENT_EOF"}])

\* The packet carries what was written before it, for the server to compare.
ssh2_channel_try_eof(p) ==
  IF p.c.halfopen \/ p.c.outbuffer > 0 THEN p
  ELSE ssh2_channel_check_close(
         [Send(p, "EOF", p.c.written) EXCEPT !.c.pending_eof = FALSE,
                                             !.c.closes = @ \cup {"SENT_EOF"}])

ssh2_try_send(p) ==
  LET n == IF p.c.halfopen THEN 0
           ELSE IF p.c.outbuffer < p.c.remwindow THEN p.c.outbuffer ELSE p.c.remwindow
      q == IF n = 0 THEN p
           ELSE [Send(p, "DATA", n) EXCEPT !.c.outbuffer = @ - n, !.c.remwindow = @ - n]
  IN IF q.c.outbuffer = 0 /\ q.c.pending_eof THEN ssh2_channel_try_eof(q) ELSE q

\* For a forwarding the socket is frozen, from which nothing comes after EOF anyway.
ssh2_channel_check_throttle(p) ==
  [p EXCEPT !.c.wanted = p.c.kind = "main" /\ ~p.c.pending_eof /\ ~Done(p, {"SENT_EOF"})]

ssh2_try_send_and_unthrottle(p) ==
  LET q == ssh2_try_send(p)
  IN IF Done(p, {"SENT_EOF"}) THEN p
     ELSE IF q.c.outbuffer = 0 THEN ssh2_channel_check_throttle(q) ELSE q

ssh2channel_write(p, n) ==
  IF Done(p, {"SENT_EOF"}) THEN Err(p, "write")
  ELSE ssh2_try_send([p EXCEPT !.c.outbuffer = @ + n, !.c.written = @ + n])

ssh2channel_write_eof(p) ==
  IF Done(p, {"SENT_EOF"}) THEN p
  ELSE ssh2_channel_try_eof([p EXCEPT !.c.pending_eof = TRUE])

\* Mutant: the close waits for the next packet.
ssh2channel_initiate_close_lazily(p) ==
  [p EXCEPT !.c.kind = "zombie", !.c.sink = 0, !.c.pending_eof = FALSE]

ssh2channel_initiate_close(p) ==
  ssh2_channel_check_close([p EXCEPT !.c.kind = "zombie", !.c.sink = 0, !.c.pending_eof = FALSE])

ssh2_set_window(p, newwin) ==
  LET grow == newwin - p.c.locwindow
      asked == IF newwin = p.c.locmaxwin
               THEN [ssh2_chanreq_init(p, "winadj", grow) EXCEPT
                       !.c.throttle_state = IF @ = "UNTHROTTLED" THEN @ ELSE "UNTHROTTLING"]
               ELSE [p EXCEPT !.c.remlocwin = newwin, !.c.throttle_state = "THROTTLED"]
  IN IF Done(p, {"RCVD_EOF"}) \/ Done(p, {"SENT_CLOSE"}) \/ newwin \div 2 < p.c.locwindow THEN p
     ELSE [Send(asked, "ADJUST", grow) EXCEPT !.c.locwindow = newwin]

ssh2_handle_winadj_response(p, n) ==
  [p EXCEPT !.c.remlocwin = @ + n,
            !.c.throttle_state = IF @ = "UNTHROTTLING" THEN "UNTHROTTLED" ELSE @]

\* Mutant: the window is opened wide although data is still held.
ssh2channel_unthrottle_wide(p) == ssh2_set_window(p, p.c.locmaxwin)

ssh2channel_unthrottle(p) ==
  IF p.c.sink < p.c.locmaxwin THEN ssh2_set_window(p, p.c.locmaxwin - p.c.sink) ELSE p

-----------------------------------------------------------------------------
(* The main channel.                                                       *)

\* With a pty or without, as configured.  X11, agent and environment requests are
\* answered like the one for the pty and are left out.
mainchan_open_confirmation(p, pty) ==
  ssh2_chanreq_init(IF pty THEN ssh2_chanreq_init(p, "pty", 0) ELSE p, "cmd", 0)

mainchan_eof(p) ==
  IF ~p.c.ready THEN [p EXCEPT !.c.eof_pending = TRUE]
  ELSE IF p.c.eof_sent THEN p
  ELSE [ssh2channel_write_eof(p) EXCEPT !.c.eof_sent = TRUE]

mainchan_ready(p) ==
  LET q == [p EXCEPT !.c.ready = TRUE, !.c.wanted = TRUE]
  IN IF q.c.eof_pending THEN mainchan_eof([q EXCEPT !.c.eof_pending = FALSE]) ELSE q

\* fallback: a second command is configured.
mainchan_request_response(p, what, success, fallback) ==
  CASE what = "pty" -> [p EXCEPT !.c.got_pty = success]
    [] what \in {"cmd", "fallback"} /\ success -> mainchan_ready(p)
    [] what = "cmd" /\ ~success /\ fallback -> ssh2_chanreq_init(p, "fallback", 0)
    [] OTHER -> [p EXCEPT !.abort = TRUE]

\* qt_eof always wants the outgoing side closed too.
mainchan_send_eof(p) ==
  IF p.c.eof_sent THEN p
  ELSE [ssh2channel_write_eof(p) EXCEPT !.c.eof_sent = TRUE, !.c.wanted = FALSE]

\* QtNet's sk_write_eof does nothing, and neither does a zombie.
chan_send_eof(p) == IF p.c.kind = "main" THEN mainchan_send_eof(p) ELSE p

\* The backlog after chan_send: the terminal takes everything unless the user is
\* selecting text, and keeps it until DragEnds if it has kept something already; a
\* zombie drops everything, a socket keeps it until SocketWrites.
chan_send(p, n, dragging) ==
  [p EXCEPT !.c.sink = IF \/ p.c.kind = "zombie"
                          \/ p.c.kind = "main" /\ p.c.sink = 0 /\ ~dragging
                       THEN 0 ELSE @ + n]

-----------------------------------------------------------------------------
(* Packets from the server: ssh2_connection_filter_queue.                  *)

GotConfirmation(p, remoteid, remwindow, pty) ==
  LET q == [p EXCEPT !.c.remoteid = remoteid, !.c.halfopen = FALSE, !.c.remwindow = remwindow]
      r == ssh2_channel_check_close(mainchan_open_confirmation(q, pty))
  IN IF r.c.pending_eof THEN ssh2_channel_try_eof(r) ELSE r

GotData(p, n, dragging) ==
  LET q == chan_send([p EXCEPT !.c.locwindow = @ - n, !.c.remlocwin = @ - n], n, dragging)
      r == [q EXCEPT !.c.locmaxwin = IF /\ q.c.remlocwin <= 0 /\ @ < MaxLocWin
                                        /\ q.c.throttle_state = "UNTHROTTLED"
                                     THEN @ + WinSize ELSE @]
  IN ssh2channel_unthrottle(r)

GotAdjust(p, n) ==
  IF Done(p, {"SENT_EOF"}) THEN p
  ELSE ssh2_try_send_and_unthrottle([p EXCEPT !.c.remwindow = @ + n])

\* Mutant: the reply is sent after CLOSE too.
GotRequestAlways(p) == Send(p, "RESP", FALSE)

\* No channel accepts the request ("exit-status" wants no reply and changes no state).
GotRequest(p) == IF Done(p, {"SENT_CLOSE"}) THEN p ELSE Send(p, "RESP", FALSE)

GotResponse(p, success, fallback) ==
  LET ocr == Head(p.c.chanreq)
      q == IF ocr.what = "winadj" THEN ssh2_handle_winadj_response(p, ocr.n)
           ELSE mainchan_request_response(p, ocr.what, success, fallback)
  IN IF p.c.chanreq = <<>> THEN Err(p, "no outstanding request")
     ELSE ssh2_channel_check_close([q EXCEPT !.c.chanreq = Tail(@)])

GotEof(p) ==
  IF Done(p, {"RCVD_EOF"}) THEN p
  ELSE ssh2_channel_check_close(chan_send_eof([p EXCEPT !.c.closes = @ \cup {"RCVD_EOF"}]))

\* Every outstanding request is told that it failed, a fallback that this starts too.
Unanswered(p, fallback) ==
  LET whats == {p.c.chanreq[i].what : i \in DOMAIN p.c.chanreq}
      q == IF "cmd" \in whats /\ fallback THEN ssh2_chanreq_init(p, "fallback", 0) ELSE p
  IN [q EXCEPT !.c.chanreq = <<>>, !.abort = @ \/ whats \cap {"cmd", "fallback"} # {}]

GotClose(p, fallback) ==
  LET q == IF Done(p, {"RCVD_EOF"}) THEN p
           ELSE chan_send_eof([p EXCEPT !.c.closes = @ \cup {"RCVD_EOF"}])
      r == Unanswered(q, fallback)
      s == IF Done(r, {"SENT_EOF"}) THEN r
           ELSE ssh2_channel_check_throttle(ssh2channel_write_eof([r EXCEPT !.c.outbuffer = 0]))
  IN ssh2_channel_check_close([s EXCEPT !.c.closes = @ \cup {"RCVD_CLOSE"}])

\* What a handler has done to channel i, or the assertion that ended the program.
Finish(i, p) ==
  IF p.err # "none" THEN fault' = p.err /\ UNCHANGED <<chan, toServer, callbacks>>
  ELSE /\ chan' = [chan EXCEPT ![i] = IF p.gone THEN NoChannel ELSE p.c]
       /\ toServer' = toServer \o p.out
       /\ callbacks' = callbacks \cup (IF p.gone THEN {"check"} ELSE {})
                                 \cup (IF p.abort THEN {"abort"} ELSE {})
       /\ UNCHANGED fault

\* The server opens a channel: portfwdmgr_connect may fail.
GotOpen(pkt) ==
  LET i == Min(Ids \ Used)
      c == NewChannel("fwd", pkt.id, FALSE, pkt.arg)
  IN /\ \/ /\ chan' = [chan EXCEPT ![i] = c]
           /\ toServer' = Append(toServer, Packet("CONFIRM", pkt.id, i))
        \/ /\ UNCHANGED chan
           /\ toServer' = Append(toServer, Packet("OPENFAIL", pkt.id, 0))
     /\ UNCHANGED <<callbacks, fault>>

\* Only the main channel is opened from here: mainchan_open_failure.
GotOpenFailure(i) ==
  /\ chan' = [chan EXCEPT ![i] = NoChannel] /\ callbacks' = callbacks \cup {"abort"}
  /\ UNCHANGED <<toServer, fault>>

\* The channel is looked up, and must be half-open for these two packets only.
Misplaced(pkt) == pkt.id \notin Used
                  \/ chan[pkt.id].halfopen # (pkt.type \in {"CONFIRM", "OPENFAIL"})

filter_queue ==
  /\ Live /\ toClient # <<>>
  /\ LET pkt == Head(toClient)
         p == P(chan[pkt.id])
     IN CASE pkt.type = "OPEN" -> GotOpen(pkt)
          [] pkt.type # "OPEN" /\ Misplaced(pkt) ->
               fault' = "proto_error" /\ UNCHANGED <<chan, toServer, callbacks>>
          [] pkt.type = "OPENFAIL" /\ ~Misplaced(pkt) -> GotOpenFailure(pkt.id)
          [] OTHER -> \E alt \in BOOLEAN : Finish(pkt.id,
               CASE pkt.type = "CONFIRM" -> GotConfirmation(p, pkt.arg[1], pkt.arg[2], alt)
                 [] pkt.type = "DATA" -> GotData(p, pkt.arg, alt)
                 [] pkt.type = "ADJUST" -> GotAdjust(p, pkt.arg)
                 [] pkt.type = "REQ" -> GotRequest(p)
                 [] pkt.type = "RESP" -> GotResponse(p, pkt.arg, alt)
                 [] pkt.type = "EOF" -> GotEof(p)
                 [] pkt.type = "CLOSE" -> GotClose(p, alt))
  /\ toClient' = Tail(toClient)
  /\ UNCHANGED <<srv, conn, opens>>

-----------------------------------------------------------------------------
(* The local side.                                                         *)

Local(i, p) == Finish(i, p) /\ UNCHANGED <<srv, toClient, conn, opens>>

\* The line discipline asks ssh_sendok first; assertion "write" is then "typed".
UserTypes(i) ==
  LET p == ssh2channel_write(P(chan[i]), 1) IN
  /\ Live /\ chan[i].kind = "main" /\ chan[i].wanted /\ chan[i].written < MaxUp
  /\ Len(toServer) < MaxQueue
  /\ Local(i, IF p.err = "none" THEN p ELSE [p EXCEPT !.err = "typed"])

\* Control-D with local line editing: SS_EOF.
UserEof(i) ==
  /\ Live /\ chan[i].kind = "main" /\ chan[i].wanted
  /\ Local(i, mainchan_eof(P(chan[i])))

\* The window is resized while a pty is there or asked for.
UserResizes(i) ==
  LET p == ssh2_chanreq_init(P(chan[i]), "window-change", 0) IN
  /\ Live /\ chan[i].kind = "main"
  /\ Len(toServer) < MaxQueue
  /\ chan[i].got_pty \/ \E k \in DOMAIN chan[i].chanreq : chan[i].chanreq[k].what = "pty"
  /\ Local(i, IF p.err = "none" THEN p ELSE [p EXCEPT !.err = "resized"])

\* Mutant: what was held is shown, and nobody is told.
DragEndsSilently(i) ==
  /\ Live /\ chan[i].kind = "main" /\ chan[i].sink > 0
  /\ Local(i, P([chan[i] EXCEPT !.sink = 0]))

\* Selecting text holds the terminal; when it ends, term_out takes all that waits and
\* reports it with ssh2_stdout_unthrottle.
DragEnds(i) ==
  /\ Live /\ chan[i].kind = "main" /\ chan[i].sink > 0
  /\ Local(i, ssh2channel_unthrottle(P([chan[i] EXCEPT !.sink = 0])))

\* pfd_receive, pfd_closing; the socket sends what it holds and tells nobody.
SocketReads(i) ==
  /\ Live /\ chan[i].kind = "fwd" /\ ~chan[i].localEof /\ chan[i].written < MaxUp
  /\ Len(toServer) < MaxQueue
  /\ Local(i, ssh2channel_write(P(chan[i]), 1))

SocketEnds(i) ==
  /\ Live /\ chan[i].kind = "fwd" /\ ~chan[i].localEof
  /\ \/ Local(i, ssh2channel_write_eof(P([chan[i] EXCEPT !.localEof = TRUE])))
     \/ Local(i, ssh2channel_initiate_close(P([chan[i] EXCEPT !.localEof = TRUE])))

SocketWrites(i) ==
  /\ Live /\ chan[i].kind = "fwd" /\ chan[i].sink > 0
  /\ Local(i, P([chan[i] EXCEPT !.sink = 0]))

ssh2_check_termination ==
  /\ Live /\ "check" \in callbacks /\ callbacks' = callbacks \ {"check"}
  /\ conn' = IF Used = {} THEN "closed" ELSE conn
  /\ UNCHANGED <<chan, srv, toServer, toClient, opens, fault>>

ssh_deferred_abort ==
  /\ Live /\ "abort" \in callbacks /\ callbacks' = callbacks \ {"abort"}
  /\ conn' = "aborted"
  /\ UNCHANGED <<chan, srv, toServer, toClient, opens, fault>>

-----------------------------------------------------------------------------
(* The server (external).                                                  *)

SrvChange(r, e, out) ==
  /\ srv' = [srv EXCEPT ![r] = e] /\ toClient' = toClient \o out
  /\ UNCHANGED <<chan, callbacks, conn, fault>>

SrvUsed == {r \in Ids : srv[r].st # "none"}
Opened(peer, rcvwin) == [NoEnd EXCEPT !.st = "open", !.peer = peer, !.sndwin = WinSize,
                                      !.tosend = MaxDown, !.rcvwin = rcvwin]
Sent(e, flags) == flags \subseteq e.closes

\* It may send on its end e.
MaySend(r) == Live /\ Len(toClient) < MaxQueue /\ srv[r].st = "open" /\ ~Sent(srv[r], {"SENT_CLOSE"})

\* It takes offence at packets that RFC 4254 does not allow.
Illegal(pkt) ==
  LET e == srv[pkt.id] IN
  IF pkt.type \in {"CONFIRM", "OPENFAIL"} THEN e.st # "opening"
  ELSE /\ pkt.type # "OPEN"
       /\ \/ e.st # "open" \/ Sent(e, {"RCVD_CLOSE"})
          \/ pkt.type = "DATA" /\ (Sent(e, {"RCVD_EOF"}) \/ pkt.arg > e.rcvwin)
          \/ pkt.type = "EOF" /\ Sent(e, {"RCVD_EOF"})
          \/ pkt.type = "RESP" /\ e.asked # 1

\* An EOF that comes before all that was written, though the server did not close.
Truncated(pkt) ==
  pkt.type = "EOF" /\ ~Sent(srv[pkt.id], {"SENT_CLOSE"}) /\ srv[pkt.id].got # pkt.arg

SrvAnswerOpen(pkt) ==
  LET r == Min(Ids \ SrvUsed) IN
  \/ \E w \in 0..RemWin :
       SrvChange(r, Opened(pkt.id, w), <<Packet("CONFIRM", pkt.id, <<r, w>>)>>)
  \/ SrvChange(r, NoEnd, <<Packet("OPENFAIL", pkt.id, 0)>>)

\* It starts the command, or not.
SrvAnswerRequest(r, what) ==
  IF what = "window-change" \/ Sent(srv[r], {"SENT_CLOSE"}) THEN SrvChange(r, srv[r], <<>>)
  ELSE \E ok \in {FALSE, what # "winadj"} :
         SrvChange(r, [srv[r] EXCEPT !.started = @ \/ (ok /\ what \in {"cmd", "fallback"})],
                   <<Packet("RESP", srv[r].peer, ok)>>)

SrvClosed(e) == IF Sent(e, {"SENT_CLOSE", "RCVD_CLOSE"}) THEN NoEnd ELSE e

SrvTakes ==
  /\ Live /\ toServer # <<>> /\ toServer' = Tail(toServer)
  /\ LET pkt == Head(toServer)
         e == srv[pkt.id]
     IN IF Illegal(pkt) \/ Truncated(pkt)
        THEN /\ fault' = IF Illegal(pkt) THEN "illegal" ELSE "truncated"
             /\ UNCHANGED <<chan, srv, toClient, callbacks, conn>>
        ELSE CASE pkt.type = "OPEN" -> SrvAnswerOpen(pkt)
               [] pkt.type = "REQ" -> SrvAnswerRequest(pkt.id, pkt.arg)
               [] OTHER -> SrvChange(pkt.id,
                    CASE pkt.type = "CONFIRM" ->
                           [Opened(pkt.arg, e.rcvwin) EXCEPT !.started = TRUE]
                      [] pkt.type = "OPENFAIL" -> NoEnd
                      [] pkt.type = "DATA" -> [e EXCEPT !.rcvwin = @ - pkt.arg, !.got = @ + pkt.arg]
                      [] pkt.type = "ADJUST" -> [e EXCEPT !.sndwin = @ + pkt.arg]
                      [] pkt.type = "RESP" -> [e EXCEPT !.asked = 2]
                      [] pkt.type = "EOF" -> [e EXCEPT !.closes = @ \cup {"RCVD_EOF"}]
                      [] pkt.type = "CLOSE" ->
                           SrvClosed([e EXCEPT !.closes = @ \cup {"RCVD_EOF", "RCVD_CLOSE"}]),
                    <<>>)
  /\ UNCHANGED opens

SrvSays(r, e, type, arg) ==
  SrvChange(r, e, <<Packet(type, srv[r].peer, arg)>>) /\ UNCHANGED <<toServer, opens>>

SrvData(r) ==
  /\ MaySend(r) /\ srv[r].started /\ ~Sent(srv[r], {"SENT_EOF"})
  /\ \E n \in 1..srv[r].sndwin :
       /\ n <= srv[r].tosend
       /\ SrvSays(r, [srv[r] EXCEPT !.sndwin = @ - n, !.tosend = @ - n], "DATA", n)

SrvAdjust(r) ==
  /\ MaySend(r) /\ srv[r].rcvwin < RemWin /\ ~Sent(srv[r], {"RCVD_EOF"})
  /\ SrvSays(r, [srv[r] EXCEPT !.rcvwin = RemWin], "ADJUST", RemWin - srv[r].rcvwin)

\* A keepalive that wants a reply: asked is 1 until it comes; once on a channel.
SrvAsks(r) ==
  /\ MaySend(r) /\ srv[r].started /\ srv[r].asked = 0
  /\ SrvSays(r, [srv[r] EXCEPT !.asked = 1], "REQ", "keepalive")

SrvEof(r) ==
  /\ MaySend(r) /\ srv[r].started /\ ~Sent(srv[r], {"SENT_EOF"}) /\ srv[r].tosend = 0
  /\ SrvSays(r, [srv[r] EXCEPT !.closes = @ \cup {"SENT_EOF"}], "EOF", 0)

SrvCloses(r) ==
  /\ Live /\ srv[r].st = "open" /\ ~Sent(srv[r], {"SENT_CLOSE"})
  /\ SrvSays(r, SrvClosed([srv[r] EXCEPT !.closes = @ \cup {"SENT_EOF", "SENT_CLOSE"}]),
             "CLOSE", 0)

SrvOpens ==
  /\ Live /\ Len(toClient) < MaxQueue /\ opens < MaxOpens /\ opens' = opens + 1
  /\ Cardinality(SrvUsed) < MaxAlive /\ \A k \in DOMAIN toServer : toServer[k].type # "OPEN"
  /\ LET r == Min(Ids \ SrvUsed) IN
       \E w \in 0..RemWin : SrvChange(r, [NoEnd EXCEPT !.st = "opening", !.rcvwin = w],
                                      <<Packet("OPEN", r, w)>>)
  /\ UNCHANGED toServer

-----------------------------------------------------------------------------
Client == filter_queue \/ ssh2_check_termination \/ ssh_deferred_abort

Next ==
  \/ Client \/ SrvTakes \/ SrvOpens
  \/ \E i \in Ids :
       \/ UserTypes(i) \/ UserEof(i) \/ UserResizes(i) \/ DragEnds(i)
       \/ SocketReads(i) \/ SocketEnds(i) \/ SocketWrites(i)
       \/ SrvData(i) \/ SrvAdjust(i) \/ SrvAsks(i) \/ SrvEof(i) \/ SrvCloses(i)

\* Packets and callbacks are processed, a server sends what it may and answers CLOSE
\* with CLOSE, and no selection with the mouse lasts for ever.
\* filter_queue and DragEnds are enabled exactly when their guards hold, and it is with
\* the guards that weak fairness is spelled out for them.
Fairness ==
  /\ []<>~(Live /\ toClient # <<>>) \/ []<><<filter_queue>>_vars
  /\ \A i \in Ids : \/ []<>~(Live /\ chan[i].kind = "main" /\ chan[i].sink > 0)
                    \/ []<><<DragEnds(i)>>_vars
  /\ WF_vars(ssh2_check_termination) /\ WF_vars(ssh_deferred_abort) /\ WF_vars(SrvTakes)
  /\ \A r \in Ids : /\ WF_vars(SrvData(r))
                    /\ WF_vars(Sent(srv[r], {"RCVD_CLOSE"}) /\ SrvCloses(r))

Spec == Init /\ [][Next]_vars /\ Fairness

-----------------------------------------------------------------------------
\* The sum of a sequence of numbers, as a recursive function.
Total(s) ==
  LET sum[k \in 0..Len(s)] == IF k = 0 THEN 0 ELSE sum[k - 1] + s[k] IN sum[Len(s)]

\* Units of packets of a type on their way to end i.
InFlight(queue, type, i) ==
  Total([k \in 1..Len(queue) |->
           IF queue[k].type = type /\ queue[k].id = i THEN queue[k].arg ELSE 0])

\* Packets about a channel that is open on both sides.
Linked(i) == /\ i \in Used /\ ~chan[i].halfopen
             /\ srv[chan[i].remoteid].st = "open" /\ srv[chan[i].remoteid].peer = i

TypeOK ==
  /\ \A i \in Ids :
       /\ chan[i].kind \in {"none", "main", "fwd", "zombie"} /\ chan[i].closes \subseteq Closes
       /\ chan[i].remoteid \in Ids
       /\ {chan[i].outbuffer, chan[i].remwindow, chan[i].sink, chan[i].locwindow} \subseteq Nat
       /\ chan[i].throttle_state \in {"UNTHROTTLED", "UNTHROTTLING", "THROTTLED"}
       /\ srv[i].st \in {"none", "opening", "open"} /\ srv[i].sndwin \in Nat
  /\ callbacks \subseteq {"check", "abort"} /\ conn \in {"up", "closed", "aborted"}

\* With a server that keeps to the protocol, no packet finds its channel missing, half
\* open or without an outstanding request, although ids are used again, and the
\* assertions of connection2.c hold.  Two cases are left out: a resize after CLOSE
\* was sent and typing after Control-D was (see the README).
NoProtocolError ==
  TypeOK /\ fault \notin {"proto_error", "no outstanding request", "chanreq", "destroy", "write"}

\* The server gets nothing after CLOSE, no data after EOF or beyond its window, and no
\* reply it did not ask for, whatever crosses on the network (connection2.c:609).
ServerNeverSurprised == fault # "illegal"

\* An EOF we send follows all the data that was written to the channel, also when the
\* window was shut as EOF was asked for, unless the server itself closes.
EofAfterAllData == fault # "truncated"

\* What the local side holds and what the server may still send fit in the window, the
\* client's idea of both windows is the server's plus what is on its way, and the
\* connection as a whole therefore need never be throttled (connection2.c:587).
BacklogWithinWindow ==
  Live => \A i \in Ids :
    LET c == chan[i]
        e == srv[c.remoteid] IN
    Linked(i) =>
      /\ c.sink + c.locwindow <= c.locmaxwin
      /\ "SENT_CLOSE" \notin e.closes =>
           c.locwindow = e.sndwin + InFlight(toServer, "ADJUST", c.remoteid)
                         + InFlight(toClient, "DATA", i)
      /\ "SENT_EOF" \notin c.closes =>
           e.rcvwin = c.remwindow + InFlight(toServer, "DATA", c.remoteid)
                      + InFlight(toClient, "ADJUST", i)

\* A terminal that was held takes output again: the server gets to send all it has on
\* the main channel.
MainOutputArrives ==
  \A r \in Ids :
    (srv[r].started /\ srv[r].tosend > 0 /\ chan[srv[r].peer].kind = "main")
      ~> (srv[r].tosend = 0 \/ srv[r].closes # {} \/ ~Live)

\* A channel that is closing, or that has lost its local side, goes away, and with
\* the last one the connection.
ClosingCompletes ==
  /\ \A i \in Ids : (chan[i].kind = "zombie" \/ "SENT_CLOSE" \in chan[i].closes)
                    ~> (chan[i].kind = "none" \/ ~Live)
  /\ (Used = {}) ~> (Used # {} \/ ~Live)
=============================================================================
