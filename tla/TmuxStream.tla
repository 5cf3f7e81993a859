----------------------------- MODULE TmuxStream -----------------------------
(***************************************************************************)
(* How bytes become lines: TmuxGateway::fromBackend (tmux/TmuxGateway.cpp) *)
(* under GuiTerminalWindow::from_backend, for every way the network can    *)
(* cut the server's bytes into reads.                                      *)
(*                                                                         *)
(* A byte is a letter, the end of a line, or "x", which makes the line it  *)
(* is in an %exit line.  Bytes carry their position, so that two of them   *)
(* are never confused.                                                     *)
(***************************************************************************)
EXTENDS Integers, Sequences, FiniteSetsExt, SequencesExt

CONSTANTS MaxBytes   \* bound: bytes the server writes

ASSUME StreamAssumption == MaxBytes \in Nat

Letters == {"a", "\n", "x"}
Bytes == [c : Letters, at : Nat]

VARIABLES
  input,    \* what the server writes
  pos,      \* how much of it has been read
  buffer,   \* the gateway's bufchain of an incomplete line
  parsed,   \* the lines given to parseCommand
  mode,     \* _tmuxMode of the gateway's window
  echoed,   \* bytes fromBackend itself gave the terminal (its debugging term_data)
  shown     \* bytes from_backend gave the terminal after control mode

vars == <<input, pos, buffer, parsed, mode, echoed, shown>>

\* A text of n bytes with their positions.
Numbered(s) == [i \in DOMAIN s |-> [c |-> s[i], at |-> i]]

Init ==
  /\ input \in {Numbered(s) : s \in UNION {[1..n -> Letters] : n \in 0..MaxBytes}}
  /\ pos = 0 /\ buffer = <<>> /\ parsed = <<>>
  /\ mode = "GATEWAY" /\ echoed = <<>> /\ shown = <<>>

Newlines(s) == {i \in DOMAIN s : s[i].c = "\n"}
IsExit(line) == \E i \in DOMAIN line : line[i].c = "x"

-----------------------------------------------------------------------------
\* Before the scan: nothing is parsed.
ScanStart == [lines |-> <<>>, respLen |-> 0, exited |-> FALSE, rem |-> 0]

\* Mutant: the scan does not move on to the start of the next line.
ScanFromStart(buf) ==
  LET scan[i \in 0..Len(buf)] ==
        IF i = 0 THEN ScanStart
        ELSE IF scan[i - 1].exited \/ buf[i].c # "\n" THEN scan[i - 1]
        ELSE LET line == SubSeq(buf, 1, i) IN
             [lines |-> Append(scan[i - 1].lines, line), respLen |-> i,
              exited |-> IsExit(line), rem |-> IF IsExit(line) THEN Len(buf) - i ELSE 0]
  IN scan[Len(buf)]

\* Mutant: the scan goes on after an %exit line.
ScanPastExit(buf) ==
  LET scan[i \in 0..Len(buf)] ==
        IF i = 0 THEN ScanStart
        ELSE IF buf[i].c # "\n" THEN scan[i - 1]
        ELSE LET line == SubSeq(buf, scan[i - 1].respLen + 1, i) IN
             [lines |-> Append(scan[i - 1].lines, line), respLen |-> i,
              exited |-> scan[i - 1].exited \/ IsExit(line), rem |-> Len(buf) - i]
  IN scan[Len(buf)]

\* The scan of what follows the first line, after i bytes of it: every further line
\* is parsed until one of them is %exit.  respLen is where the next line starts; rem,
\* which the code calls rem_len, is what the caller is told is left.
Scan(buf) ==
  LET scan[i \in 0..Len(buf)] ==
        IF i = 0 THEN ScanStart
        ELSE IF scan[i - 1].exited \/ buf[i].c # "\n" THEN scan[i - 1]
        ELSE LET line == SubSeq(buf, scan[i - 1].respLen + 1, i) IN
             [lines |-> Append(scan[i - 1].lines, line), respLen |-> i,
              exited |-> IsExit(line), rem |-> IF IsExit(line) THEN Len(buf) - i ELSE 0]
  IN scan[Len(buf)]

\* What the scan leaves for the next read: the bytes after the last line.
Pending(rest, scan) ==
  IF scan.exited THEN <<>> ELSE SubSeq(rest, scan.respLen + 1, Len(rest))

\* fromBackend: without an end of line the bytes are kept; otherwise the first
\* line is completed from the buffer, the others are scanned, and the last,
\* incomplete one is kept.  rc is the value returned.
FromBackend(data) ==
  LET respLen == Min(Newlines(data))
      first == buffer \o SubSeq(data, 1, respLen)
      rest == SubSeq(data, respLen + 1, Len(data))
      scan == Scan(rest)
  IN
  IF Newlines(data) = {}
  THEN [lines |-> <<>>, buffer |-> buffer \o data, exited |-> FALSE, rc |-> Len(data)]
  ELSE IF IsExit(first)
  THEN [lines |-> <<first>>, buffer |-> <<>>, exited |-> TRUE, rc |-> Len(rest)]
  ELSE [lines |-> <<first>> \o scan.lines,
        buffer |-> Pending(rest, scan),
        exited |-> scan.exited,
        rc |-> scan.rem]

\* A read of n bytes.  In control mode the gateway gets them first; if it left
\* control mode and reports bytes left, the detach is completed and the terminal
\* gets the data from offset rc on.  Otherwise it gets all of it; while control
\* mode lasts that only repeats what fromBackend has echoed.
Read(n) ==
  LET data == SubSeq(input, pos + 1, pos + n)
      r == FromBackend(data)
  IN
  /\ n > 0 /\ pos + n =< Len(input)
  /\ pos' = pos + n
  /\ UNCHANGED input
  /\ echoed' = IF mode = "GATEWAY" THEN echoed \o data ELSE echoed
  /\ IF mode = "GATEWAY"
     THEN /\ parsed' = parsed \o r.lines
          /\ buffer' = r.buffer
          /\ IF ~r.exited
             THEN UNCHANGED <<mode, shown>>
             ELSE IF r.rc > 0 /\ r.rc < n
             THEN mode' = "NONE" /\ shown' = SubSeq(data, r.rc + 1, n)
             ELSE mode' = "DETACH_INIT" /\ shown' = data
     ELSE shown' = shown \o data /\ UNCHANGED <<parsed, buffer, mode>>

Next == \E n \in 1..MaxBytes : Read(n)

Spec == Init /\ [][Next]_vars

-----------------------------------------------------------------------------
\* The terminal is shown the end of what was read, from wherever it began.
TypeOK ==
  /\ input \in Seq(Bytes) /\ pos \in 0..Len(input)
  /\ buffer \in Seq(Bytes) /\ echoed \in Seq(Bytes) /\ shown \in Seq(Bytes)
  /\ parsed \in Seq(Seq(Bytes))
  /\ mode \in {"GATEWAY", "DETACH_INIT", "NONE"}
  /\ Newlines(buffer) = {}
  /\ Len(echoed) =< pos /\ echoed = SubSeq(input, 1, Len(echoed))
  /\ Len(shown) =< pos /\ shown = SubSeq(input, pos - Len(shown) + 1, pos)

ParsedBytes == FlattenSeq(parsed)

\* However the bytes are cut into reads, the lines parsed are the lines the
\* server wrote: together with the buffer they are what was read, and each of
\* them ends with its only end of line.
LinesAreWhole ==
  /\ TypeOK
  /\ \A i \in DOMAIN parsed : Newlines(parsed[i]) = {Len(parsed[i])}
  /\ mode = "GATEWAY" => ParsedBytes \o buffer = SubSeq(input, 1, pos)

\* %exit is the last line parsed, in whatever read it came.
ExitIsLast ==
  \A i \in DOMAIN parsed : IsExit(parsed[i]) <=> i = Len(parsed) /\ mode # "GATEWAY"

\* What makes these inductive: while control mode lasts all that was read is echoed
\* and nothing else is shown.
StreamInv ==
  /\ LinesAreWhole /\ ExitIsLast
  /\ mode = "GATEWAY" => Len(echoed) = pos /\ shown = <<>>
=============================================================================
