----------------------------- MODULE StdinFilter -----------------------------
(***************************************************************************)
(* The filter leonard-mcp puts between its standard input and the MCP SDK, *)
(* whose run loop ends at the first line that is not JSON-RPC.  The input  *)
(* arrives in reads of any size; the SDK takes what passes in reads of its *)
(* own.  A byte is a bracket, a space or a newline; the JSON-RPC objects   *)
(* are the lines of one opening and some closing braces.                   *)
(***************************************************************************)
EXTENDS Naturals, Sequences, SequencesExt

CONSTANTS
  Bytes,     \* what a stream consists of
  Streams,   \* what may arrive at standard input
  MaxLine,   \* maxLineBytes
  MaxRead    \* readChunk, the most that one read returns

ASSUME StdinFilterAssumption ==
  /\ Streams \subseteq Seq(Bytes)
  /\ MaxLine \in Nat
  /\ MaxRead \in Nat \ {0}

VARIABLES
  stream,     \* what arrives in the end
  ending,     \* and then: "eof", or "error" when reading fails
  read,       \* bytes of it read so far
  buf,        \* lineReader: bytes not yet made a line of
  skipping,   \* lineReader: in a line over the cap
  eof,        \* lineReader: the end was seen
  out,        \* filteringReader: the rest of a line that passed
  sent,       \* what the SDK has been given
  over,       \* what Read returned last: an error, or "no" error
  seen        \* history: the verdicts on the lines, see Judge

reader == <<read, buf, skipping, eof>>
streamVars == <<stream, ending, reader, out, sent, over, seen>>

Newline == "nl"
Verdicts == {"blank", "passed", "invalid request", "parse error", "oversize"}

TypeOK ==
  /\ stream \in Streams /\ ending \in {"eof", "error"}
  /\ read \in 0 .. Len(stream)
  /\ buf \in Seq(Bytes) /\ skipping \in BOOLEAN /\ eof \in BOOLEAN
  /\ out \in Seq(Bytes \cup {Newline}) /\ sent \in Seq(Bytes \cup {Newline})
  /\ over \in {"no", "eof", "error"}
  /\ seen \in Seq([verdict : Verdicts, upTo : Nat, outTo : Nat])

FilterInit ==
  /\ stream \in Streams /\ ending \in {"eof", "error"}
  /\ read = 0 /\ buf = <<>> /\ skipping = FALSE /\ eof = FALSE
  /\ out = <<>> /\ sent = <<>> /\ over = "no" /\ seen = <<>>

-----------------------------------------------------------------------------
(* What a line is taken for                                                *)

\* looksLikeJSONRPC: the line decodes as one object of version 2.0.
LooksLikeJSONRPC(line) ==
  Len(line) > 1 /\ line[1] = "{" /\ \A k \in 2 .. Len(line) : line[k] = "}"

TrimSpace(line) ==
  LET bytes == {k \in DOMAIN line : line[k] # " "}
  IN IF bytes = {} THEN <<>>
     ELSE SubSeq(line, CHOOSE k \in bytes : \A j \in bytes : k <= j,
                       CHOOSE k \in bytes : \A j \in bytes : k >= j)

\* rejectFrame: the error a line is answered with, under a null id.
RejectFrame(line) == IF line[1] = "[" THEN "invalid request" ELSE "parse error"

\* What Read makes of a line: it is passed on, skipped, or answered.
Screen(line) ==
  LET trimmed == TrimSpace(line)
  IN CASE trimmed = <<>> -> "blank"
       [] trimmed # <<>> /\ LooksLikeJSONRPC(trimmed) -> "passed"
       [] OTHER -> RejectFrame(trimmed)

-----------------------------------------------------------------------------
(* lineReader                                                              *)

NewlineAt(k) == k \in DOMAIN buf /\ buf[k] = Newline /\ \A j \in 1 .. k - 1 : buf[j] # Newline
NoNewline == \A k \in DOMAIN buf : buf[k] # Newline

\* Read calls ReadLine when the last line has been taken from it.
Reading == over = "no" /\ out = <<>>

\* History: the verdict, and how far the stream was used up and the output
\* written when it fell.
Judge(verdict) ==
  seen' = Append(seen, [verdict |-> verdict, upTo |-> read' - Len(buf'),
                        outTo |-> Len(sent) + Len(out')])

\* ReadLine returned errOversize.
Oversize == out' = out /\ Judge("oversize")

\* ReadLine returned a line.
Read(line) ==
  /\ out' = IF Screen(line) = "passed" THEN Append(line, Newline) ELSE <<>>
  /\ Judge(Screen(line))

\* fill: one read of the input behind what is kept, or the end of it.
Fill(kept) ==
  \/ \E n \in 1 .. MaxRead :
       /\ read + n <= Len(stream)
       /\ read' = read + n
       /\ buf' = kept \o SubSeq(stream, read + 1, read + n)
       /\ UNCHANGED <<eof, over>>
  \/ /\ read = Len(stream)
     /\ read' = read /\ buf' = kept
     /\ eof' = (ending = "eof")
     /\ over' = IF ending = "eof" THEN over ELSE "error"

\* In a line over the cap: all up to its newline, or to the end, is dropped.
EndSkip ==
  /\ Reading /\ skipping
  /\ \E k \in DOMAIN buf : NewlineAt(k) /\ buf' = SubSeq(buf, k + 1, Len(buf))
  /\ skipping' = FALSE /\ read' = read
  /\ Oversize
  /\ UNCHANGED <<stream, ending, eof, sent, over>>

EndSkipAtEOF ==
  /\ Reading /\ skipping /\ NoNewline /\ eof
  /\ buf' = <<>> /\ skipping' = FALSE /\ read' = read
  /\ Oversize
  /\ UNCHANGED <<stream, ending, eof, sent, over>>

Skip ==
  /\ Reading /\ skipping /\ NoNewline /\ ~eof
  /\ Fill(<<>>)
  /\ UNCHANGED <<stream, ending, skipping, out, sent, seen>>

\* A newline is looked for before the cap is, so a line of more bytes is
\* returned if its end came in the same read.
ReturnLine ==
  /\ Reading /\ ~skipping
  /\ \E k \in DOMAIN buf :
       /\ NewlineAt(k)
       /\ buf' = SubSeq(buf, k + 1, Len(buf))
       /\ read' = read
       /\ Read(SubSeq(buf, 1, k - 1))
  /\ UNCHANGED <<stream, ending, skipping, eof, sent, over>>

\* Mutant: past an oversize line the reader begins again where the cap struck.
DropBuffer ==
  /\ Reading /\ ~skipping /\ NoNewline /\ Len(buf) > MaxLine
  /\ buf' = <<>> /\ read' = read
  /\ Oversize
  /\ UNCHANGED <<stream, ending, skipping, eof, sent, over>>

BeginSkip ==
  /\ Reading /\ ~skipping /\ NoNewline /\ Len(buf) > MaxLine
  /\ buf' = <<>> /\ skipping' = TRUE
  /\ UNCHANGED <<stream, ending, read, eof, out, sent, over, seen>>

\* What the stream ends with, without a newline, is a line too.
ReturnLastLine ==
  /\ Reading /\ ~skipping /\ NoNewline /\ Len(buf) <= MaxLine /\ eof
  /\ buf # <<>>
  /\ buf' = <<>> /\ read' = read
  /\ Read(buf)
  /\ UNCHANGED <<stream, ending, skipping, eof, sent, over>>

ReturnEOF ==
  /\ Reading /\ ~skipping /\ NoNewline /\ eof
  /\ buf = <<>>
  /\ over' = "eof"
  /\ UNCHANGED <<stream, ending, reader, out, sent, seen>>

ReadMore ==
  /\ Reading /\ ~skipping /\ NoNewline /\ Len(buf) <= MaxLine /\ ~eof
  /\ Fill(buf)
  /\ UNCHANGED <<stream, ending, skipping, out, sent, seen>>

ReadLine ==
  \/ EndSkip \/ EndSkipAtEOF \/ Skip
  \/ ReturnLine \/ BeginSkip \/ ReturnLastLine \/ ReturnEOF \/ ReadMore

\* The SDK is given as much of the line as it has room for.
Drain ==
  /\ \E n \in 1 .. Len(out) :
       /\ sent' = sent \o SubSeq(out, 1, n)
       /\ out' = SubSeq(out, n + 1, Len(out))
  /\ UNCHANGED <<stream, ending, reader, over, seen>>

FilterNext == ReadLine \/ Drain

FilterSpec == FilterInit /\ [][FilterNext]_streamVars

-----------------------------------------------------------------------------
\* The bytes of the stream that a verdict is about begin where those of the
\* one before it end; those given to the SDK for it likewise.
From(k) == IF k = 1 THEN 0 ELSE seen[k - 1].upTo
OutFrom(k) == IF k = 1 THEN 0 ELSE seen[k - 1].outTo
Given(k) == SubSeq(sent \o out, OutFrom(k) + 1, seen[k].outTo)

\* They are a line of the stream: no newline but at its end, and one there
\* unless the stream ends first.
IsALine(k) ==
  /\ seen[k].upTo \in From(k) + 1 .. Len(stream)
  /\ \A j \in From(k) + 1 .. seen[k].upTo - 1 : stream[j] # Newline
  /\ stream[seen[k].upTo] # Newline => seen[k].upTo = Len(stream) /\ ending = "eof"

LineAt(k) ==
  SubSeq(stream, From(k) + 1,
         IF stream[seen[k].upTo] = Newline THEN seen[k].upTo - 1 ELSE seen[k].upTo)

\* A line a little over the cap may pass, if its newline arrives with its last
\* bytes.
JudgedAlone(k) ==
  LET line == LineAt(k)
  IN /\ IsALine(k)
     /\ \/ seen[k].verdict = Screen(line) /\ Len(line) < MaxLine + MaxRead
        \/ seen[k].verdict = "oversize" /\ Len(line) > MaxLine
     /\ Given(k) = IF seen[k].verdict = "passed" THEN Append(line, Newline) ELSE <<>>

\* In whatever pieces the stream arrives, every line gets the verdict it would
\* get alone, in order: noise is answered, requests reach the SDK whole and
\* nothing else does, and a line over the cap is dropped as one line and takes
\* no other with it.  When the input is over every line has its verdict, but
\* for one that reading failed in.
LinesAreJudgedAlone ==
  /\ \A k \in DOMAIN seen : JudgedAlone(k)
  /\ over # "no" =>
       \A j \in From(Len(seen) + 1) + 1 .. Len(stream) :
         stream[j] # Newline /\ ending = "error"
=============================================================================
