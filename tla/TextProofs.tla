----------------------------- MODULE TextProofs ------------------------------
(***************************************************************************)
(* Proofs about what stands between leonard and Claude Code: the filter of *)
(* leonard-mcp's standard input, the doctor's check of the hooks, the      *)
(* claims found in a text, the search for a forbidden one, and the extents *)
(* of the symbols that are extracted.                                      *)
(***************************************************************************)
EXTENDS StdinFilter, WiringChecks, ClaimChecks, Extraction,
        SequenceTheorems, FiniteSetTheorems, WellFoundedInduction, TLAPS

\* Where the line under way begins, and how far the stream is used up.
Begin == From(Len(seen) + 1)
Used == read - Len(buf)

\* The buffer is the end of what was read.  It is filled only when it holds no
\* more than the cap.
BufferInv ==
  /\ Len(buf) <= read /\ Len(buf) <= MaxLine + MaxRead
  /\ \A j \in 1 .. Len(buf) : buf[j] = stream[Used + j]
  /\ eof => read = Len(stream) /\ ending = "eof"

\* Nothing but the line under way was dropped, and only if it is over the cap.
LineInv ==
  /\ Begin \in 0 .. Used
  /\ ~skipping => Begin = Used
  /\ skipping => /\ Begin + MaxLine < Used
                 /\ \A j \in Begin + 1 .. Used : stream[j] # Newline

\* What the verdicts so far have written is all that was written.
OutInv ==
  /\ OutFrom(Len(seen) + 1) = Len(sent) + Len(out)
  /\ \A k \in DOMAIN seen : seen[k].outTo <= Len(sent) + Len(out)

OverInv ==
  over # "no" => \A j \in Begin + 1 .. Len(stream) : stream[j] # Newline /\ ending = "error"

VerdictInv == \A k \in DOMAIN seen : JudgedAlone(k)

FilterInv == BufferInv /\ LineInv /\ OutInv /\ OverInv /\ VerdictInv

-----------------------------------------------------------------------------
(* Types                                                                   *)

Verdict == [verdict : Verdicts, upTo : Nat, outTo : Nat]
Output == Bytes \cup {Newline}

LEMMA StreamTypes ==
  ASSUME TypeOK
  PROVE  /\ stream \in Seq(Bytes) /\ stream \in Seq(Output) /\ Len(stream) \in Nat
         /\ read \in 0 .. Len(stream)
         /\ buf \in Seq(Bytes) /\ buf \in Seq(Output) /\ Len(buf) \in Nat /\ DOMAIN buf = 1 .. Len(buf)
         /\ out \in Seq(Output) /\ Len(out) \in Nat
         /\ sent \in Seq(Output) /\ Len(sent) \in Nat
         /\ seen \in Seq(Verdict) /\ Len(seen) \in Nat /\ DOMAIN seen = 1 .. Len(seen)
         /\ \A k \in 1 .. Len(seen) : seen[k] \in Verdict
<1>1. stream \in Seq(Bytes)
  BY StdinFilterAssumption DEF TypeOK
<1>2. Bytes \subseteq Output
  BY DEF Output
<1>3. stream \in Seq(Output) /\ buf \in Seq(Output)
  BY <1>1, <1>2, SeqMonotonic DEF TypeOK
<1>4. seen \in Seq(Verdict)
  BY DEF TypeOK, Verdict
<1>5. \A k \in 1 .. Len(seen) : seen[k] \in Verdict
  BY <1>4, ElementOfSeq
<1> QED
  BY <1>1, <1>3, <1>4, <1>5, LenProperties DEF TypeOK, Output

LEMMA ScreenTypes ==
  ASSUME NEW line
  PROVE  Screen(line) \in Verdicts \ {"oversize"}
BY DEF Screen, RejectFrame, Verdicts

\* The ends of the lines so far are a place in what was used up.
LEMMA BeginTypes ==
  ASSUME TypeOK
  PROVE  Begin \in Nat /\ OutFrom(Len(seen) + 1) \in Nat
<1>1. /\ Len(seen) \in Nat /\ \A k \in 1 .. Len(seen) : seen[k] \in Verdict
  BY StreamTypes
<1>2. CASE Len(seen) = 0
  BY <1>2 DEF Begin, From, OutFrom
<1>3. CASE Len(seen) # 0
  <2>1. Len(seen) \in 1 .. Len(seen) /\ Len(seen) + 1 # 1 /\ (Len(seen) + 1) - 1 = Len(seen)
    BY <1>1, <1>3
  <2> QED
    BY <1>1, <2>1 DEF Begin, From, OutFrom, Verdict
<1> QED
  BY <1>2, <1>3

-----------------------------------------------------------------------------
(* Parts of sequences                                                      *)

LEMMA StartOfConcat ==
  ASSUME NEW S, NEW s \in Seq(S), NEW t \in Seq(S), NEW a \in Nat, NEW b \in Nat, b <= Len(s)
  PROVE  SubSeq(s \o t, a + 1, b) = SubSeq(s, a + 1, b)
<1>1. /\ s \o t \in Seq(S) /\ \A i \in 1 .. Len(s) : (s \o t)[i] = s[i]
      /\ Len(s) \in Nat /\ Len(t) \in Nat /\ Len(s \o t) = Len(s) + Len(t)
  BY ConcatProperties, LenProperties
<1> DEFINE w == s \o t
<1>2. \A i \in a + 1 .. b : w[i] = s[i]
  BY <1>1
<1> HIDE DEF w
<1>3. SubSeq(w, a + 1, b) = [i \in 1 .. (1 + b - (a + 1)) |-> w[i + (a + 1) - 1]]
  OBVIOUS
<1>4. SubSeq(s, a + 1, b) = [i \in 1 .. (1 + b - (a + 1)) |-> s[i + (a + 1) - 1]]
  OBVIOUS
<1>5. \A i \in 1 .. (1 + b - (a + 1)) : i + (a + 1) - 1 \in a + 1 .. b
  OBVIOUS
<1> QED
  BY <1>2, <1>3, <1>4, <1>5 DEF w

LEMMA EndOfConcat ==
  ASSUME NEW S, NEW s \in Seq(S), NEW t \in Seq(S)
  PROVE  SubSeq(s \o t, Len(s) + 1, Len(s) + Len(t)) = t
BY ConcatProperties, LenProperties

LEMMA PartOfStream ==
  ASSUME TypeOK, NEW a \in Nat, NEW b \in Nat, a <= b, b <= Len(stream)
  PROVE  /\ SubSeq(stream, a + 1, b) \in Seq(Bytes)
         /\ Len(SubSeq(stream, a + 1, b)) = b - a
<1>1. stream \in Seq(Bytes) /\ Len(stream) \in Nat
  BY StreamTypes
<1> DEFINE c == a + 1
<1>2. /\ c \in Int /\ b \in Int /\ (IF c <= b THEN b - c + 1 ELSE 0) = b - a
      /\ \A i \in c .. b : stream[i] \in Bytes
  BY <1>1, ElementOfSeq
<1> HIDE DEF c
<1>3. /\ SubSeq(stream, c, b) \in Seq(Bytes)
      /\ Len(SubSeq(stream, c, b)) = IF c <= b THEN b - c + 1 ELSE 0
  BY <1>2, SubSeqProperties
<1> QED
  BY <1>2, <1>3 DEF c

-----------------------------------------------------------------------------
(* A verdict                                                               *)

\* A verdict on the line that begins where the last one ended leaves those
\* before it as they are, what was given for them included.
LEMMA AddVerdict ==
  ASSUME TypeOK, VerdictInv, OutInv, out = <<>>, NEW n, n = Len(seen),
         NEW v \in Verdicts, NEW u \in Nat, NEW line \in Seq(Output),
         stream' = stream, ending' = ending, sent' = sent,
         out' = (IF v = "passed" THEN Append(line, Newline) ELSE <<>>),
         seen' = Append(seen, [verdict |-> v, upTo |-> u, outTo |-> Len(sent) + Len(out')]),
         u \in Begin + 1 .. Len(stream),
         \A j \in Begin + 1 .. u - 1 : stream[j] # Newline,
         stream[u] # Newline => u = Len(stream) /\ ending = "eof",
         line = SubSeq(stream, Begin + 1, IF stream[u] = Newline THEN u - 1 ELSE u),
         \/ v = Screen(line) /\ Len(line) < MaxLine + MaxRead
         \/ v = "oversize" /\ Len(line) > MaxLine
  PROVE  /\ VerdictInv' /\ OutInv' /\ Begin' = u
         /\ out' \in Seq(Output) /\ seen' \in Seq(Verdict)
<1> DEFINE e == [verdict |-> v, upTo |-> u, outTo |-> Len(sent) + Len(out')]
<1>1. /\ n \in Nat /\ DOMAIN seen = 1 .. n /\ seen \in Seq(Verdict)
      /\ \A k \in 1 .. n : seen[k] \in Verdict
      /\ sent \in Seq(Output) /\ Len(sent) \in Nat /\ Len(out) = 0
  BY StreamTypes
<1>2. out' \in Seq(Output) /\ Len(out') \in Nat
  <2>1. Newline \in Output
    BY DEF Output
  <2>2. Append(line, Newline) \in Seq(Output) /\ <<>> \in Seq(Output)
    BY <2>1
  <2>3. out' \in Seq(Output)
    BY <2>2
  <2> QED
    BY <2>3, LenProperties
<1>3. e \in Verdict
  BY <1>1, <1>2 DEF Verdict
<1>4. /\ seen' \in Seq(Verdict) /\ Len(seen') = n + 1 /\ DOMAIN seen' = 1 .. n + 1
      /\ seen'[n + 1] = e /\ \A k \in 1 .. n : seen'[k] = seen[k]
  BY <1>1, <1>3, AppendProperties
<1>5. /\ e.verdict = v /\ e.upTo = u /\ e.outTo = Len(sent) + Len(out')
  OBVIOUS
<1> HIDE DEF e
<1>6. /\ Begin' = u /\ OutFrom(Len(seen) + 1)' = Len(sent) + Len(out')
  <2>1. (n + 1) + 1 # 1 /\ ((n + 1) + 1) - 1 = n + 1
    BY <1>1
  <2>2. Len(seen') + 1 # 1 /\ seen'[(Len(seen') + 1) - 1] = e
    BY <1>4, <2>1
  <2> QED
    BY <1>5, <2>2 DEF Begin, From, OutFrom
<1>7. \A k \in 1 .. n : seen[k].outTo \in Nat /\ seen[k].outTo <= Len(sent)
  <2>1. \A k \in 1 .. n : seen[k].outTo \in Nat
    BY <1>1 DEF Verdict
  <2>2. \A k \in 1 .. n : seen[k].outTo <= Len(sent) + Len(out)
    BY <1>1 DEF OutInv
  <2> QED
    BY <1>1, <2>1, <2>2
<1>8. OutInv'
  <2> SUFFICES ASSUME NEW k \in 1 .. n + 1 PROVE seen'[k].outTo <= Len(sent) + Len(out')
    BY <1>4, <1>6 DEF OutInv
  <2>1. CASE k = n + 1
    BY <1>1, <1>2, <1>4, <1>5, <2>1
  <2>2. CASE k \in 1 .. n
    BY <1>1, <1>2, <1>4, <1>7, <2>2
  <2> QED
    BY <1>1, <2>1, <2>2
<1>9. OutFrom(n + 1) = Len(sent) /\ From(n + 1) = Begin
  BY <1>1 DEF OutInv, Begin
<1>10. ASSUME NEW k \in 1 .. n + 1
       PROVE  From(k)' = From(k) /\ OutFrom(k)' = OutFrom(k)
  <2>1. CASE k = 1
    BY <2>1 DEF From, OutFrom
  <2>2. CASE k # 1
    <3>1. k - 1 \in 1 .. n
      BY <1>1, <2>2
    <3> QED
      BY <1>4, <3>1 DEF From, OutFrom
  <2> QED
    BY <2>1, <2>2
<1>11. ASSUME NEW k, k = n + 1 PROVE JudgedAlone(k)'
  <2>1. From(k)' = Begin /\ OutFrom(k)' = Len(sent) /\ seen'[k] = e
    BY <1>1, <1>4, <1>9, <1>10, <1>11
  <2>2. IsALine(k)'
    BY <1>5, <2>1 DEF IsALine
  <2>3. LineAt(k)' = line
    BY <1>5, <2>1 DEF LineAt
  <2>4. Given(k)' = out'
    <3>1. Given(k)' = SubSeq(sent \o out', Len(sent) + 1, Len(sent) + Len(out'))
      BY <1>5, <2>1 DEF Given
    <3> DEFINE o == out'
    <3>2. o \in Seq(Output)
      BY <1>2
    <3> HIDE DEF o
    <3>3. SubSeq(sent \o o, Len(sent) + 1, Len(sent) + Len(o)) = o
      BY <1>1, <3>2, EndOfConcat
    <3> QED
      BY <3>1, <3>3 DEF o
  <2> QED
    BY <1>5, <2>1, <2>2, <2>3, <2>4 DEF JudgedAlone
<1>12. ASSUME NEW k \in 1 .. n PROVE JudgedAlone(k)'
  <2>1. JudgedAlone(k)
    BY <1>1 DEF VerdictInv
  <2>2. seen'[k] = seen[k] /\ From(k)' = From(k) /\ OutFrom(k)' = OutFrom(k)
    BY <1>1, <1>4, <1>10, SMTT(30)
  <2>3. IsALine(k)' /\ LineAt(k)' = LineAt(k)
    BY <2>1, <2>2 DEF JudgedAlone, IsALine, LineAt
  <2>4. Given(k)' = Given(k)
    <3> DEFINE a == OutFrom(k)
               b == seen[k].outTo
    <3>1. a \in Nat /\ b \in Nat /\ b <= Len(sent)
      <4>1. k # 1 => k - 1 \in 1 .. n
        BY <1>1
      <4> QED
        BY <1>7, <4>1 DEF OutFrom
    <3>2. Given(k) = SubSeq(sent \o <<>>, a + 1, b) /\ Given(k)' = SubSeq(sent \o out', a + 1, b)
      BY <2>2 DEF Given
    <3> HIDE DEF a, b
    <3> QED
      BY <1>1, <1>2, <3>1, <3>2, StartOfConcat, EmptySeq
  <2> QED
    BY <2>1, <2>2, <2>3, <2>4 DEF JudgedAlone
<1>13. VerdictInv'
  <2> SUFFICES ASSUME NEW k \in 1 .. n + 1 PROVE JudgedAlone(k)'
    BY <1>4 DEF VerdictInv
  <2> QED
    BY <1>1, <1>11, <1>12
<1> QED
  BY <1>2, <1>4, <1>6, <1>8, <1>13

-----------------------------------------------------------------------------
(* The buffer                                                              *)

\* What is taken of the buffer is that part of the stream.
LEMMA BufferIsStream ==
  ASSUME TypeOK, BufferInv, NEW a \in 1 .. Len(buf) + 1, NEW b \in 0 .. Len(buf)
  PROVE  /\ SubSeq(buf, a, b) = SubSeq(stream, Used + a, Used + b)
         /\ SubSeq(buf, a, b) \in Seq(Bytes)
         /\ Len(SubSeq(buf, a, b)) = IF a <= b THEN 1 + b - a ELSE 0
<1>1. /\ buf \in Seq(Bytes) /\ Len(buf) \in Nat /\ DOMAIN buf = 1 .. Len(buf)
      /\ read \in Nat /\ Used \in Nat /\ a \in Nat /\ b \in Nat
  BY StreamTypes DEF BufferInv, Used
<1>2. \A i \in a .. b : buf[i] = stream[Used + i] /\ buf[i] \in Bytes
  BY <1>1, ElementOfSeq DEF BufferInv
<1> DEFINE c == Used + a
           d == Used + b
<1>3. c \in Nat /\ d \in Nat /\ \A i \in 1 .. (1 + b - a) : c + i - 1 = Used + (a + i - 1)
  BY <1>1
<1>4. 1 + d - c = 1 + b - a
  BY <1>1
<1> HIDE DEF c, d
<1>5. SubSeq(buf, a, b) = [i \in 1 .. (1 + b - a) |-> buf[a + i - 1]]
  BY <1>1
<1>6. SubSeq(stream, c, d) = [i \in 1 .. (1 + d - c) |-> stream[c + i - 1]]
  BY <1>3
<1>7. \A i \in 1 .. (1 + b - a) : a + i - 1 \in a .. b
  BY <1>1
<1>8. SubSeq(buf, a, b) = SubSeq(stream, c, d)
  <2>1. \A i \in 1 .. (1 + b - a) : buf[a + i - 1] = stream[c + i - 1]
    BY <1>2, <1>3, <1>7, SMT
  <2> QED
    BY <1>4, <1>5, <1>6, <2>1, Zenon
<1>9. /\ SubSeq(buf, a, b) \in Seq(Bytes)
      /\ Len(SubSeq(buf, a, b)) = IF a <= b THEN b - a + 1 ELSE 0
  BY <1>1, <1>2, SubSeqProperties
<1> QED
  BY <1>1, <1>8, <1>9 DEF c, d

\* What is left of the buffer is still the end of what was read.
LEMMA RestOfBuffer ==
  ASSUME TypeOK, BufferInv, NEW k \in 1 .. Len(buf), buf' = SubSeq(buf, k + 1, Len(buf)),
         UNCHANGED <<stream, ending, read, eof>>
  PROVE  buf' \in Seq(Bytes) /\ Used' = Used + k /\ BufferInv'
<1>1. /\ Len(buf) \in Nat /\ read \in Nat /\ Used \in Nat /\ Used = read - Len(buf)
      /\ Len(buf) <= read
  BY StreamTypes DEF BufferInv, Used
<1> DEFINE a == k + 1
<1>2. a \in 1 .. Len(buf) + 1 /\ Len(buf) \in 0 .. Len(buf)
  BY <1>1
<1> DEFINE b == Len(buf)
<1> HIDE DEF a, b
<1>3. buf' = SubSeq(buf, a, b)
  BY DEF a, b
<1>4. buf' \in Seq(Bytes) /\ Len(buf') = IF a <= b THEN 1 + b - a ELSE 0
  BY <1>2, <1>3, BufferIsStream DEF b
<1>5. Len(buf') = Len(buf) - k
  BY <1>1, <1>4 DEF a, b
<1>6. Used' = Used + k
  <2>1. read - (Len(buf) - k) = Used + k
    BY <1>1
  <2>2. Used' = read - (Len(buf) - k)
    BY <1>5, Zenon DEF Used
  <2> QED
    BY <2>1, <2>2
<1>7. ASSUME NEW j \in 1 .. Len(buf') PROVE buf'[j] = stream'[Used' + j]
  <2>1. buf' = [i \in 1 .. (1 + b - a) |-> buf[a + i - 1]]
    BY <1>1, <1>3 DEF a, b
  <2>2. j \in 1 .. (1 + b - a) /\ a + j - 1 = k + j /\ k + j \in 1 .. Len(buf)
    BY <1>1, <1>5 DEF a, b
  <2>3. buf'[j] = buf[k + j]
    BY <2>1, <2>2
  <2>4. buf[k + j] = stream[Used + (k + j)]
    BY <2>2 DEF BufferInv
  <2> QED
    BY <1>1, <1>6, <2>3, <2>4
<1>8. Len(buf') <= read' /\ Len(buf') <= MaxLine + MaxRead
  BY <1>1, <1>5, StdinFilterAssumption DEF BufferInv
<1>9. eof' => read' = Len(stream') /\ ending' = "eof"
  BY DEF BufferInv
<1> QED
  BY <1>4, <1>6, <1>7, <1>8, <1>9 DEF BufferInv

LEMMA EmptyBuffer ==
  ASSUME TypeOK, BufferInv, buf' = <<>>, UNCHANGED <<stream, ending, read, eof>>
  PROVE  buf' \in Seq(Bytes) /\ Used' = read /\ BufferInv'
<1>1. /\ Len(buf') = 0 /\ buf' \in Seq(Bytes) /\ read \in Nat
  BY StreamTypes
<1>2. Used' = read
  BY <1>1 DEF Used
<1> QED
  BY <1>1, <1>2, StdinFilterAssumption DEF BufferInv

\* fill puts behind what is kept of the buffer what comes next in the stream.
LEMMA FillKeeps ==
  ASSUME TypeOK, ~ eof, NEW kept \in Seq(Bytes), Len(kept) <= read, Len(kept) <= MaxLine,
         \A j \in 1 .. Len(kept) : kept[j] = stream[read - Len(kept) + j],
         Fill(kept), stream' = stream, ending' = ending
  PROVE  /\ buf' \in Seq(Bytes) /\ read' \in 0 .. Len(stream) /\ eof' \in BOOLEAN
         /\ BufferInv' /\ Used' = read - Len(kept)
         /\ \/ over' = over
            \/ over' = "error" /\ ending = "error" /\ read = Len(stream)
<1>1. /\ stream \in Seq(Bytes) /\ Len(stream) \in Nat /\ read \in 0 .. Len(stream) /\ read \in Nat
      /\ Len(kept) \in Nat
  BY StreamTypes, LenProperties
<1>2. MaxLine \in Nat /\ MaxRead \in Nat
  BY StdinFilterAssumption
<1>3. ASSUME NEW n \in 1 .. MaxRead, read + n <= Len(stream), read' = read + n,
             buf' = kept \o SubSeq(stream, read + 1, read + n), UNCHANGED <<eof, over>>
      PROVE  /\ buf' \in Seq(Bytes) /\ BufferInv' /\ Used' = read - Len(kept)
             /\ read' \in 0 .. Len(stream)
  <2> DEFINE t == SubSeq(stream, read + 1, read + n)
  <2>1. \A i \in read + 1 .. read + n : stream[i] \in Bytes
    <3>1. \A i \in read + 1 .. read + n : i \in 1 .. Len(stream)
      <4> DEFINE len == Len(stream)
      <4>1. read \in Nat /\ n \in 1 .. MaxRead /\ MaxRead \in Nat /\ len \in Nat /\ read + n <= len
        BY <1>1, <1>2, <1>3, Zenon
      <4> HIDE DEF len, t
      <4>2. \A i \in read + 1 .. read + n : i \in 1 .. len
        BY <4>1
      <4> QED
        BY <4>2, Zenon DEF len
    <3>2. \A i \in 1 .. Len(stream) : stream[i] \in Bytes
      BY <1>1, ElementOfSeq, Zenon
    <3> QED
      BY <3>1, <3>2, Zenon
  <2>2. /\ t \in Seq(Bytes) /\ Len(t) = n /\ \A i \in 1 .. n : t[i] = stream[read + 1 + i - 1]
    <3> DEFINE a == read + 1
               b == read + n
    <3>1. /\ a \in Int /\ b \in Int /\ a <= b /\ b - a + 1 = n
          /\ \A i \in a .. b : stream[i] \in Bytes
      BY <1>1, <2>1
    <3> HIDE DEF a, b
    <3>2. /\ SubSeq(stream, a, b) \in Seq(Bytes) /\ Len(SubSeq(stream, a, b)) = n
          /\ \A i \in 1 .. n : SubSeq(stream, a, b)[i] = stream[a + i - 1]
      BY <3>1, SubSeqProperties
    <3> QED
      BY <3>2 DEF a, b
  <2> HIDE DEF t
  <2>3. buf' = kept \o t
    BY <1>3 DEF t
  <2>4. /\ buf' \in Seq(Bytes) /\ Len(buf') = Len(kept) + n
        /\ \A i \in 1 .. Len(kept) + n : buf'[i] = IF i <= Len(kept) THEN kept[i] ELSE t[i - Len(kept)]
    BY <2>2, <2>3, ConcatProperties
  <2>5. Used' = read - Len(kept)
    BY <1>1, <1>3, <2>4 DEF Used
  <2>6. ASSUME NEW j \in 1 .. Len(buf') PROVE buf'[j] = stream'[Used' + j]
    <3>1. CASE j <= Len(kept)
      <4>1. j \in 1 .. Len(kept) /\ j \in 1 .. Len(kept) + n
        BY <1>1, <2>4, <3>1
      <4>2. buf'[j] = kept[j]
        BY <2>4, <3>1, <4>1, Zenon
      <4>3. kept[j] = stream[read - Len(kept) + j]
        BY <4>1, Zenon
      <4> QED
        BY <2>5, <4>2, <4>3, Zenon
    <3>2. CASE j > Len(kept)
      <4>1. j - Len(kept) \in 1 .. n /\ read + 1 + (j - Len(kept)) - 1 = read - Len(kept) + j
        BY <1>1, <2>4, <3>2
      <4>2. buf'[j] = t[j - Len(kept)]
        BY <1>1, <2>4, <3>2
      <4>3. t[j - Len(kept)] = stream[read + 1 + (j - Len(kept)) - 1]
        BY <2>2, <4>1, Zenon
      <4> QED
        BY <2>5, <4>1, <4>2, <4>3, Zenon
    <3>3. j <= Len(kept) \/ j > Len(kept)
      BY <1>1, <2>4
    <3> QED
      BY <3>1, <3>2, <3>3, Zenon
  <2>7. Len(buf') <= read' /\ Len(buf') <= MaxLine + MaxRead
    BY <1>1, <1>2, <1>3, <2>4
  <2> QED
    BY <1>1, <1>3, <2>4, <2>5, <2>6, <2>7 DEF BufferInv
<1>4. ASSUME read = Len(stream), read' = read, buf' = kept, eof' = (ending = "eof")
      PROVE  BufferInv' /\ Used' = read - Len(kept)
  <2>1. Used' = read - Len(kept)
    BY <1>4 DEF Used
  <2>2. Len(buf') <= read' /\ Len(buf') <= MaxLine + MaxRead
    BY <1>1, <1>2, <1>4
  <2>3. \A j \in 1 .. Len(buf') : buf'[j] = stream'[Used' + j]
    BY <1>4, <2>1
  <2>4. eof' => read' = Len(stream') /\ ending' = "eof"
    BY <1>4, Zenon
  <2> QED
    BY <2>1, <2>2, <2>3, <2>4 DEF BufferInv
<1> QED
  BY <1>1, <1>3, <1>4 DEF Fill, TypeOK

-----------------------------------------------------------------------------
(* The steps                                                               *)

\* ReadLine returned: a line is judged that ends where the reader has got to.
LEMMA LineJudged ==
  ASSUME TypeOK, VerdictInv, OutInv, out = <<>>, NEW v \in Verdicts, NEW line \in Seq(Bytes),
         UNCHANGED <<stream, ending, eof, sent, over>>, over = "no",
         buf' \in Seq(Bytes), read' = read, skipping' = FALSE,
         out' = (IF v = "passed" THEN Append(line, Newline) ELSE <<>>), Judge(v),
         BufferInv', Begin < Used', Used' <= read,
         \A j \in Begin + 1 .. Used' - 1 : stream[j] # Newline,
         stream[Used'] # Newline => Used' = Len(stream) /\ ending = "eof",
         line = SubSeq(stream, Begin + 1, IF stream[Used'] = Newline THEN Used' - 1 ELSE Used'),
         \/ v = Screen(line) /\ Len(line) < MaxLine + MaxRead
         \/ v = "oversize" /\ Len(line) > MaxLine
  PROVE  TypeOK' /\ FilterInv'
<1> DEFINE u == Used'
<1>1. /\ Len(stream) \in Nat /\ read \in 0 .. Len(stream) /\ Begin \in Nat
      /\ Len(seen) \in Nat
  BY StreamTypes, BeginTypes
<1>2. Len(buf') \in Nat
  BY LenProperties
<1>3. u \in Nat /\ u \in Begin + 1 .. Len(stream)
  BY <1>1, <1>2 DEF Used
<1>4. line \in Seq(Output)
  BY SeqMonotonic DEF Output
<1>5. seen' = Append(seen, [verdict |-> v, upTo |-> u, outTo |-> Len(sent) + Len(out')])
  BY DEF Judge, Used
<1> HIDE DEF u
<1>6. /\ \A j \in Begin + 1 .. u - 1 : stream[j] # Newline
      /\ stream[u] # Newline => u = Len(stream) /\ ending = "eof"
      /\ line = SubSeq(stream, Begin + 1, IF stream[u] = Newline THEN u - 1 ELSE u)
  BY DEF u
<1>7. /\ VerdictInv' /\ OutInv' /\ Begin' = u
      /\ out' \in Seq(Output) /\ seen' \in Seq(Verdict)
  BY <1>1, <1>3, <1>4, <1>5, <1>6, AddVerdict
<1>8. TypeOK'
  BY <1>7 DEF TypeOK, Output, Verdict
<1>9. LineInv' /\ OverInv'
  <2>1. Begin' = Used' /\ Begin' \in 0 .. Used' /\ over' = "no"
    BY <1>3, <1>7 DEF u
  <2> QED
    BY <2>1 DEF LineInv, OverInv
<1> QED
  BY <1>7, <1>8, <1>9 DEF FilterInv

\* ReadLine went on: no line is judged.
LEMMA LineGoesOn ==
  ASSUME TypeOK, FilterInv, UNCHANGED <<stream, ending, out, sent, seen>>
  PROVE  VerdictInv' /\ OutInv' /\ Begin' = Begin
<1>1. Begin' = Begin
  BY DEF Begin, From
<1>2. OutInv'
  BY DEF FilterInv, OutInv, OutFrom
<1>3. VerdictInv'
  BY ZenonT(40) DEF FilterInv, VerdictInv, JudgedAlone, IsALine, LineAt, Given, From, OutFrom
<1> QED
  BY <1>1, <1>2, <1>3

LEMMA FilterBegins == FilterInit => TypeOK /\ FilterInv
<1> SUFFICES ASSUME FilterInit PROVE TypeOK /\ FilterInv
  OBVIOUS
<1>1. stream \in Seq(Bytes) /\ Len(stream) \in Nat
  BY StdinFilterAssumption, LenProperties DEF FilterInit
<1>2. /\ buf = <<>> /\ Len(buf) = 0 /\ Len(seen) = 0 /\ Len(out) = 0 /\ Len(sent) = 0
      /\ DOMAIN seen = {} /\ read = 0
      /\ buf \in Seq(Bytes) /\ out \in Seq(Output) /\ sent \in Seq(Output) /\ seen \in Seq(Verdict)
  BY DEF FilterInit
<1>3. Begin = 0 /\ Used = 0 /\ OutFrom(Len(seen) + 1) = 0
  <2>1. 0 + 1 = 1 /\ 0 - 0 = 0
    OBVIOUS
  <2> QED
    BY <1>2, <2>1, Zenon DEF Begin, From, OutFrom, Used
<1>4. BufferInv
  BY <1>2, StdinFilterAssumption DEF FilterInit, BufferInv
<1>5. LineInv /\ OutInv /\ OverInv /\ VerdictInv
  BY <1>2, <1>3 DEF FilterInit, LineInv, OutInv, OverInv, VerdictInv
<1>6. TypeOK
  <2>1. read \in 0 .. Len(stream)
    BY <1>1, <1>2
  <2> QED
    BY <1>2, <2>1, Zenon DEF FilterInit, TypeOK, Output, Verdict
<1> QED
  BY <1>4, <1>5, <1>6 DEF FilterInv

LEMMA NoNewlineUpTo ==
  ASSUME TypeOK, BufferInv, NoNewline, Begin \in Nat,
         \A j \in Begin + 1 .. Used : stream[j] # Newline
  PROVE  \A j \in Begin + 1 .. read : stream[j] # Newline
<1>1. /\ Len(buf) \in Nat /\ DOMAIN buf = 1 .. Len(buf) /\ read \in Nat
      /\ Used \in Nat /\ Used = read - Len(buf)
  BY StreamTypes DEF BufferInv, Used
<1> SUFFICES ASSUME NEW j \in Begin + 1 .. read, j > Used PROVE stream[j] # Newline
  BY <1>1
<1>2. j - Used \in 1 .. Len(buf) /\ Used + (j - Used) = j
  BY <1>1
<1>3. buf[j - Used] = stream[Used + (j - Used)] /\ buf[j - Used] # Newline
  BY <1>1, <1>2 DEF BufferInv, NoNewline
<1> QED
  BY <1>2, <1>3

LEMMA FilterSkip ==
  ASSUME TypeOK, FilterInv, EndSkip \/ EndSkipAtEOF \/ Skip
  PROVE  TypeOK' /\ FilterInv'
<1> USE DEF FilterInv
<1>1. /\ stream \in Seq(Bytes) /\ Len(stream) \in Nat /\ read \in 0 .. Len(stream) /\ read \in Nat
      /\ buf \in Seq(Bytes) /\ Len(buf) \in Nat /\ DOMAIN buf = 1 .. Len(buf)
      /\ Begin \in Nat /\ Used \in Nat /\ Used = read - Len(buf)
  BY StreamTypes, BeginTypes DEF BufferInv, Used
<1>2. MaxLine \in Nat /\ MaxRead \in Nat
  BY StdinFilterAssumption
<1>3. /\ skipping /\ over = "no" /\ out = <<>>
      /\ Begin + MaxLine < Used /\ \A j \in Begin + 1 .. Used : stream[j] # Newline
  BY DEF EndSkip, EndSkipAtEOF, Skip, Reading, LineInv
<1>4. \A j \in 1 .. Len(buf) : buf[j] = stream[Used + j]
  BY DEF BufferInv
<1>5. ASSUME EndSkip PROVE TypeOK' /\ FilterInv'
  <2>1. PICK k \in 1 .. Len(buf) : NewlineAt(k) /\ buf' = SubSeq(buf, k + 1, Len(buf))
    BY <1>1, <1>5 DEF EndSkip
  <2>2. /\ skipping' = FALSE /\ read' = read /\ out' = out /\ Judge("oversize")
        /\ UNCHANGED <<stream, ending, eof, sent, over>>
    BY <1>5 DEF EndSkip, Oversize
  <2>3. buf' \in Seq(Bytes) /\ Used' = Used + k /\ BufferInv'
    BY <2>1, <2>2, RestOfBuffer
  <2>4. stream[Used'] = Newline /\ \A j \in Begin + 1 .. Used' - 1 : stream[j] # Newline
    <3>1. stream[Used + k] = Newline
      BY <1>4, <2>1 DEF NewlineAt
    <3>2. ASSUME NEW j \in Begin + 1 .. Used + k - 1 PROVE stream[j] # Newline
      <4>1. CASE j <= Used
        BY <1>1, <1>3, <4>1
      <4>2. CASE j > Used
        <5>1. j - Used \in 1 .. k - 1 /\ j - Used \in 1 .. Len(buf) /\ Used + (j - Used) = j
          BY <1>1, <4>2
        <5> QED
          BY <1>4, <2>1, <5>1 DEF NewlineAt
      <4> QED
        BY <1>1, <4>1, <4>2
    <3>3. Used' = Used + k
      BY <2>3
    <3>4. ASSUME NEW j \in Begin + 1 .. Used' - 1 PROVE stream[j] # Newline
      BY <1>1, <3>2, <3>3
    <3> QED
      BY <3>1, <3>3, <3>4
  <2>5. /\ Begin < Used' /\ Used' <= read /\ Used' \in Nat /\ Used' - 1 \in Nat
        /\ (Used' - 1) - Begin > MaxLine
    BY <1>1, <1>2, <1>3, <2>3
  <2>6. PICK line \in Seq(Bytes) :
          line = SubSeq(stream, Begin + 1, Used' - 1) /\ Len(line) > MaxLine
    <3> DEFINE u == Used'
               b == u - 1
    <3>1. u \in Nat /\ b \in Nat /\ u <= read /\ b - Begin > MaxLine
      BY <2>5
    <3> HIDE DEF u
    <3>2. b \in Nat /\ Begin <= b /\ b <= Len(stream) /\ b - Begin > MaxLine
      BY <1>1, <1>2, <3>1
    <3> HIDE DEF b
    <3>3. SubSeq(stream, Begin + 1, b) \in Seq(Bytes) /\ Len(SubSeq(stream, Begin + 1, b)) = b - Begin
      BY <1>1, <3>2, PartOfStream
    <3> QED
      BY <3>2, <3>3, Zenon DEF b, u
  <2> QED
    BY <1>3, <2>2, <2>3, <2>4, <2>5, <2>6, LineJudged, Zenon DEF Verdicts
\* The buffer holds no newline: neither does the line so far.
<1>6. ASSUME NoNewline
      PROVE  \A j \in Begin + 1 .. read : stream[j] # Newline
  BY <1>1, <1>3, <1>4, <1>6, NoNewlineUpTo
<1>7. ASSUME EndSkipAtEOF PROVE TypeOK' /\ FilterInv'
  <2>1. /\ skipping' = FALSE /\ read' = read /\ out' = out /\ Judge("oversize") /\ buf' = <<>>
        /\ eof /\ NoNewline
        /\ UNCHANGED <<stream, ending, eof, sent, over>>
    BY <1>7 DEF EndSkipAtEOF, Oversize
  <2>2. buf' \in Seq(Bytes) /\ Used' = read /\ BufferInv'
    BY <2>1, EmptyBuffer
  <2>3. \A j \in Begin + 1 .. read : stream[j] # Newline
    BY <1>6, <2>1
  <2>4. read = Len(stream) /\ ending = "eof"
    BY <2>1 DEF BufferInv
  <2>5. Begin < read /\ read - Begin > MaxLine /\ read \in Begin + 1 .. read
    BY <1>1, <1>2, <1>3
  <2>6. PICK line \in Seq(Bytes) :
          line = SubSeq(stream, Begin + 1, read) /\ Len(line) > MaxLine
    <3>1. read <= Len(stream) /\ Begin <= read
      BY <1>1, <2>5
    <3>2. /\ SubSeq(stream, Begin + 1, read) \in Seq(Bytes)
          /\ Len(SubSeq(stream, Begin + 1, read)) = read - Begin
      BY <1>1, <3>1, PartOfStream
    <3> QED
      BY <2>5, <3>2
  <2>7. /\ \A j \in Begin + 1 .. read - 1 : stream[j] # Newline
        /\ stream[read] # Newline
    BY <1>1, <2>3, <2>5
  <2>8. line = SubSeq(stream, Begin + 1, IF stream[Used'] = Newline THEN Used' - 1 ELSE Used')
    BY <2>2, <2>6, <2>7, Zenon
  <2>9. /\ Begin < Used' /\ Used' <= read
        /\ \A j \in Begin + 1 .. Used' - 1 : stream[j] # Newline
        /\ Used' = Len(stream) /\ ending = "eof"
    BY <1>1, <2>2, <2>4, <2>5, <2>7
  <2> QED
    BY <1>3, <2>1, <2>2, <2>6, <2>8, <2>9, LineJudged, Zenon DEF Verdicts
<1>8. ASSUME Skip PROVE TypeOK' /\ FilterInv'
  <2>1. /\ NoNewline /\ ~ eof /\ Fill(<<>>)
        /\ UNCHANGED <<stream, ending, skipping, out, sent, seen>>
    BY <1>8 DEF Skip
  <2>2. /\ buf' \in Seq(Bytes) /\ read' \in 0 .. Len(stream) /\ eof' \in BOOLEAN
        /\ BufferInv' /\ Used' = read - 0
        /\ \/ over' = over
           \/ over' = "error" /\ ending = "error" /\ read = Len(stream)
    <3> DEFINE kept == <<>>
    <3>1. kept \in Seq(Bytes) /\ Len(kept) = 0 /\ Fill(kept)
      BY <2>1, EmptySeq
    <3> HIDE DEF kept
    <3>2. Len(kept) <= read /\ Len(kept) <= MaxLine /\ read - Len(kept) = read - 0
      BY <1>1, <1>2, <3>1
    <3>3. \A j \in 1 .. Len(kept) : kept[j] = stream[read - Len(kept) + j]
      BY <3>1
    <3> QED
      BY <2>1, <3>1, <3>2, <3>3, FillKeeps
  <2>3. VerdictInv' /\ OutInv' /\ Begin' = Begin
    BY <2>1, LineGoesOn
  <2>4. \A j \in Begin + 1 .. read : stream[j] # Newline
    BY <1>6, <2>1
  <2>5. /\ Used' = read /\ Begin \in 0 .. read /\ Begin + MaxLine < read
    BY <1>1, <1>2, <1>3, <2>2
  <2>6. LineInv'
    BY <1>3, <2>1, <2>3, <2>4, <2>5 DEF LineInv
  <2>7. OverInv'
    BY <1>3, <2>1, <2>2, <2>3, <2>4 DEF OverInv
  <2>8. TypeOK'
    BY <1>3, <2>1, <2>2 DEF TypeOK
  <2> QED
    BY <2>2, <2>3, <2>6, <2>7, <2>8
<1> QED
  BY <1>5, <1>7, <1>8

LEMMA FilterLine ==
  ASSUME TypeOK, FilterInv, ReturnLine \/ BeginSkip \/ ReturnLastLine \/ ReturnEOF \/ ReadMore
  PROVE  TypeOK' /\ FilterInv'
<1> USE DEF FilterInv
<1>1. /\ stream \in Seq(Bytes) /\ Len(stream) \in Nat /\ read \in 0 .. Len(stream) /\ read \in Nat
      /\ buf \in Seq(Bytes) /\ Len(buf) \in Nat /\ DOMAIN buf = 1 .. Len(buf)
      /\ Begin \in Nat /\ Used \in Nat /\ Used = read - Len(buf)
  BY StreamTypes, BeginTypes DEF BufferInv, Used
<1>2. MaxLine \in Nat /\ MaxRead \in Nat
  BY StdinFilterAssumption
<1>3. ~ skipping /\ over = "no" /\ out = <<>> /\ Begin = Used
  BY DEF ReturnLine, BeginSkip, ReturnLastLine, ReturnEOF, ReadMore, Reading, LineInv
<1>4. \A j \in 1 .. Len(buf) : buf[j] = stream[Used + j]
  BY DEF BufferInv
<1>5. ASSUME NoNewline
      PROVE  \A j \in Begin + 1 .. read : stream[j] # Newline
  <2>1. \A j \in Begin + 1 .. Used : stream[j] # Newline
    BY <1>1, <1>3
  <2> QED
    BY <1>1, <1>5, <2>1, NoNewlineUpTo
<1>6. ASSUME ReturnLine PROVE TypeOK' /\ FilterInv'
  <2>1. PICK k \in 1 .. Len(buf) :
          /\ NewlineAt(k) /\ buf' = SubSeq(buf, k + 1, Len(buf))
          /\ read' = read /\ Read(SubSeq(buf, 1, k - 1))
    BY <1>1, <1>6 DEF ReturnLine
  <2>2. UNCHANGED <<stream, ending, skipping, eof, sent, over>> /\ skipping' = FALSE
    <3>1. UNCHANGED <<stream, ending, skipping, eof, sent, over>>
      BY <1>6 DEF ReturnLine
    <3> QED
      BY <1>3, <3>1 DEF TypeOK
  <2> DEFINE line == SubSeq(buf, 1, k - 1)
             c == k - 1
  <2>3. buf' \in Seq(Bytes) /\ Used' = Used + k /\ BufferInv'
    BY <2>1, <2>2, RestOfBuffer
  <2>4. c \in 0 .. Len(buf) /\ 1 \in 1 .. Len(buf) + 1 /\ c \in Nat /\ (IF 1 <= c THEN 1 + c - 1 ELSE 0) = c
    BY <1>1
  <2> HIDE DEF c
  <2>5. /\ SubSeq(buf, 1, c) = SubSeq(stream, Used + 1, Used + c)
        /\ SubSeq(buf, 1, c) \in Seq(Bytes) /\ Len(SubSeq(buf, 1, c)) = IF 1 <= c THEN 1 + c - 1 ELSE 0
    BY <2>4, BufferIsStream
  <2>6. line = SubSeq(stream, Used + 1, Used + c) /\ line \in Seq(Bytes) /\ Len(line) = c
    <3>1. line = SubSeq(buf, 1, c)
      BY DEF c
    <3>2. Len(SubSeq(buf, 1, c)) = c
      <4>1. Len(SubSeq(buf, 1, c)) = IF 1 <= c THEN 1 + c - 1 ELSE 0
        BY <2>5
      <4> HIDE DEF line
      <4> QED
        BY <2>4, <4>1
    <3> QED
      BY <2>5, <3>1, <3>2, Zenon
  <2>7. Read(line)
    BY <2>1
  <2> HIDE DEF line
  <2>8. /\ out' = (IF Screen(line) = "passed" THEN Append(line, Newline) ELSE <<>>)
        /\ Judge(Screen(line)) /\ Screen(line) \in Verdicts
    BY <2>7, ScreenTypes DEF Read
  <2>9. Len(line) < MaxLine + MaxRead
    BY <1>1, <1>2, <2>6 DEF BufferInv, c
  <2>10. Begin < Used' /\ Used' <= read /\ Used' - 1 = Used + c
    BY <1>1, <1>3, <2>3 DEF c
  <2>11. stream[Used'] = Newline /\ \A j \in Begin + 1 .. Used' - 1 : stream[j] # Newline
    <3>1. stream[Used + k] = Newline
      BY <1>4, <2>1 DEF NewlineAt
    <3>2. ASSUME NEW j \in Begin + 1 .. Used' - 1 PROVE stream[j] # Newline
      <4>1. j - Used \in 1 .. k - 1 /\ j - Used \in 1 .. Len(buf) /\ Used + (j - Used) = j
        BY <1>1, <1>3, <2>10 DEF c
      <4> QED
        BY <1>4, <2>1, <4>1 DEF NewlineAt
    <3> QED
      BY <2>3, <3>1, <3>2
  <2>12. line = SubSeq(stream, Begin + 1, IF stream[Used'] = Newline THEN Used' - 1 ELSE Used')
    BY <1>3, <2>6, <2>10, <2>11, Zenon
  <2> QED
    BY <1>3, <2>1, <2>2, <2>3, <2>6, <2>8, <2>9, <2>10, <2>11, <2>12, LineJudged
<1>7. ASSUME BeginSkip PROVE TypeOK' /\ FilterInv'
  <2>1. /\ NoNewline /\ Len(buf) > MaxLine /\ buf' = <<>> /\ skipping' = TRUE
        /\ UNCHANGED <<stream, ending, read, eof, out, sent, over, seen>>
    BY <1>7 DEF BeginSkip
  <2>2. buf' \in Seq(Bytes) /\ Used' = read /\ BufferInv'
    BY <2>1, EmptyBuffer
  <2>3. VerdictInv' /\ OutInv' /\ Begin' = Begin
    BY <2>1, LineGoesOn
  <2>4. Begin \in 0 .. read /\ Begin + MaxLine < read
    BY <1>1, <1>2, <1>3, <2>1
  <2>5. \A j \in Begin + 1 .. read : stream[j] # Newline
    BY <1>5, <2>1
  <2>6. LineInv' /\ OverInv'
    BY <1>3, <2>1, <2>2, <2>3, <2>4, <2>5 DEF LineInv, OverInv
  <2>7. TypeOK'
    BY <2>1, <2>2 DEF TypeOK
  <2> QED
    BY <2>2, <2>3, <2>6, <2>7
<1>8. ASSUME ReturnLastLine PROVE TypeOK' /\ FilterInv'
  <2>1. /\ NoNewline /\ Len(buf) <= MaxLine /\ eof /\ buf # <<>>
        /\ buf' = <<>> /\ read' = read /\ Read(buf)
        /\ UNCHANGED <<stream, ending, skipping, eof, sent, over>>
    BY <1>8 DEF ReturnLastLine
  <2>2. skipping' = FALSE
    BY <1>3, <2>1 DEF TypeOK
  <2>3. buf' \in Seq(Bytes) /\ Used' = read /\ BufferInv'
    BY <2>1, EmptyBuffer
  <2>4. read = Len(stream) /\ ending = "eof"
    BY <2>1 DEF BufferInv
  <2>5. Len(buf) \in Nat \ {0}
    BY <1>1, <2>1, EmptySeq
  <2>6. Begin < read /\ read \in Begin + 1 .. read
    BY <1>1, <1>3, <2>5
  <2>7. /\ \A j \in Begin + 1 .. read - 1 : stream[j] # Newline
        /\ stream[read] # Newline
    BY <1>1, <1>5, <2>1, <2>6
  <2>8. /\ out' = (IF Screen(buf) = "passed" THEN Append(buf, Newline) ELSE <<>>)
        /\ Judge(Screen(buf)) /\ Screen(buf) \in Verdicts
    BY <2>1, ScreenTypes DEF Read
  <2>9. Len(buf) < MaxLine + MaxRead
    BY <1>1, <2>1, StdinFilterAssumption
  <2>10. buf = SubSeq(stream, Begin + 1, read)
    <3>1. Len(buf) \in 0 .. Len(buf) /\ 1 \in 1 .. Len(buf) + 1 /\ Used + Len(buf) = read
      BY <1>1
    <3>2. SubSeq(buf, 1, Len(buf)) = SubSeq(stream, Used + 1, Used + Len(buf))
      BY <3>1, BufferIsStream
    <3>3. SubSeq(buf, 1, Len(buf)) = buf
      BY <1>1, SubSeqFull
    <3> QED
      BY <1>3, <3>1, <3>2, <3>3, Zenon
  <2>11. buf = SubSeq(stream, Begin + 1, IF stream[Used'] = Newline THEN Used' - 1 ELSE Used')
    BY <2>3, <2>7, <2>10, Zenon
  <2>12. /\ Begin < Used' /\ Used' <= read
         /\ \A j \in Begin + 1 .. Used' - 1 : stream[j] # Newline
         /\ Used' = Len(stream) /\ ending = "eof"
    BY <1>1, <2>3, <2>4, <2>6, <2>7
  <2> QED
    BY <1>1, <1>3, <2>1, <2>2, <2>3, <2>8, <2>9, <2>11, <2>12, LineJudged
<1>9. ASSUME ReturnEOF PROVE TypeOK' /\ FilterInv'
  <2>1. /\ eof /\ buf = <<>> /\ over' = "eof"
        /\ UNCHANGED <<stream, ending, read, buf, skipping, eof, out, sent, seen>>
    BY <1>9 DEF ReturnEOF, reader
  <2>2. VerdictInv' /\ OutInv' /\ Begin' = Begin
    BY <2>1, LineGoesOn
  <2>3. Len(buf) = 0 /\ read = Len(stream)
    BY <2>1, EmptySeq DEF BufferInv
  <2>4. Begin = Len(stream)
    BY <1>1, <1>3, <2>3
  <2>5. \A j \in Begin' + 1 .. Len(stream') : FALSE
    BY <1>1, <2>1, <2>2, <2>4
  <2>6. OverInv'
    BY <2>5 DEF OverInv
  <2>7. BufferInv' /\ LineInv' /\ TypeOK'
    BY <2>1, <2>2 DEF BufferInv, LineInv, Used, TypeOK
  <2> QED
    BY <2>2, <2>6, <2>7
<1>10. ASSUME ReadMore PROVE TypeOK' /\ FilterInv'
  <2>1. /\ NoNewline /\ Len(buf) <= MaxLine /\ ~ eof /\ Fill(buf)
        /\ UNCHANGED <<stream, ending, skipping, out, sent, seen>>
    BY <1>10 DEF ReadMore
  <2>2. /\ buf' \in Seq(Bytes) /\ read' \in 0 .. Len(stream) /\ eof' \in BOOLEAN
        /\ BufferInv' /\ Used' = read - Len(buf)
        /\ \/ over' = over
           \/ over' = "error" /\ ending = "error" /\ read = Len(stream)
    <3>1. Len(buf) <= read /\ \A j \in 1 .. Len(buf) : buf[j] = stream[read - Len(buf) + j]
      BY <1>1, <1>4 DEF BufferInv
    <3> QED
      BY <1>1, <2>1, <3>1, FillKeeps
  <2>3. VerdictInv' /\ OutInv' /\ Begin' = Begin
    BY <2>1, LineGoesOn
  <2>4. \A j \in Begin + 1 .. read : stream[j] # Newline
    BY <1>5, <2>1
  <2>5. LineInv'
    BY <1>1, <1>3, <2>1, <2>2, <2>3 DEF LineInv
  <2>6. OverInv'
    BY <1>3, <2>1, <2>2, <2>3, <2>4 DEF OverInv
  <2>7. TypeOK'
    BY <1>3, <2>1, <2>2 DEF TypeOK
  <2> QED
    BY <2>2, <2>3, <2>5, <2>6, <2>7
<1> QED
  BY <1>6, <1>7, <1>8, <1>9, <1>10

\* What the SDK takes it has been given, or is being given, before.
LEMMA FilterDrain ==
  ASSUME TypeOK, FilterInv, Drain
  PROVE  TypeOK' /\ FilterInv'
<1>1. /\ out \in Seq(Output) /\ Len(out) \in Nat /\ sent \in Seq(Output) /\ Len(sent) \in Nat
      /\ Len(seen) \in Nat
  BY StreamTypes
<1>2. UNCHANGED <<stream, ending, read, buf, skipping, eof, over, seen>>
  BY DEF Drain, reader
<1>3. PICK n \in 1 .. Len(out) :
        sent' = sent \o SubSeq(out, 1, n) /\ out' = SubSeq(out, n + 1, Len(out))
  BY DEF Drain
<1> DEFINE first == SubSeq(out, 1, n)
           rest == SubSeq(out, n + 1, Len(out))
<1>4. first \in Seq(Output) /\ rest \in Seq(Output) /\ first \o rest = out
  <2>1. \A i \in 1 .. Len(out) : out[i] \in Output
    BY <1>1, ElementOfSeq
  <2>2. first \in Seq(Output)
    BY <1>1, <2>1, SubSeqProperties
  <2>3. rest \in Seq(Output)
    BY <1>1, <2>1, SubSeqProperties
  <2>4. first \o rest = SubSeq(out, 1, Len(out))
    BY <1>1, ConcatAdjacentSubSeq
  <2> QED
    BY <1>1, <2>2, <2>3, <2>4, SubSeqFull
<1> HIDE DEF first, rest
<1>5. sent' = sent \o first /\ out' = rest
  BY <1>3 DEF first, rest
<1>6. sent' \in Seq(Output) /\ out' \in Seq(Output) /\ sent' \o out' = sent \o out
  <2>1. sent \o first \in Seq(Output)
    BY <1>1, <1>4, ConcatProperties
  <2>2. (sent \o first) \o rest = sent \o (first \o rest)
    <3>1. \A s, t, u \in Seq(Output) : (s \o t) \o u = s \o (t \o u)
      BY ConcatAssociative, SMTT(30)
    <3> QED
      BY <1>1, <1>4, <3>1, Zenon
  <2> QED
    BY <1>4, <1>5, <2>1, <2>2, Zenon
<1>7. Len(sent') + Len(out') = Len(sent) + Len(out)
  BY <1>1, <1>6, ConcatProperties
<1>8. OutInv'
  BY <1>2, <1>7 DEF FilterInv, OutInv, OutFrom
<1>9. VerdictInv'
  <2> SUFFICES ASSUME NEW k \in DOMAIN seen PROVE JudgedAlone(k)'
    BY <1>2 DEF VerdictInv
  <2>1. Given(k)' = Given(k)
    BY <1>2, <1>6 DEF Given, OutFrom
  <2> QED
    BY <1>2, <2>1 DEF FilterInv, VerdictInv, JudgedAlone, IsALine, LineAt, From
<1>10. BufferInv' /\ LineInv' /\ OverInv'
  BY <1>2 DEF FilterInv, BufferInv, LineInv, OverInv, Used, Begin, From
<1>11. TypeOK'
  BY <1>2, <1>6 DEF TypeOK, Output
<1> QED
  BY <1>8, <1>9, <1>10, <1>11 DEF FilterInv

\* The filter's steps keep its invariant.
LEMMA FilterStep == TypeOK /\ FilterInv /\ [FilterNext]_streamVars => TypeOK' /\ FilterInv'
<1> SUFFICES ASSUME TypeOK, FilterInv, [FilterNext]_streamVars PROVE TypeOK' /\ FilterInv'
  OBVIOUS
<1>1. CASE UNCHANGED streamVars
  <2>1. UNCHANGED <<stream, ending, read, buf, skipping, eof, out, sent, over, seen>>
    BY <1>1 DEF streamVars, reader
  <2>2. VerdictInv' /\ OutInv' /\ Begin' = Begin
    BY <2>1, LineGoesOn
  <2>3. BufferInv' /\ LineInv' /\ OverInv'
    BY <2>1, <2>2 DEF FilterInv, BufferInv, LineInv, OverInv, Used
  <2> QED
    BY <2>1, <2>2, <2>3 DEF TypeOK, FilterInv
<1>2. CASE EndSkip \/ EndSkipAtEOF \/ Skip
  BY <1>2, FilterSkip
<1>3. CASE ReturnLine \/ BeginSkip \/ ReturnLastLine \/ ReturnEOF \/ ReadMore
  BY <1>3, FilterLine
<1>4. CASE Drain
  BY <1>4, FilterDrain
<1> QED
  BY <1>1, <1>2, <1>3, <1>4 DEF FilterNext, ReadLine

LEMMA FilterInvariant == FilterSpec => [](TypeOK /\ FilterInv)
<1>1. FilterInit => TypeOK /\ FilterInv
  BY FilterBegins
<1>2. TypeOK /\ FilterInv /\ [FilterNext]_streamVars => (TypeOK /\ FilterInv)'
  BY FilterStep
<1> QED
  BY <1>1, <1>2, PTL DEF FilterSpec

LEMMA FilterConclusion == TypeOK /\ FilterInv => LinesAreJudgedAlone
<1> SUFFICES ASSUME TypeOK, FilterInv PROVE LinesAreJudgedAlone
  OBVIOUS
<1> QED
  BY DEF FilterInv, VerdictInv, OverInv, Begin, LinesAreJudgedAlone

\* StdinFilter: whatever arrives at leonard-mcp's standard input, in pieces of
\* whatever size, and however the SDK takes it, every line of it is judged as it
\* would be alone, a request reaches the SDK whole and nothing else does, and a
\* line over the cap takes no other with it.
THEOREM StdinIsFiltered == FilterSpec => []LinesAreJudgedAlone
<1>1. TypeOK /\ FilterInv => LinesAreJudgedAlone
  BY FilterConclusion
<1> QED
  BY <1>1, FilterInvariant, PTL

-----------------------------------------------------------------------------
(* Flattened sequences                                                     *)

LEMMA LeastNatural ==
  ASSUME NEW T \in SUBSET Nat, T # {}
  PROVE  \E m \in T : \A k \in T : m <= k
<1>1. IsWellFoundedOn(OpToRel(<, Nat), Nat)
  BY NatLessThanWellFounded
<1>2. PICK m \in T : \A y \in T : ~ (<<y, m>> \in OpToRel(<, Nat))
  BY <1>1, WFMin, T \subseteq Nat
<1>3. \A y \in T : ~ (y < m)
  BY <1>2 DEF OpToRel
<1> QED
  BY <1>3

\* Induction over the numbers in T.
LEMMA NatInductive ==
  ASSUME NEW T \in SUBSET Nat, 0 \in T, \A n \in T : n + 1 \in T
  PROVE  T = Nat
<1> SUFFICES ASSUME T # Nat PROVE FALSE
  OBVIOUS
<1>1. PICK m \in Nat \ T : \A k \in Nat \ T : m <= k
  BY LeastNatural
<1>2. m # 0 /\ m - 1 \in Nat
  BY <1>1
<1>3. m - 1 \in T
  BY <1>1, <1>2
<1> QED
  BY <1>1, <1>3

LEMMA ToSetConcat ==
  ASSUME NEW S, NEW s \in Seq(S), NEW t \in Seq(S)
  PROVE  s \o t \in Seq(S) /\ ToSet(s \o t) = ToSet(s) \cup ToSet(t)
<1>1. /\ s \o t \in Seq(S) /\ Len(s) \in Nat /\ Len(t) \in Nat
      /\ Len(s \o t) = Len(s) + Len(t)
      /\ \A i \in 1 .. Len(s) + Len(t) : (s \o t)[i] = IF i <= Len(s) THEN s[i] ELSE t[i - Len(s)]
      /\ DOMAIN s = 1 .. Len(s) /\ DOMAIN t = 1 .. Len(t) /\ DOMAIN (s \o t) = 1 .. Len(s \o t)
  BY ConcatProperties, LenProperties
<1> DEFINE w == s \o t
<1> HIDE DEF w
<1>2. ASSUME NEW i \in 1 .. Len(s) PROVE s[i] \in ToSet(w)
  <2>1. i \in DOMAIN w /\ w[i] = s[i]
    BY <1>1 DEF w
  <2> QED
    BY <2>1 DEF ToSet
<1>3. ASSUME NEW i \in 1 .. Len(t) PROVE t[i] \in ToSet(w)
  <2>1. Len(s) + i \in DOMAIN w /\ w[Len(s) + i] = t[i]
    BY <1>1 DEF w
  <2> QED
    BY <2>1 DEF ToSet
<1>4. ASSUME NEW i \in DOMAIN w PROVE w[i] \in ToSet(s) \cup ToSet(t)
  <2>1. CASE i <= Len(s)
    <3>1. i \in DOMAIN s /\ w[i] = s[i]
      BY <1>1, <2>1 DEF w
    <3> QED
      BY <3>1 DEF ToSet
  <2>2. CASE i > Len(s)
    <3>1. i - Len(s) \in DOMAIN t /\ w[i] = t[i - Len(s)]
      BY <1>1, <2>2 DEF w
    <3> QED
      BY <3>1 DEF ToSet
  <2> QED
    BY <1>1, <2>1, <2>2 DEF w
<1>5. ToSet(w) = ToSet(s) \cup ToSet(t)
  BY <1>1, <1>2, <1>3, <1>4 DEF ToSet
<1> QED
  BY <1>1, <1>5 DEF w

LEMMA NothingConcatenated ==
  ASSUME NEW S, NEW s \in Seq(S), NEW t \in Seq(S), s \o t = <<>>
  PROVE  s = <<>> /\ t = <<>>
<1>1. Len(s) \in Nat /\ Len(t) \in Nat /\ Len(s \o t) = Len(s) + Len(t)
  BY ConcatProperties, LenProperties
<1>2. Len(s \o t) = 0
  BY EmptySeq
<1>3. (s # <<>> => Len(s) # 0) /\ (t # <<>> => Len(t) # 0)
  BY EmptySeq
<1> QED
  BY <1>1, <1>2, <1>3

\* What FlattenSeq makes of sequences has their elements and no others.
LEMMA FlattenElements ==
  ASSUME NEW S, NEW seqs \in Seq(Seq(S))
  PROVE  /\ FlattenSeq(seqs) \in Seq(S)
         /\ ToSet(FlattenSeq(seqs)) = UNION {ToSet(seqs[k]) : k \in DOMAIN seqs}
<1> DEFINE N == Len(seqs)
           IsFlat(f, m) == f = [i \in 1 .. m |-> IF i = 1 THEN seqs[i] ELSE f[i - 1] \o seqs[i]]
           Flat == {m \in Nat : m <= N => \E f : IsFlat(f, m)}
<1>1. N \in Nat /\ DOMAIN seqs = 1 .. N /\ \A k \in 1 .. N : seqs[k] \in Seq(S)
  BY LenProperties, ElementOfSeq
<1>2. 0 \in Flat
  <2>1. 1 .. 0 = {}
    OBVIOUS
  <2> DEFINE f == [i \in {} |-> 0]
  <2>2. IsFlat(f, 0)
    BY <2>1
  <2> QED
    BY <2>2
<1>3. ASSUME NEW m \in Flat, m + 1 <= N PROVE \E g : IsFlat(g, m + 1)
  <2>1. m \in Nat /\ m <= N
    BY <1>1, <1>3
  <2>2. \E f : IsFlat(f, m)
    BY <1>3, <2>1, Zenon
  <2>3. PICK f : IsFlat(f, m)
    BY <2>2, Zenon
  <2> DEFINE g == [i \in 1 .. m + 1 |->
                     IF i <= m THEN f[i] ELSE IF i = 1 THEN seqs[i] ELSE f[i - 1] \o seqs[i]]
             h == [i \in 1 .. m + 1 |-> IF i = 1 THEN seqs[i] ELSE g[i - 1] \o seqs[i]]
  <2>4. ASSUME NEW i \in 1 .. m + 1 PROVE g[i] = h[i]
    <3>1. CASE i <= m
      <4>1. i \in 1 .. m /\ (i # 1 => i - 1 \in 1 .. m + 1 /\ i - 1 <= m)
        BY <2>1, <3>1
      <4>2. f[i] = IF i = 1 THEN seqs[i] ELSE f[i - 1] \o seqs[i]
        BY <2>3, <4>1
      <4>3. g[i] = f[i] /\ (i # 1 => g[i - 1] = f[i - 1])
        BY <3>1, <4>1
      <4> QED
        BY <4>2, <4>3
    <3>2. CASE i > m
      <4>1. i # 1 => i - 1 \in 1 .. m + 1 /\ i - 1 <= m
        BY <2>1, <3>2
      <4>2. i # 1 => g[i - 1] = f[i - 1]
        BY <4>1
      <4> QED
        BY <3>2, <4>2
    <3> QED
      BY <3>1, <3>2
  <2>5. g = h
    BY <2>4
  <2> HIDE DEF g
  <2>6. IsFlat(g, m + 1)
    BY <2>5
  <2> QED
    BY <2>6
<1>4. Flat = Nat
  <2>1. ASSUME NEW m \in Flat PROVE m + 1 \in Flat
    <3>1. m \in Nat /\ m + 1 \in Nat
      OBVIOUS
    <3>2. m + 1 <= N => \E g : IsFlat(g, m + 1)
      BY <1>3
    <3> QED
      BY <3>1, <3>2, Zenon
  <2> HIDE DEF Flat
  <2>2. Flat \in SUBSET Nat
    BY DEF Flat
  <2> QED
    BY <1>2, <2>1, <2>2, NatInductive
<1>5. PICK e : IsFlat(e, N)
  <2>1. N <= N
    BY <1>1
  <2>2. \E f : IsFlat(f, N)
    BY <1>1, <1>4, <2>1, ZenonT(40)
  <2> QED
    BY <2>2, Zenon
<1> DEFINE flatten == CHOOSE f : IsFlat(f, N)
<1>6. IsFlat(flatten, N)
  BY <1>5, Zenon
<1>7. N # 0 => FlattenSeq(seqs) = flatten[N]
  BY Zenon DEF FlattenSeq
<1> HIDE DEF flatten
<1>8. \A i \in 1 .. N : flatten[i] = IF i = 1 THEN seqs[i] ELSE flatten[i - 1] \o seqs[i]
  BY <1>6
<1> DEFINE Good(i) == /\ flatten[i] \in Seq(S)
                      /\ ToSet(flatten[i]) = UNION {ToSet(seqs[k]) : k \in 1 .. i}
           Upto == {m \in Nat : m + 1 <= N => Good(m + 1)}
<1>9. 0 \in Upto
  <2>1. 0 + 1 = 1 /\ 1 .. 1 = {1}
    OBVIOUS
  <2>2. 1 <= N => 1 \in 1 .. N
    BY <1>1
  <2> QED
    BY <1>1, <1>8, <2>1, <2>2
<1>10. ASSUME NEW m \in Upto PROVE m + 1 \in Upto
  <2> SUFFICES ASSUME (m + 1) + 1 <= N PROVE Good((m + 1) + 1)
    OBVIOUS
  <2> DEFINE i == (m + 1) + 1
  <2>1. Good(m + 1)
    BY <1>1, <1>10
  <2>2. i \in 1 .. N /\ i # 1 /\ i - 1 = m + 1 /\ 1 .. i = (1 .. m + 1) \cup {i}
    BY <1>1
  <2>3. flatten[i] = flatten[m + 1] \o seqs[i]
    BY <1>8, <2>2
  <2>4. /\ flatten[i] \in Seq(S)
        /\ ToSet(flatten[i]) = ToSet(flatten[m + 1]) \cup ToSet(seqs[i])
    BY <1>1, <2>1, <2>2, <2>3, ToSetConcat
  <2> HIDE DEF i
  <2>5. UNION {ToSet(seqs[k]) : k \in 1 .. i}
          = (UNION {ToSet(seqs[k]) : k \in 1 .. m + 1}) \cup ToSet(seqs[i])
    BY <2>2
  <2> QED
    BY <2>1, <2>4, <2>5 DEF i
<1>11. Upto = Nat
  <2>1. Upto \in SUBSET Nat
    OBVIOUS
  <2> HIDE DEF Upto
  <2> QED
    BY <1>9, <1>10, <2>1, NatInductive
<1>12. CASE N = 0
  <2>1. seqs = <<>>
    BY <1>1, <1>12, EmptySeq
  <2>2. FlattenSeq(seqs) = seqs
    BY <1>12, Zenon DEF FlattenSeq
  <2>3. DOMAIN seqs = {} /\ <<>> \in Seq(S)
    BY <1>1, <1>12
  <2>4. ToSet(FlattenSeq(seqs)) = {}
    BY <2>2, <2>3, Zenon DEF ToSet
  <2>5. UNION {ToSet(seqs[k]) : k \in DOMAIN seqs} = {}
    BY <2>3, Zenon
  <2> QED
    BY <2>1, <2>2, <2>3, <2>4, <2>5, Zenon
<1>13. CASE N # 0
  <2>1. N - 1 \in Nat /\ (N - 1) + 1 = N /\ (N - 1) + 1 <= N
    BY <1>1, <1>13
  <2>2. N - 1 \in Upto
    BY <1>11, <2>1, Zenon
  <2>3. Good(N)
    BY <2>1, <2>2
  <2> QED
    BY <1>1, <1>7, <1>13, <2>3
<1> QED
  BY <1>12, <1>13

-----------------------------------------------------------------------------
(* Recursion over 0 .. N                                                   *)

LEMMA UpTo ==
  ASSUME NEW N \in Nat, NEW T, 0 \in T, \A n \in 1 .. N : n - 1 \in T => n \in T
  PROVE  \A n \in 0 .. N : n \in T
<1> DEFINE U == {n \in Nat : n <= N => n \in T}
<1>1. 0 \in U
  OBVIOUS
<1>2. ASSUME NEW n \in U PROVE n + 1 \in U
  <2> SUFFICES ASSUME n + 1 <= N PROVE n + 1 \in T
    OBVIOUS
  <2>1. n + 1 \in 1 .. N /\ (n + 1) - 1 = n /\ n <= N
    OBVIOUS
  <2> QED
    BY <2>1
<1>3. U \in SUBSET Nat
  OBVIOUS
<1> HIDE DEF U
<1>4. U = Nat
  BY <1>1, <1>2, <1>3, NatInductive
<1> QED
  BY <1>4 DEF U

\* A function that takes its value at n from the one at n - 1.
Recursive(g, base, step, N) ==
  g = [n \in 0 .. N |-> IF n = 0 THEN base ELSE step[<<g[n - 1], n>>]]

LEMMA RecursionExists ==
  ASSUME NEW X, NEW base \in X, NEW N \in Nat, NEW step \in [X \X (1 .. N) -> X]
  PROVE  \E g : Recursive(g, base, step, N) /\ \A n \in 0 .. N : g[n] \in X
<1> DEFINE Is(g, m) == /\ g = [n \in 0 .. m |-> IF n = 0 THEN base ELSE step[<<g[n - 1], n>>]]
                       /\ \A n \in 0 .. m : g[n] \in X
           T == {m \in 0 .. N : \E g : Is(g, m)}
<1>1. 0 \in T
  <2> DEFINE g == [n \in 0 .. 0 |-> base]
             h == [n \in 0 .. 0 |-> IF n = 0 THEN base ELSE step[<<g[n - 1], n>>]]
  <2>1. \A n \in 0 .. 0 : n = 0
    OBVIOUS
  <2>2. g = h /\ \A n \in 0 .. 0 : g[n] \in X
    BY <2>1
  <2> HIDE DEF g
  <2>3. Is(g, 0)
    BY <2>2
  <2> QED
    BY <2>3
<1>2. ASSUME NEW m \in 1 .. N, m - 1 \in T PROVE m \in T
  <2>1. PICK f : Is(f, m - 1)
    BY <1>2
  <2> DEFINE g == [n \in 0 .. m |-> IF n = m THEN step[<<f[m - 1], m>>] ELSE f[n]]
             h == [n \in 0 .. m |-> IF n = 0 THEN base ELSE step[<<g[n - 1], n>>]]
  <2>2. f[m - 1] \in X /\ m - 1 \in 0 .. m - 1 /\ m \in Nat
    BY <1>2, <2>1
  <2>3. \A n \in 0 .. m - 1 : g[n] = f[n]
    BY <2>2
  <2>4. ASSUME NEW n \in 0 .. m PROVE g[n] = h[n] /\ g[n] \in X
    <3>1. CASE n = m
      <4>1. g[n - 1] = f[m - 1] /\ n # 0
        BY <2>2, <2>3, <3>1
      <4>2. step[<<f[m - 1], m>>] \in X
        BY <2>2
      <4> QED
        BY <3>1, <4>1, <4>2
    <3>2. CASE n # m
      <4>1. n \in 0 .. m - 1 /\ (n # 0 => n - 1 \in 0 .. m - 1)
        BY <2>2, <3>2
      <4>2. f[n] = (IF n = 0 THEN base ELSE step[<<f[n - 1], n>>]) /\ f[n] \in X
        BY <2>1, <4>1
      <4>3. g[n] = f[n] /\ (n # 0 => g[n - 1] = f[n - 1])
        BY <2>3, <4>1
      <4> QED
        BY <4>2, <4>3
    <3> QED
      BY <3>1, <3>2
  <2>5. g = h
    BY <2>4
  <2> HIDE DEF g
  <2>6. Is(g, m)
    BY <2>4, <2>5
  <2>7. m \in 0 .. N
    OBVIOUS
  <2> HIDE DEF Is
  <2> QED
    BY <2>6, <2>7, Zenon
<1> HIDE DEF T
<1>3. N \in 0 .. N /\ \A n \in 0 .. N : n \in T
  BY <1>1, <1>2, UpTo
<1>4. N \in T
  BY <1>3
<1> QED
  BY <1>4, Zenon DEF T, Recursive

-----------------------------------------------------------------------------
(* The doctor's findings                                                   *)

Findings ==
  {Finding(s, a) : s \in {"SECURITY", "warn"},
                   a \in {"matcher", "Bash", "pre-edit", "post-edit", "mcpServers"}}

\* A selection from a sequence has the elements that are selected.
LEMMA OfSeverityElements ==
  ASSUME NEW found \in Seq(Findings), NEW severity
  PROVE  /\ OfSeverity(found, severity) \in Seq(Findings)
         /\ ToSet(OfSeverity(found, severity)) = {f \in ToSet(found) : f.severity = severity}
<1> DEFINE parts == [k \in DOMAIN found |->
                       IF found[k].severity = severity THEN << found[k] >> ELSE <<>>]
<1>1. Len(found) \in Nat /\ DOMAIN found = 1 .. Len(found) /\ \A k \in 1 .. Len(found) : found[k] \in Findings
  BY LenProperties, ElementOfSeq
<1>2. \A k \in 1 .. Len(found) : parts[k] \in Seq(Findings)
  BY <1>1
<1>3. parts \in Seq(Seq(Findings)) /\ DOMAIN parts = DOMAIN found
  BY <1>1, <1>2, IsASeq
<1>4. \A k \in DOMAIN found :
        ToSet(parts[k]) = IF found[k].severity = severity THEN {found[k]} ELSE {}
  BY DEF ToSet
<1> HIDE DEF parts
<1>5. /\ FlattenSeq(parts) \in Seq(Findings)
      /\ ToSet(FlattenSeq(parts)) = UNION {ToSet(parts[k]) : k \in DOMAIN parts}
  BY <1>3, FlattenElements
<1>6. UNION {ToSet(parts[k]) : k \in DOMAIN parts} = {f \in ToSet(found) : f.severity = severity}
  <2>1. \A f : (\E k \in DOMAIN parts : f \in ToSet(parts[k]))
                 <=> \E k \in DOMAIN found : f = found[k] /\ found[k].severity = severity
    BY <1>3, <1>4
  <2>2. \A f : f \in ToSet(found) <=> \E k \in DOMAIN found : f = found[k]
    BY Zenon DEF ToSet
  <2> DEFINE U == UNION {ToSet(parts[k]) : k \in DOMAIN parts}
             V == {f \in ToSet(found) : f.severity = severity}
  <2>3. \A f : f \in U <=> \E k \in DOMAIN parts : f \in ToSet(parts[k])
    OBVIOUS
  <2>4. \A f : f \in V <=> f \in ToSet(found) /\ f.severity = severity
    OBVIOUS
  <2> HIDE DEF U, V
  <2>5. ASSUME NEW f PROVE f \in U <=> f \in V
    <3>1. f \in U <=> \E k \in DOMAIN found : f = found[k] /\ found[k].severity = severity
      BY <2>1, <2>3, Zenon
    <3>2. f \in V <=> f.severity = severity /\ \E k \in DOMAIN found : f = found[k]
      BY <2>2, <2>4, Zenon
    <3> QED
      BY <3>1, <3>2, Zenon
  <2>6. U = V
    BY <2>5
  <2> QED
    BY <2>6 DEF U, V
<1> QED
  BY <1>5, <1>6, Zenon DEF OfSeverity, parts

\* The matchers of the groups that run the hook.
LEMMA MatchersElements ==
  ASSUME NEW groups \in Seq(Groups), NEW hook \in {"pre-edit", "post-edit"}
  PROVE  /\ \A k \in DOMAIN MatchersFor(Written(groups), hook) :
              \E g \in Ours(groups, hook) : MatchersFor(Written(groups), hook)[k] = g.matcher
         /\ \A g \in Ours(groups, hook) : g.matcher \in ToSet(MatchersFor(Written(groups), hook))
         /\ MatchersFor(Written(groups), hook) \in Seq({g.matcher : g \in Groups})
<1> DEFINE W == Written(groups)
           Ms == {g.matcher : g \in Groups}
           runs(k) == \E c \in W[k].commands : CommandInvokes(c, hook)
           parts == [k \in DOMAIN W |-> IF runs(k) THEN << W[k].matcher >> ELSE <<>>]
<1>1. Len(groups) \in Nat /\ DOMAIN groups = 1 .. Len(groups) /\ \A k \in 1 .. Len(groups) : groups[k] \in Groups
  BY LenProperties, ElementOfSeq
<1>2. DOMAIN W = DOMAIN groups /\ DOMAIN parts = DOMAIN groups
  BY DEF Written
<1>3. ASSUME NEW k \in DOMAIN groups
      PROVE  W[k].matcher = groups[k].matcher /\ (runs(k) <=> \E c \in groups[k].commands : hook \in c.runs)
  <2>1. W[k].commands = {c.words : c \in groups[k].commands} /\ W[k].matcher = groups[k].matcher
    BY DEF Written
  <2>2. \A c \in groups[k].commands : CommandInvokes(c.words, hook) <=> hook \in c.runs
    BY <1>1, WiringAssumption
  <2> QED
    BY <2>1, <2>2
<1>4. \A k \in DOMAIN groups : parts[k] \in Seq(Ms)
  <2> SUFFICES ASSUME NEW k \in DOMAIN groups PROVE parts[k] \in Seq(Ms)
    OBVIOUS
  <2>1. groups[k].matcher \in Ms
    BY <1>1
  <2>2. << W[k].matcher >> \in Seq(Ms) /\ <<>> \in Seq(Ms)
    BY <1>3, <2>1
  <2> QED
    BY <1>2, <2>2
<1>5. parts \in Seq(Seq(Ms))
  BY <1>1, <1>2, <1>4, IsASeq
<1>6. \A k \in DOMAIN groups : ToSet(parts[k]) = IF runs(k) THEN {W[k].matcher} ELSE {}
  BY <1>2 DEF ToSet
<1> DEFINE M == MatchersFor(W, hook)
<1>7. M = FlattenSeq(parts)
  BY Zenon DEF MatchersFor
<1> HIDE DEF parts, M, Ms
<1>8. M \in Seq(Ms) /\ ToSet(M) = UNION {ToSet(parts[k]) : k \in DOMAIN parts}
  BY <1>5, <1>7, FlattenElements
<1>9. \A m : m \in ToSet(M) <=> \E k \in DOMAIN groups : runs(k) /\ m = W[k].matcher
  <2>1. \A m : m \in ToSet(M) <=> \E k \in DOMAIN groups : m \in ToSet(parts[k])
    BY <1>2, <1>8
  <2> HIDE DEF runs
  <2> QED
    BY <1>6, <2>1
<1>10. \A m : m \in ToSet(M) <=> \E g \in Ours(groups, hook) : m = g.matcher
  <2>1. \A g : g \in Ours(groups, hook) <=>
          \E k \in DOMAIN groups : g = groups[k] /\ \E c \in groups[k].commands : hook \in c.runs
    BY DEF Ours
  <2>2. \A k \in DOMAIN groups : W[k].matcher = groups[k].matcher
                                 /\ (runs(k) <=> \E c \in groups[k].commands : hook \in c.runs)
    BY <1>3
  <2> HIDE DEF runs, W
  <2> QED
    BY <1>9, <2>1, <2>2
<1>11. \A k \in DOMAIN M : M[k] \in ToSet(M)
  BY DEF ToSet
<1> QED
  BY <1>8, <1>10, <1>11 DEF M, Ms

\* Among the findings there is one of security.
HasSecurity(found) == \E f \in ToSet(found) : f.severity = "SECURITY"

LEMMA AboutMatcherFindings ==
  ASSUME NEW m, NEW want, NEW hook \in {"pre-edit", "post-edit"},
         hook = "post-edit" => "Bash" \notin want
  PROVE  /\ AboutMatcher(m, want, hook) \in Seq(Findings)
         /\ AboutMatcher(m, want, hook) = <<>> => Understood(m) /\ MissingTools(m, want) = {}
         /\ HasSecurity(AboutMatcher(m, want, hook))
              <=> Understood(m) /\ hook = "pre-edit" /\ "Bash" \in MissingTools(m, want)
<1> DEFINE missing == MissingTools(m, want)
           A == AboutMatcher(m, want, hook)
           bash == IF hook = "pre-edit" /\ "Bash" \in missing
                   THEN << Finding("SECURITY", "Bash") >> ELSE <<>>
           rest == IF missing \ {"Bash"} # {} THEN << Finding("warn", hook) >> ELSE <<>>
<1>1. hook = "post-edit" => "Bash" \notin missing
  BY DEF MissingTools
<1>2. /\ Finding("SECURITY", "Bash") \in Findings /\ Finding("warn", hook) \in Findings
      /\ Finding("warn", "matcher") \in Findings
  BY DEF Findings
<1>3. /\ Finding("SECURITY", "Bash").severity = "SECURITY"
      /\ Finding("warn", hook).severity = "warn" /\ Finding("warn", "matcher").severity = "warn"
  BY DEF Finding
<1> HIDE DEF missing
<1>4. CASE ~ Understood(m)
  <2>1. A = << Finding("warn", "matcher") >>
    BY <1>4, Zenon DEF AboutMatcher
  <2>2. A \in Seq(Findings) /\ A # <<>> /\ ToSet(A) = {Finding("warn", "matcher")}
    BY <1>2, <2>1 DEF ToSet
  <2> HIDE DEF A
  <2> QED
    BY <1>3, <1>4, <2>2 DEF HasSecurity, A, missing
<1>5. CASE Understood(m)
  <2>1. A = bash \o rest
    BY <1>5, Zenon DEF AboutMatcher, missing
  <2>2. bash \in Seq(Findings) /\ rest \in Seq(Findings)
    BY <1>2
  <2>3. /\ ToSet(bash) = IF hook = "pre-edit" /\ "Bash" \in missing
                         THEN {Finding("SECURITY", "Bash")} ELSE {}
        /\ ToSet(rest) = IF missing \ {"Bash"} # {} THEN {Finding("warn", hook)} ELSE {}
    BY DEF ToSet
  <2>4. /\ bash = <<>> <=> ~ (hook = "pre-edit" /\ "Bash" \in missing)
        /\ rest = <<>> <=> missing \ {"Bash"} = {}
    OBVIOUS
  <2> HIDE DEF bash, rest, A
  <2>5. A \in Seq(Findings) /\ ToSet(A) = ToSet(bash) \cup ToSet(rest)
    BY <2>1, <2>2, ToSetConcat
  <2>6. A = <<>> => bash = <<>> /\ rest = <<>>
    BY <2>1, <2>2, NothingConcatenated
  <2>7. A = <<>> => missing = {}
    BY <1>1, <2>4, <2>6
  <2>8. HasSecurity(A) <=> hook = "pre-edit" /\ "Bash" \in missing
    BY <1>3, <2>3, <2>5 DEF HasSecurity
  <2> QED
    BY <1>5, <2>5, <2>7, <2>8 DEF A, missing
<1> QED
  BY <1>4, <1>5

LEMMA AboutHookFindings ==
  ASSUME NEW groups \in Seq(Groups), NEW hook \in {"pre-edit", "post-edit"}, NEW want,
         hook = "post-edit" => "Bash" \notin want
  PROVE  LET A == AboutHook(Written(groups), hook, want)
         IN /\ A \in Seq(Findings)
            /\ A = <<>> => /\ Ours(groups, hook) # {}
                           /\ \A g \in Ours(groups, hook) :
                                Understood(g.matcher) /\ MissingTools(g.matcher, want) = {}
            /\ HasSecurity(A) <=>
                 \E g \in Ours(groups, hook) :
                   Understood(g.matcher) /\ hook = "pre-edit" /\ "Bash" \in MissingTools(g.matcher, want)
<1> DEFINE A == AboutHook(Written(groups), hook, want)
           M == MatchersFor(Written(groups), hook)
           parts == [k \in DOMAIN M |-> AboutMatcher(M[k], want, hook)]
<1>1. /\ \A k \in DOMAIN M : \E g \in Ours(groups, hook) : M[k] = g.matcher
      /\ \A g \in Ours(groups, hook) : \E k \in DOMAIN M : M[k] = g.matcher
      /\ M \in Seq({g.matcher : g \in Groups})
  <2>1. /\ \A k \in DOMAIN M : \E g \in Ours(groups, hook) : M[k] = g.matcher
        /\ \A g \in Ours(groups, hook) : g.matcher \in ToSet(M)
        /\ M \in Seq({g.matcher : g \in Groups})
    BY MatchersElements
  <2> QED
    BY <2>1, Zenon DEF ToSet
<1> HIDE DEF M
<1>2. \A k \in DOMAIN M :
        /\ parts[k] \in Seq(Findings)
        /\ parts[k] = <<>> => Understood(M[k]) /\ MissingTools(M[k], want) = {}
        /\ HasSecurity(parts[k])
             <=> Understood(M[k]) /\ hook = "pre-edit" /\ "Bash" \in MissingTools(M[k], want)
  BY AboutMatcherFindings
<1>3. DOMAIN parts = DOMAIN M
  OBVIOUS
<1>4. parts \in Seq(Seq(Findings))
  <2>1. Len(M) \in Nat /\ DOMAIN M = 1 .. Len(M)
    BY <1>1, LenProperties
  <2> QED
    BY <1>2, <2>1, IsASeq
<1>5. CASE M = <<>>
  <2>1. A = << Finding("warn", hook) >>
    BY <1>5, Zenon DEF AboutHook, M
  <2>2. Finding("warn", hook) \in Findings /\ Finding("warn", hook).severity = "warn"
    BY DEF Findings, Finding
  <2>3. A \in Seq(Findings) /\ A # <<>> /\ ToSet(A) = {Finding("warn", hook)}
    BY <2>1, <2>2 DEF ToSet
  <2>4. Ours(groups, hook) = {}
    <3>1. DOMAIN M = {}
      BY <1>5
    <3> QED
      BY <1>1, <3>1, Zenon
  <2> HIDE DEF A
  <2> QED
    BY <2>2, <2>3, <2>4 DEF HasSecurity, A
<1>6. CASE M # <<>>
  <2>1. A = FlattenSeq(parts)
    BY <1>6, Zenon DEF AboutHook, M
  <2> HIDE DEF A, parts
  <2>2. A \in Seq(Findings) /\ ToSet(A) = UNION {ToSet(parts[k]) : k \in DOMAIN parts}
    BY <1>4, <2>1, FlattenElements
  <2>3. HasSecurity(A) <=> \E k \in DOMAIN M : HasSecurity(parts[k])
    BY <1>3, <2>2, Zenon DEF HasSecurity
  <2>4. A = <<>> => \A k \in DOMAIN M : parts[k] = <<>>
    <3> SUFFICES ASSUME A = <<>>, NEW k \in DOMAIN M, parts[k] # <<>> PROVE FALSE
      OBVIOUS
    <3>1. Len(parts[k]) \in Nat \ {0} /\ DOMAIN parts[k] = 1 .. Len(parts[k])
      BY <1>2, EmptySeq, LenProperties
    <3>2. 1 \in DOMAIN parts[k]
      BY <3>1
    <3>3. ToSet(parts[k]) # {}
      BY <3>2, Zenon DEF ToSet
    <3>4. ToSet(A) = {}
      <4>1. DOMAIN <<>> = {}
        OBVIOUS
      <4> QED
        BY <4>1, Zenon DEF ToSet
    <3> QED
      BY <1>3, <2>2, <3>3, <3>4, Zenon
  <2>5. Ours(groups, hook) # {}
    <3>1. Len(M) \in Nat \ {0} /\ DOMAIN M = 1 .. Len(M)
      BY <1>1, <1>6, EmptySeq, LenProperties
    <3>2. 1 \in DOMAIN M
      BY <3>1
    <3> QED
      BY <1>1, <3>2
  <2>6. A = <<>> => \A g \in Ours(groups, hook) :
                      Understood(g.matcher) /\ MissingTools(g.matcher, want) = {}
    BY <1>1, <1>2, <2>4
  <2>7. HasSecurity(A) <=>
          \E g \in Ours(groups, hook) :
            Understood(g.matcher) /\ hook = "pre-edit" /\ "Bash" \in MissingTools(g.matcher, want)
    BY <1>1, <1>2, <2>3
  <2> QED
    BY <2>2, <2>5, <2>6, <2>7 DEF A
<1> QED
  BY <1>5, <1>6

\* The findings on the two hooks, and all of them.
PreFindings(file) == AboutHook(Written(file.pre), "pre-edit", RequiredPreEditTools)
PostFindings(file) == AboutHook(Written(file.post), "post-edit", RequiredPostEditTools)
FoundIn(file) == Found([file EXCEPT !.pre = Written(@), !.post = Written(@)])

LEMMA FoundFindings ==
  ASSUME NEW file \in WiringFiles
  PROVE  /\ FoundIn(file) \in Seq(Findings)
         /\ FoundIn(file) = <<>> =>
              ~ file.mcpServers /\ PreFindings(file) = <<>> /\ PostFindings(file) = <<>>
         /\ HasSecurity(FoundIn(file))
              <=> HasSecurity(PreFindings(file)) \/ HasSecurity(PostFindings(file))
<1> DEFINE pre == PreFindings(file)
           post == PostFindings(file)
           found == FoundIn(file)
<1>1. /\ file.pre \in Seq(Groups) /\ file.post \in Seq(Groups) /\ file.mcpServers \in BOOLEAN
      /\ file \in [state : {"ok", "missing", "unreadable", "invalid"},
                   mcpServers : BOOLEAN, pre : Seq(Groups), post : Seq(Groups)]
  BY WiringAssumption
<1>2. "Bash" \notin RequiredPostEditTools
  BY DEF RequiredPostEditTools
<1>3. pre \in Seq(Findings) /\ post \in Seq(Findings)
  BY <1>1, <1>2, AboutHookFindings DEF PreFindings, PostFindings
<1> DEFINE mcp == IF file.mcpServers THEN << Finding("warn", "mcpServers") >> ELSE <<>>
           g == [file EXCEPT !.pre = Written(@), !.post = Written(@)]
<1>4. g.mcpServers = file.mcpServers /\ g.pre = Written(file.pre) /\ g.post = Written(file.post)
  BY <1>1
<1> HIDE DEF g
<1>5. found = mcp \o pre \o post
  BY <1>4, Zenon DEF Found, FoundIn, PreFindings, PostFindings, g
<1> HIDE DEF pre, post, found
<1>6. Finding("warn", "mcpServers") \in Findings /\ Finding("warn", "mcpServers").severity = "warn"
  BY DEF Findings, Finding
<1>7. /\ mcp \in Seq(Findings) /\ (mcp = <<>> => ~ file.mcpServers)
      /\ ToSet(mcp) \subseteq {Finding("warn", "mcpServers")}
  BY <1>1, <1>6 DEF ToSet
<1> HIDE DEF mcp
<1>8. /\ mcp \o pre \in Seq(Findings) /\ ToSet(mcp \o pre) = ToSet(mcp) \cup ToSet(pre)
  BY <1>3, <1>7, ToSetConcat
<1>9. /\ found \in Seq(Findings) /\ ToSet(found) = ToSet(mcp \o pre) \cup ToSet(post)
  <2> DEFINE w == mcp \o pre
  <2>1. w \in Seq(Findings) /\ found = w \o post
    BY <1>5, <1>8
  <2> HIDE DEF w
  <2>2. w \o post \in Seq(Findings) /\ ToSet(w \o post) = ToSet(w) \cup ToSet(post)
    BY <1>3, <2>1, ToSetConcat
  <2> QED
    BY <2>1, <2>2 DEF w
<1>10. HasSecurity(found) <=> HasSecurity(pre) \/ HasSecurity(post)
  BY <1>6, <1>7, <1>8, <1>9 DEF HasSecurity
<1>11. found = <<>> => mcp = <<>> /\ pre = <<>> /\ post = <<>>
  BY <1>3, <1>5, <1>7, <1>8, NothingConcatenated
<1> QED
  BY <1>3, <1>7, <1>9, <1>10, <1>11 DEF pre, post, found

\* What the doctor answers to a settings file.
LEMMA WiringAnswer ==
  ASSUME NEW file \in WiringFiles, NEW a,
         a = CheckHookWiring([file EXCEPT !.pre = Written(@), !.post = Written(@)])
  PROVE  LET security == {k \in DOMAIN a : a[k].severity = "SECURITY"}
         IN /\ a = <<>> => /\ file.state = "ok" /\ ~ file.mcpServers
                           /\ Covered(file.pre, "pre-edit", RequiredPreEditTools)
                           /\ Covered(file.post, "post-edit", RequiredPostEditTools)
            /\ \A k \in security : \A j \in 1 .. k : j \in security
            /\ file.state = "ok" =>
                 (security # {} <=> \E g \in Ours(file.pre, "pre-edit") :
                                      Understood(g.matcher) /\ ~ Fires(g, "Bash"))
<1> DEFINE g == [file EXCEPT !.pre = Written(@), !.post = Written(@)]
           security == {k \in DOMAIN a : a[k].severity = "SECURITY"}
           pre == PreFindings(file)
           post == PostFindings(file)
           found == FoundIn(file)
           first == OfSeverity(found, "SECURITY")
           rest == OfSeverity(found, "warn")
<1>1. /\ file.pre \in Seq(Groups) /\ file.post \in Seq(Groups)
      /\ file.state \in {"ok", "missing", "unreadable", "invalid"}
      /\ file \in [state : {"ok", "missing", "unreadable", "invalid"},
                   mcpServers : BOOLEAN, pre : Seq(Groups), post : Seq(Groups)]
  BY WiringAssumption
<1>2. g.state = file.state
  BY <1>1
<1> HIDE DEF g
<1>3. CASE file.state # "ok"
  <2>1. \E s \in {"info", "warn"} : a = << Finding(s, "file") >>
    BY <1>1, <1>2, <1>3, Zenon DEF CheckHookWiring, g
  <2>2. PICK s \in {"info", "warn"} : a = << Finding(s, "file") >>
    BY <2>1
  <2>3. a # <<>> /\ DOMAIN a = {1} /\ a[1].severity # "SECURITY"
    BY <2>2 DEF Finding
  <2> QED
    BY <1>3, <2>3
<1>4. CASE file.state = "ok"
  <2>1. a = first \o rest
    BY <1>2, <1>4, Zenon DEF CheckHookWiring, FoundIn, g
  <2>2. /\ found \in Seq(Findings)
        /\ found = <<>> => ~ file.mcpServers /\ pre = <<>> /\ post = <<>>
        /\ HasSecurity(found) <=> HasSecurity(pre) \/ HasSecurity(post)
    BY FoundFindings
  <2>3. /\ pre = <<>> => \A h \in Ours(file.pre, "pre-edit") :
                           Understood(h.matcher) /\ MissingTools(h.matcher, RequiredPreEditTools) = {}
        /\ pre = <<>> => Ours(file.pre, "pre-edit") # {}
        /\ HasSecurity(pre) <=>
             \E h \in Ours(file.pre, "pre-edit") :
               Understood(h.matcher) /\ "Bash" \in MissingTools(h.matcher, RequiredPreEditTools)
    BY <1>1, AboutHookFindings DEF PreFindings
  <2>4. /\ post = <<>> => \A h \in Ours(file.post, "post-edit") :
                            Understood(h.matcher) /\ MissingTools(h.matcher, RequiredPostEditTools) = {}
        /\ post = <<>> => Ours(file.post, "post-edit") # {}
        /\ ~ HasSecurity(post)
    <3>1. "Bash" \notin RequiredPostEditTools
      BY DEF RequiredPostEditTools
    <3> QED
      BY <1>1, <3>1, AboutHookFindings DEF PostFindings
  <2> HIDE DEF found, pre, post
  <2>5. /\ first \in Seq(Findings) /\ ToSet(first) = {f \in ToSet(found) : f.severity = "SECURITY"}
        /\ rest \in Seq(Findings) /\ ToSet(rest) = {f \in ToSet(found) : f.severity = "warn"}
    BY <2>2, OfSeverityElements
  <2> HIDE DEF first, rest
  <2>6. /\ a \in Seq(Findings) /\ Len(first) \in Nat /\ Len(rest) \in Nat
        /\ Len(a) = Len(first) + Len(rest) /\ DOMAIN a = 1 .. Len(a)
        /\ \A k \in 1 .. Len(first) + Len(rest) :
             a[k] = IF k <= Len(first) THEN first[k] ELSE rest[k - Len(first)]
    <3>1. /\ first \o rest \in Seq(Findings) /\ Len(first \o rest) = Len(first) + Len(rest)
          /\ \A k \in 1 .. Len(first) + Len(rest) :
               (first \o rest)[k] = IF k <= Len(first) THEN first[k] ELSE rest[k - Len(first)]
      BY <2>5, ConcatProperties
    <3>2. a \in Seq(Findings)
      BY <2>1, <3>1
    <3>3. Len(first) \in Nat /\ Len(rest) \in Nat /\ DOMAIN a = 1 .. Len(a)
      BY <2>5, <3>2, LenProperties
    <3> QED
      BY <2>1, <3>1, <3>2, <3>3, Zenon
  <2>7. /\ \A k \in 1 .. Len(first) : first[k].severity = "SECURITY"
        /\ \A k \in 1 .. Len(rest) : rest[k].severity = "warn"
    <3>1. /\ \A k \in DOMAIN first : first[k] \in ToSet(first)
          /\ \A k \in DOMAIN rest : rest[k] \in ToSet(rest)
      BY Zenon DEF ToSet
    <3>2. DOMAIN first = 1 .. Len(first) /\ DOMAIN rest = 1 .. Len(rest)
      BY <2>5, LenProperties
    <3> QED
      BY <2>5, <3>1, <3>2
  <2>8. security = 1 .. Len(first)
    <3> SUFFICES ASSUME NEW k \in 1 .. Len(first) + Len(rest)
                 PROVE  a[k].severity = "SECURITY" <=> k <= Len(first)
      BY <2>6
    <3>1. k > Len(first) => k - Len(first) \in 1 .. Len(rest)
      BY <2>6
    <3>2. k <= Len(first) => k \in 1 .. Len(first)
      BY <2>6
    <3> QED
      BY <2>6, <2>7, <3>1, <3>2
  <2>9. security # {} <=> ToSet(first) # {}
    <3>1. DOMAIN first = 1 .. Len(first)
      BY <2>5, LenProperties
    <3> QED
      BY <2>8, <3>1, Zenon DEF ToSet
  <2>10. HasSecurity(found) <=> security # {}
    <3>1. ToSet(first) # {} <=> \E f \in ToSet(found) : f.severity = "SECURITY"
      BY <2>5, Zenon
    <3> QED
      BY <2>9, <3>1 DEF HasSecurity
  <2>11. a = <<>> => found = <<>>
    <3> SUFFICES ASSUME a = <<>>, found # <<>> PROVE FALSE
      OBVIOUS
    <3>1. first = <<>> /\ rest = <<>>
      BY <2>1, <2>5, NothingConcatenated
    <3>2. ToSet(first) = {} /\ ToSet(rest) = {}
      <4>1. DOMAIN <<>> = {}
        OBVIOUS
      <4> QED
        BY <3>1, <4>1, Zenon DEF ToSet
    <3>3. Len(found) \in Nat \ {0} /\ DOMAIN found = 1 .. Len(found)
      BY <2>2, EmptySeq, LenProperties
    <3>4. 1 \in DOMAIN found /\ found[1] \in Findings
      BY <2>2, <3>3, ElementOfSeq
    <3>5. found[1] \in ToSet(found)
      BY <3>4, Zenon DEF ToSet
    <3>6. found[1].severity \in {"SECURITY", "warn"}
      BY <3>4 DEF Findings, Finding
    <3> QED
      BY <2>5, <3>2, <3>5, <3>6
  <2>12. \A h, want : MissingTools(h.matcher, want) = {t \in want : ~ Fires(h, t)}
    BY DEF MissingTools, Fires
  <2>13. a = <<>> => /\ ~ file.mcpServers
                     /\ Covered(file.pre, "pre-edit", RequiredPreEditTools)
                     /\ Covered(file.post, "post-edit", RequiredPostEditTools)
    <3> SUFFICES ASSUME a = <<>>
                 PROVE  /\ ~ file.mcpServers
                        /\ Covered(file.pre, "pre-edit", RequiredPreEditTools)
                        /\ Covered(file.post, "post-edit", RequiredPostEditTools)
      OBVIOUS
    <3>1. ~ file.mcpServers /\ pre = <<>> /\ post = <<>>
      BY <2>2, <2>11
    <3>2. Covered(file.pre, "pre-edit", RequiredPreEditTools)
      <4> SUFFICES ASSUME NEW t \in RequiredPreEditTools
                   PROVE  \E h \in Ours(file.pre, "pre-edit") : Fires(h, t)
        BY DEF Covered
      <4>1. PICK h \in Ours(file.pre, "pre-edit") : TRUE
        BY <2>3, <3>1
      <4>2. MissingTools(h.matcher, RequiredPreEditTools) = {}
        BY <2>3, <3>1
      <4> QED
        BY <2>12, <4>2
    <3>3. Covered(file.post, "post-edit", RequiredPostEditTools)
      <4> SUFFICES ASSUME NEW t \in RequiredPostEditTools
                   PROVE  \E h \in Ours(file.post, "post-edit") : Fires(h, t)
        BY DEF Covered
      <4>1. PICK h \in Ours(file.post, "post-edit") : TRUE
        BY <2>4, <3>1
      <4>2. MissingTools(h.matcher, RequiredPostEditTools) = {}
        BY <2>4, <3>1
      <4> QED
        BY <2>12, <4>2
    <3> QED
      BY <3>1, <3>2, <3>3
  <2>14. security # {} <=> \E h \in Ours(file.pre, "pre-edit") :
                             Understood(h.matcher) /\ ~ Fires(h, "Bash")
    <3>1. "Bash" \in RequiredPreEditTools
      BY DEF RequiredPreEditTools
    <3>2. \A h : "Bash" \in MissingTools(h.matcher, RequiredPreEditTools) <=> ~ Fires(h, "Bash")
      BY <2>12, <3>1
    <3> QED
      BY <2>2, <2>3, <2>4, <2>10, <3>2
  <2>15. \A k \in security : \A j \in 1 .. k : j \in security
    BY <2>6, <2>8
  <2> QED
    BY <1>4, <2>13, <2>14, <2>15, Zenon
<1> QED
  BY <1>1, <1>3, <1>4

\* What was answered is the doctor's answer to the settings examined.
AnswerTo(file) == CheckHookWiring([file EXCEPT !.pre = Written(@), !.post = Written(@)])

WiringInv ==
  \E file \in WiringFiles : /\ input = [form |-> "wiring", file |-> file]
                            /\ done => answer = AnswerTo(file)

\* WiringChecks: for any settings file, with any number of groups and any
\* matchers, the doctor is silent only if the hooks run for every tool they are
\* meant for, and what it says of Bash it says first, and exactly when it is so.
THEOREM WiringIsChecked == WiringSpec => []WiringIsReported
<1>1. WiringInit => WiringInv
  BY DEF WiringInit, WiringInput, WiringInv
<1>2. WiringInv /\ [CheckWiring]_examVars => WiringInv'
  <2> SUFFICES ASSUME WiringInv, [CheckWiring]_examVars PROVE WiringInv'
    OBVIOUS
  <2>1. PICK file \in WiringFiles : /\ input = [form |-> "wiring", file |-> file]
                                    /\ done => answer = AnswerTo(file)
    BY DEF WiringInv
  <2>2. CASE CheckWiring
    <3>1. input.file = file
      BY <2>1
    <3>2. input' = input /\ answer' = AnswerTo(input.file)
      BY <2>2, Zenon DEF CheckWiring, Answer, AnswerTo
    <3>3. input' = [form |-> "wiring", file |-> file] /\ answer' = AnswerTo(file)
      BY <2>1, <3>1, <3>2, Zenon
    <3> QED
      BY <3>3, Zenon DEF WiringInv
  <2>3. CASE UNCHANGED examVars
    <3>1. input' = input /\ done' = done /\ answer' = answer
      BY <2>3 DEF examVars
    <3>2. input' = [form |-> "wiring", file |-> file] /\ (done' => answer' = AnswerTo(file))
      BY <2>1, <3>1, Zenon
    <3> QED
      BY <3>2, Zenon DEF WiringInv
  <2> QED
    BY <2>2, <2>3
<1>3. WiringInv => WiringIsReported
  <2> SUFFICES ASSUME WiringInv, done PROVE WiringIsReported
    BY DEF WiringIsReported, Done
  <2>1. PICK file \in WiringFiles : /\ input = [form |-> "wiring", file |-> file]
                                    /\ answer = AnswerTo(file)
    BY DEF WiringInv
  <2>2. input.file = file
    BY <2>1
  <2> DEFINE security == {k \in DOMAIN answer : answer[k].severity = "SECURITY"}
  <2>3. /\ answer = <<>> => /\ file.state = "ok" /\ ~ file.mcpServers
                            /\ Covered(file.pre, "pre-edit", RequiredPreEditTools)
                            /\ Covered(file.post, "post-edit", RequiredPostEditTools)
        /\ \A k \in security : \A j \in 1 .. k : j \in security
        /\ file.state = "ok" =>
             (security # {} <=> \E g \in Ours(file.pre, "pre-edit") :
                                  Understood(g.matcher) /\ ~ Fires(g, "Bash"))
    BY <2>1, WiringAnswer, Zenon DEF AnswerTo
  <2> QED
    BY <2>2, <2>3, Zenon DEF WiringIsReported, Security
<1> QED
  BY <1>1, <1>2, <1>3, PTL DEF WiringSpec

\* The least and the greatest of some places are of them.
LEMMA LeastPlace ==
  ASSUME NEW T \in SUBSET Nat, T # {}
  PROVE  Min(T) \in T
<1>1. \E m \in T : \A y \in T : m =< y
  BY LeastNatural
<1> QED
  BY <1>1, Zenon DEF Min

LEMMA GreatestPlace ==
  ASSUME NEW n \in Nat, NEW T \in SUBSET (1 .. n), T # {}
  PROVE  Max(T) \in T /\ \A k \in T : Max(T) >= k
<1> DEFINE U == {n - k : k \in T}
<1>1. U \in SUBSET Nat /\ U # {}
  <2>1. \A k \in T : n - k \in Nat
    OBVIOUS
  <2>2. \A u \in U : u \in Nat
    BY <2>1
  <2>3. PICK k \in T : TRUE
    OBVIOUS
  <2>4. n - k \in U
    OBVIOUS
  <2> HIDE DEF U
  <2> QED
    BY <2>2, <2>4
<1> HIDE DEF U
<1>2. PICK m \in U : \A k \in U : m <= k
  BY <1>1, LeastNatural
<1>3. PICK g \in T : m = n - g
  BY <1>2 DEF U
<1>4. \A k \in T : n - g <= n - k
  BY <1>2, <1>3 DEF U
<1>5. \A k \in T : g >= k
  BY <1>4
<1>6. \E x \in T : \A y \in T : x >= y
  BY <1>5
<1> QED
  BY <1>6, Zenon DEF Max

-----------------------------------------------------------------------------
(* What a scan matches                                                     *)

Spans == [start : Nat, end : Nat]

LEMMA ScansAre ==
  /\ DOMAIN Scans = 1 .. 6 /\ Len(Scans) = 6
  /\ Scans[1] = "contradiction" /\ Scans[2] = "opinion" /\ Scans[3] = "tech_in_production"
  /\ Scans[4] = "personal_action" /\ Scans[5] = "quantitative" /\ Scans[6] = "date"
  /\ \A n \in 1 .. 6 : n \in {1, 2, 3, 4, 5, 6}
  BY DEF Scans

LEMMA LengthIsNatural ==
  ASSUME NEW text, Len(text) \in Nat, NEW n \in 1 .. 6, NEW i \in Nat
  PROVE  LengthAt(Scans[n], text, i) \in Nat
<1>1. FieldLength(text, i + 2) \in Nat
  <2> DEFINE field == {k \in i + 2 .. Len(text) : text[k].field = text[i + 2].field}
  <2>1. field \subseteq i + 2 .. Len(text)
    OBVIOUS
  <2>2. IsFiniteSet(i + 2 .. Len(text))
    BY FS_Interval
  <2> HIDE DEF field
  <2>3. Cardinality(field) \in Nat
    BY <2>1, <2>2, FS_Subset, FS_CardinalityType
  <2> QED
    BY <2>3 DEF FieldLength, field
<1> QED
  BY <1>1, ScansAre DEF LengthAt

\* A match is where its words are.
IsMatch(category, text, m) ==
  /\ m.start \in 1 .. Len(text) /\ LengthAt(category, text, m.start) \in Nat \ {0}
  /\ m = [start |-> m.start, end |-> m.start + LengthAt(category, text, m.start)]

LEMMA MatchElements ==
  ASSUME NEW text, Len(text) \in Nat, NEW n \in 1 .. 6
  PROVE  /\ Matches(Scans[n], text) \in Seq(Spans)
         /\ \A m \in ToSet(Matches(Scans[n], text)) : IsMatch(Scans[n], text, m)
<1> DEFINE category == Scans[n]
           N == Len(text)
           Body(before, i) ==
             IF LengthAt(category, text, i) > 0 /\ \A m \in ToSet(before) : m.end <= i
             THEN Append(before, [start |-> i, end |-> i + LengthAt(category, text, i)])
             ELSE before
           Is(f) == f = [i \in 0 .. N |-> IF i = 0 THEN <<>> ELSE Body(f[i - 1], i)]
           Good == {s \in Seq(Spans) : \A m \in ToSet(s) : IsMatch(category, text, m)}
           step == [p \in Good \X (1 .. N) |-> Body(p[1], p[2])]
           found == CHOOSE f : Is(f)
<1>1. \A i \in 1 .. N : LengthAt(category, text, i) \in Nat
  <2>1. \A i \in 1 .. N : i \in Nat
    OBVIOUS
  <2> QED
    BY <2>1, LengthIsNatural, Zenon
<1>2. ASSUME NEW s \in Good, NEW i \in 1 .. N PROVE Body(s, i) \in Good
  <2> DEFINE m == [start |-> i, end |-> i + LengthAt(category, text, i)]
  <2>1. CASE LengthAt(category, text, i) > 0
    <3>1. m \in Spans
      BY <1>1 DEF Spans
    <3>2. IsMatch(category, text, m)
      <4>1. m.start = i /\ LengthAt(category, text, i) \in Nat \ {0}
        BY <1>1, <2>1
      <4> HIDE DEF category
      <4> QED
        BY <4>1, Zenon DEF IsMatch
    <3> HIDE DEF m, category
    <3>3. <<m>> \in Seq(Spans) /\ ToSet(<<m>>) = {m}
      BY <3>1 DEF ToSet
    <3>4. s \in Seq(Spans) /\ Append(s, m) = s \o <<m>>
      BY <3>1
    <3>5. Append(s, m) \in Seq(Spans) /\ ToSet(Append(s, m)) = ToSet(s) \cup {m}
      <4>1. s \o <<m>> \in Seq(Spans) /\ ToSet(s \o <<m>>) = ToSet(s) \cup ToSet(<<m>>)
        BY <3>3, <3>4, ToSetConcat, ZenonT(40)
      <4> QED
        BY <3>3, <3>4, <4>1, Zenon
    <3>6. Append(s, m) \in Good
      BY <3>2, <3>5
    <3>7. Body(s, i) = s \/ Body(s, i) = Append(s, m)
      BY Zenon DEF m
    <3> QED
      BY <3>6, <3>7, Zenon
  <2>2. CASE ~ (LengthAt(category, text, i) > 0)
    BY <2>2, Zenon
  <2> QED
    BY <2>1, <2>2
<1>3. <<>> \in Good
  BY DEF ToSet
<1>4. Matches(category, text) = found[N]
  BY Zenon DEF Matches
<1> HIDE DEF Good, category
<1>5. Is(found)
  <2>1. step \in [Good \X (1 .. N) -> Good]
    BY <1>2
  <2> HIDE DEF step, Body
  <2> DEFINE base == <<>>
             M == N
  <2>8. M \in Nat /\ base \in Good /\ step \in [Good \X (1 .. M) -> Good]
    BY <1>3, <2>1
  <2> HIDE DEF base, M
  <2>9. \E g : Recursive(g, base, step, M) /\ \A i \in 0 .. M : g[i] \in Good
    BY <2>8, RecursionExists, Zenon
  <2>2. PICK g : /\ g = [i \in 0 .. N |-> IF i = 0 THEN <<>> ELSE step[<<g[i - 1], i>>]]
                 /\ \A i \in 0 .. N : g[i] \in Good
    BY <2>9, Zenon DEF base, M, Recursive
  <2>3. \A i \in 1 .. N : g[i - 1] \in Good
    BY <2>2
  <2>4. \A i \in 1 .. N : step[<<g[i - 1], i>>] = Body(g[i - 1], i)
    BY <2>3 DEF step
  <2>5. \A i \in 0 .. N : (IF i = 0 THEN <<>> ELSE step[<<g[i - 1], i>>])
                           = (IF i = 0 THEN <<>> ELSE Body(g[i - 1], i))
    BY <2>4
  <2>6. [i \in 0 .. N |-> IF i = 0 THEN <<>> ELSE step[<<g[i - 1], i>>]]
          = [i \in 0 .. N |-> IF i = 0 THEN <<>> ELSE Body(g[i - 1], i)]
    BY <2>5, Zenon
  <2>7. Is(g)
    BY <2>2, <2>6, Zenon
  <2> QED
    BY <2>7, Zenon
<1> HIDE DEF found, Body, Is, step
<1>6. \A i \in 0 .. N : found[i] \in Good
  <2> DEFINE T == {i \in 0 .. N : found[i] \in Good}
  <2>1. found = [i \in 0 .. N |-> IF i = 0 THEN <<>> ELSE Body(found[i - 1], i)]
    BY <1>5 DEF Is
  <2>2. 0 \in T
    BY <1>3, <2>1
  <2>3. ASSUME NEW i \in 1 .. N, i - 1 \in T PROVE i \in T
    BY <1>2, <2>1, <2>3
  <2> HIDE DEF T
  <2>4. \A i \in 0 .. N : i \in T
    BY <2>2, <2>3, UpTo
  <2> QED
    BY <2>4 DEF T
<1> QED
  BY <1>4, <1>6 DEF Good, category

-----------------------------------------------------------------------------
(* What a scan adds                                                        *)

AnyClaim ==
  [start : Nat, end : Nat, category : {"forbidden"} \cup {Scans[n] : n \in 1 .. 6},
   verdict : {"forbidden", "contradiction", "opinion", "verified", "unverified"}]

\* A claim that scan n makes.
OfScan(c, n, text, facts) ==
  \E m \in ToSet(Matches(Scans[n], text)) :
    /\ IsClaim(Scans[n], text, facts, m)
    /\ c = Claim(m, Scans[n], VerdictOf(Scans[n], text, facts, m))

\* A forbidden claim, or one of the first n scans.
Within(c, n, text, facts) ==
  c.category = "forbidden" \/ \E p \in 1 .. n : OfScan(c, p, text, facts)

\* The match of scan n is a claim, or has words of one that came before.
Answered(claims, n, m, text, facts) ==
  IsClaim(Scans[n], text, facts, m) =>
    \E c \in ToSet(claims) : Overlaps(m, c) /\ Within(c, n, text, facts)

Apart(claims) ==
  \A j, k \in DOMAIN claims :
    j # k /\ Overlaps(claims[j], claims[k]) =>
      claims[j].verdict = "forbidden" /\ claims[k].verdict = "forbidden"

\* The claims when scan n has come past the matches `past`.
Scanned(claims, n, past, text, facts, forbidden) ==
  /\ claims \in Seq(AnyClaim) /\ Apart(claims)
  /\ forbidden \subseteq ToSet(claims)
  /\ \A c \in ToSet(claims) : Within(c, n, text, facts)
  /\ \A p \in 1 .. n - 1 : \A m \in ToSet(Matches(Scans[p], text)) :
       Answered(claims, p, m, text, facts)
  /\ \A m \in past : Answered(claims, n, m, text, facts)

LEMMA OverlapsIsSymmetric ==
  ASSUME NEW c, NEW d PROVE Overlaps(c, d) <=> Overlaps(d, c)
  BY Zenon DEF Overlaps

\* The claim has the words of the match.
Covers(c, m) == c \in AnyClaim /\ c.start = m.start /\ c.end = m.end /\ Overlaps(m, c)

LEMMA MatchIsClaim ==
  ASSUME NEW text, Len(text) \in Nat, NEW facts, NEW n \in 1 .. 6, NEW m, IsMatch(Scans[n], text, m)
  PROVE  Covers(Claim(m, Scans[n], VerdictOf(Scans[n], text, facts, m)), m)
<1> DEFINE v == VerdictOf(Scans[n], text, facts, m)
           category == Scans[n]
<1>1. v \in {"forbidden", "contradiction", "opinion", "verified", "unverified"}
  <2> DEFINE fact == FindInFacts(facts, Subject(category, text, m))
  <2>1. v = CASE category = "contradiction" -> "contradiction"
              [] category = "opinion" -> "opinion"
              [] category \notin {"contradiction", "opinion"} /\ fact -> "verified"
              [] OTHER -> "unverified"
    BY Zenon DEF VerdictOf
  <2> HIDE DEF v, fact, category
  <2> QED
    BY <2>1
<1>2. category \in {Scans[p] : p \in 1 .. 6}
  OBVIOUS
<1>3. m.start \in Nat /\ m.end \in Nat /\ m.start < m.end
  <2> DEFINE len == LengthAt(category, text, m.start)
  <2>1. m.start \in 1 .. Len(text) /\ len \in Nat \ {0} /\ m = [start |-> m.start, end |-> m.start + len]
    BY Zenon DEF IsMatch
  <2> HIDE DEF len
  <2>2. m.end = m.start + len
    BY <2>1
  <2> QED
    BY <2>1, <2>2
<1> HIDE DEF v, category
<1>4. Claim(m, category, v) \in AnyClaim
  BY <1>1, <1>2, <1>3 DEF Claim, AnyClaim
<1>5. Claim(m, category, v).start = m.start /\ Claim(m, category, v).end = m.end
  BY DEF Claim
<1>6. Overlaps(m, Claim(m, category, v))
  BY <1>3, <1>5 DEF Overlaps
<1> QED
  BY <1>4, <1>5, <1>6, Zenon DEF Covers, v, category

\* More claims answer no fewer matches.
LEMMA AnsweredStays ==
  ASSUME NEW claims, NEW more, ToSet(claims) \subseteq ToSet(more), NEW n, NEW m, NEW text, NEW facts,
         Answered(claims, n, m, text, facts)
  PROVE  Answered(more, n, m, text, facts)
  BY Zenon DEF Answered

LEMMA ScanMatch ==
  ASSUME NEW text, Len(text) \in Nat, NEW facts, NEW forbidden, NEW n \in 1 .. 6,
         NEW claims, NEW past, Scanned(claims, n, past, text, facts, forbidden),
         NEW m \in ToSet(Matches(Scans[n], text))
  PROVE  LET more == IF ~ OverlapsAny(m, claims) /\ IsClaim(Scans[n], text, facts, m)
                     THEN Append(claims, Claim(m, Scans[n], VerdictOf(Scans[n], text, facts, m)))
                     ELSE claims
         IN Scanned(more, n, past \cup {m}, text, facts, forbidden)
<1> DEFINE c == Claim(m, Scans[n], VerdictOf(Scans[n], text, facts, m))
           adds == ~ OverlapsAny(m, claims) /\ IsClaim(Scans[n], text, facts, m)
<1>1. CASE ~ adds
  <2>1. Answered(claims, n, m, text, facts)
    <3>1. CASE OverlapsAny(m, claims)
      <4>1. PICK k \in DOMAIN claims : Overlaps(m, claims[k])
        BY <3>1, Zenon DEF OverlapsAny
      <4>2. claims[k] \in ToSet(claims)
        BY Zenon DEF ToSet
      <4>3. Within(claims[k], n, text, facts)
        BY <4>2, Zenon DEF Scanned
      <4> QED
        BY <4>1, <4>2, <4>3, Zenon DEF Answered
    <3>2. CASE ~ IsClaim(Scans[n], text, facts, m)
      BY <3>2, Zenon DEF Answered
    <3> QED
      BY <1>1, <3>1, <3>2, Zenon
  <2>2. Scanned(claims, n, past \cup {m}, text, facts, forbidden)
    BY <2>1, Zenon DEF Scanned
  <2> QED
    BY <1>1, <2>2, Zenon
<1>2. CASE adds
  <2> DEFINE more == Append(claims, c)
             L == Len(claims)
  <2>1. IsMatch(Scans[n], text, m)
    BY MatchElements, Zenon
  <2>2. Covers(c, m)
    BY <2>1, MatchIsClaim, Zenon
  <2>15. c \in AnyClaim /\ c.start = m.start /\ c.end = m.end /\ Overlaps(m, c)
    BY <2>2, Zenon DEF Covers
  <2>3. OfScan(c, n, text, facts)
    BY <1>2, Zenon DEF OfScan
  <2> HIDE DEF c
  <2>4. Within(c, n, text, facts)
    <3>1. n \in 1 .. n
      OBVIOUS
    <3> QED
      BY <2>3, <3>1, Zenon DEF Within
  <2>5. claims \in Seq(AnyClaim) /\ L \in Nat /\ DOMAIN claims = 1 .. L
    BY LenProperties, Zenon DEF Scanned
  <2>6. /\ more \in Seq(AnyClaim) /\ DOMAIN more = 1 .. L + 1
        /\ more[L + 1] = c /\ \A k \in 1 .. L : more[k] = claims[k]
    BY <2>15, <2>5
  <2> HIDE DEF more, L
  <2>7. ToSet(more) = ToSet(claims) \cup {c}
    <3>1. 1 .. L + 1 = (1 .. L) \cup {L + 1}
      BY <2>5
    <3>2. ToSet(more) = {more[k] : k \in (1 .. L) \cup {L + 1}}
      BY <2>6, <3>1, Zenon DEF ToSet
    <3>3. ToSet(claims) = {claims[k] : k \in 1 .. L}
      BY <2>5, Zenon DEF ToSet
    <3>4. \A x : x \in ToSet(more) <=> \E k \in (1 .. L) \cup {L + 1} : x = more[k]
      BY <3>2, Zenon
    <3>5. \A x : x \in ToSet(claims) <=> \E k \in 1 .. L : x = claims[k]
      BY <3>3, Zenon
    <3> QED
      BY <2>6, <3>4, <3>5, ZenonT(40)
  <2>8. Apart(more)
    <3>1. ASSUME NEW j \in 1 .. L PROVE ~ Overlaps(c, more[j]) /\ ~ Overlaps(more[j], c)
      <4>1. ~ Overlaps(m, claims[j])
        BY <1>2, <2>5, Zenon DEF OverlapsAny
      <4>2. ~ Overlaps(c, claims[j])
        BY <2>15, <4>1, Zenon DEF Overlaps
      <4> QED
        BY <2>6, <4>2, OverlapsIsSymmetric, Zenon
    <3>2. \A j, k \in 1 .. L : j # k /\ Overlaps(more[j], more[k]) =>
            more[j].verdict = "forbidden" /\ more[k].verdict = "forbidden"
      BY <2>5, <2>6, Zenon DEF Scanned, Apart
    <3>3. \A j \in DOMAIN more : j \in 1 .. L \/ j = L + 1
      BY <2>5, <2>6
    <3> QED
      BY <2>6, <3>1, <3>2, <3>3, Zenon DEF Apart
  <2>9. /\ forbidden \subseteq ToSet(more)
        /\ \A d \in ToSet(more) : Within(d, n, text, facts)
    BY <2>4, <2>7, Zenon DEF Scanned
  <2>10. ToSet(claims) \subseteq ToSet(more) /\ c \in ToSet(more)
    BY <2>7, Zenon
  <2>11. \A p \in 1 .. n - 1 : \A q \in ToSet(Matches(Scans[p], text)) : Answered(more, p, q, text, facts)
    BY <2>10, AnsweredStays, Zenon DEF Scanned
  <2>12. \A q \in past : Answered(more, n, q, text, facts)
    BY <2>10, AnsweredStays, Zenon DEF Scanned
  <2>13. Answered(more, n, m, text, facts)
    BY <2>15, <2>4, <2>10, Zenon DEF Answered
  <2>14. Scanned(more, n, past \cup {m}, text, facts, forbidden)
    BY <2>6, <2>8, <2>9, <2>11, <2>12, <2>13, Zenon DEF Scanned
  <2> QED
    BY <1>2, <2>14, Zenon DEF more, c
<1> QED
  BY <1>1, <1>2

LEMMA ScanPast ==
  ASSUME NEW text, Len(text) \in Nat, NEW facts, NEW forbidden, NEW n \in 1 .. 6,
         NEW claims, Scanned(claims, n, {}, text, facts, forbidden)
  PROVE  Scanned(WithScan(text, facts, claims, Scans[n]), n, ToSet(Matches(Scans[n], text)),
                 text, facts, forbidden)
<1> DEFINE category == Scans[n]
           found == Matches(category, text)
           M == Len(found)
           Body(before, k) ==
             IF ~ OverlapsAny(found[k], before) /\ IsClaim(category, text, facts, found[k])
             THEN Append(before, Claim(found[k], category, VerdictOf(category, text, facts, found[k])))
             ELSE before
           Is(f) == f = [k \in 0 .. M |-> IF k = 0 THEN claims ELSE Body(f[k - 1], k)]
           step == [p \in Seq(AnyClaim) \X (1 .. M) |-> Body(p[1], p[2])]
           upTo == CHOOSE f : Is(f)
           past(k) == {found[j] : j \in 1 .. k}
<1>1. M \in Nat /\ DOMAIN found = 1 .. M
  BY MatchElements, LenProperties
<1>2. \A k \in 1 .. M : found[k] \in ToSet(Matches(Scans[n], text))
  BY <1>1, Zenon DEF ToSet
<1>3. ToSet(Matches(Scans[n], text)) = past(M)
  BY <1>1, Zenon DEF ToSet
<1>4. claims \in Seq(AnyClaim)
  BY Zenon DEF Scanned
<1>5. WithScan(text, facts, claims, Scans[n]) = upTo[M]
  BY Zenon DEF WithScan
<1>6. ASSUME NEW s \in Seq(AnyClaim), NEW k \in 1 .. M PROVE Body(s, k) \in Seq(AnyClaim)
  <2> DEFINE c == Claim(found[k], category, VerdictOf(category, text, facts, found[k]))
  <2>1. IsMatch(Scans[n], text, found[k])
    BY <1>2, MatchElements, Zenon
  <2>2. Covers(c, found[k])
    BY <2>1, MatchIsClaim, Zenon
  <2>3. c \in AnyClaim
    BY <2>2, Zenon DEF Covers
  <2>4. Body(s, k) = s \/ Body(s, k) = Append(s, c)
    BY Zenon
  <2> HIDE DEF c, Body
  <2>5. Append(s, c) \in Seq(AnyClaim)
    BY <2>3
  <2> QED
    BY <2>4, <2>5, Zenon
<1>7. \A s, k : Body(s, k) = IF ~ OverlapsAny(found[k], s) /\ IsClaim(Scans[n], text, facts, found[k])
                             THEN Append(s, Claim(found[k], Scans[n], VerdictOf(Scans[n], text, facts, found[k])))
                             ELSE s
  OBVIOUS
<1> HIDE DEF category, Body, found
<1>8. Is(upTo)
  <2> DEFINE X == Seq(AnyClaim)
  <2>1. step \in [X \X (1 .. M) -> X]
    BY <1>6
  <2>2. claims \in X
    BY <1>4
  <2> HIDE DEF step, X, M
  <2>3. \E g : Recursive(g, claims, step, M) /\ \A k \in 0 .. M : g[k] \in X
    BY <1>1, <2>1, <2>2, RecursionExists, Zenon
  <2>4. PICK g : /\ g = [k \in 0 .. M |-> IF k = 0 THEN claims ELSE step[<<g[k - 1], k>>]]
                 /\ \A k \in 0 .. M : g[k] \in X
    BY <2>3, Zenon DEF Recursive
  <2>5. \A k \in 1 .. M : g[k - 1] \in X
    BY <1>1, <2>4
  <2>6. \A k \in 1 .. M : step[<<g[k - 1], k>>] = Body(g[k - 1], k)
    BY <2>5 DEF step, X
  <2>7. \A k \in 0 .. M : (IF k = 0 THEN claims ELSE step[<<g[k - 1], k>>])
                           = (IF k = 0 THEN claims ELSE Body(g[k - 1], k))
    BY <1>1, <2>6
  <2>8. [k \in 0 .. M |-> IF k = 0 THEN claims ELSE step[<<g[k - 1], k>>]]
          = [k \in 0 .. M |-> IF k = 0 THEN claims ELSE Body(g[k - 1], k)]
    BY <2>7, Zenon
  <2>9. Is(g)
    BY <2>4, <2>8, Zenon
  <2> QED
    BY <2>9, Zenon
<1> HIDE DEF upTo, step, M
<1>9. upTo = [k \in 0 .. M |-> IF k = 0 THEN claims ELSE Body(upTo[k - 1], k)]
  BY <1>8, Zenon
<1> DEFINE T == {k \in 0 .. M : Scanned(upTo[k], n, past(k), text, facts, forbidden)}
<1>10. 0 \in T
  <2>1. past(0) = {}
    OBVIOUS
  <2>2. upTo[0] = claims /\ 0 \in 0 .. M
    BY <1>1, <1>9
  <2> HIDE DEF past
  <2> QED
    BY <2>1, <2>2, Zenon
<1>11. ASSUME NEW k \in 1 .. M, k - 1 \in T PROVE k \in T
  <2>1. past(k) = past(k - 1) \cup {found[k]}
    <3>1. 1 .. k = (1 .. k - 1) \cup {k}
      BY <1>1
    <3> QED
      BY <3>1
  <2>2. upTo[k] = Body(upTo[k - 1], k) /\ k \in 0 .. M
    BY <1>1, <1>9
  <2> HIDE DEF past
  <2>3. Scanned(upTo[k - 1], n, past(k - 1), text, facts, forbidden)
    BY <1>11, Zenon
  <2>4. Scanned(Body(upTo[k - 1], k), n, past(k - 1) \cup {found[k]}, text, facts, forbidden)
    BY <1>2, <1>7, <2>3, ScanMatch, Zenon
  <2> QED
    BY <2>1, <2>2, <2>4, Zenon
<1> HIDE DEF T, past
<1>12. \A k \in 0 .. M : k \in T
  BY <1>1, <1>10, <1>11, UpTo, Zenon
<1>13. M \in T
  BY <1>1, <1>12
<1>14. Scanned(upTo[M], n, past(M), text, facts, forbidden)
  BY <1>13, Zenon DEF T
<1> QED
  BY <1>3, <1>5, <1>14, Zenon

\* On to the next scan.
LEMMA NextScan ==
  ASSUME NEW text, NEW facts, NEW forbidden, NEW n \in 1 .. 6, NEW claims,
         Scanned(claims, n, ToSet(Matches(Scans[n], text)), text, facts, forbidden)
  PROVE  Scanned(claims, n + 1, {}, text, facts, forbidden)
<1>1. \A c \in ToSet(claims) : Within(c, n + 1, text, facts)
  <2>1. \A p \in 1 .. n : p \in 1 .. n + 1
    OBVIOUS
  <2> QED
    BY <2>1, Zenon DEF Scanned, Within
<1>2. \A p \in 1 .. (n + 1) - 1 : p \in 1 .. n - 1 \/ p = n
  OBVIOUS
<1> QED
  BY <1>1, <1>2, Zenon DEF Scanned

\* What the scans have found before the sort.
LEMMA AllScanned ==
  ASSUME NEW text, Len(text) \in Nat, NEW facts, NEW places,
         Scanned(Forbidden(places), 1, {}, text, facts, ToSet(Forbidden(places)))
  PROVE  \E claims : /\ Detect(text, facts, places) = SortBySource(claims)
                     /\ Scanned(claims, 6, ToSet(Matches(Scans[6], text)), text, facts,
                                ToSet(Forbidden(places)))
<1> DEFINE F == ToSet(Forbidden(places))
           Is(f) == f = [n \in 0 .. Len(Scans) |->
                           IF n = 0 THEN Forbidden(places)
                           ELSE WithScan(text, facts, f[n - 1], Scans[n])]
           after == CHOOSE f : Is(f)
           N == Len(Scans)
<1>1. Detect(text, facts, places) = SortBySource(after[N])
  BY Zenon DEF Detect
<1>2. \E f : Is(f)
  <2> DEFINE a0 == Forbidden(places)
             a1 == WithScan(text, facts, a0, Scans[1])
             a2 == WithScan(text, facts, a1, Scans[2])
             a3 == WithScan(text, facts, a2, Scans[3])
             a4 == WithScan(text, facts, a3, Scans[4])
             a5 == WithScan(text, facts, a4, Scans[5])
             a6 == WithScan(text, facts, a5, Scans[6])
  <2>1. /\ a1 = WithScan(text, facts, a0, Scans[1]) /\ a2 = WithScan(text, facts, a1, Scans[2])
        /\ a3 = WithScan(text, facts, a2, Scans[3]) /\ a4 = WithScan(text, facts, a3, Scans[4])
        /\ a5 = WithScan(text, facts, a4, Scans[5]) /\ a6 = WithScan(text, facts, a5, Scans[6])
        /\ a0 = Forbidden(places)
    BY Zenon
  <2> HIDE DEF a0, a1, a2, a3, a4, a5, a6
  <2> DEFINE g == [n \in 0 .. 6 |->
                     IF n = 0 THEN a0 ELSE IF n = 1 THEN a1 ELSE IF n = 2 THEN a2
                     ELSE IF n = 3 THEN a3 ELSE IF n = 4 THEN a4 ELSE IF n = 5 THEN a5 ELSE a6]
             h == [n \in 0 .. 6 |-> IF n = 0 THEN Forbidden(places)
                                    ELSE WithScan(text, facts, g[n - 1], Scans[n])]
  <2>2. /\ g[0] = a0 /\ g[1] = a1 /\ g[2] = a2 /\ g[3] = a3 /\ g[4] = a4 /\ g[5] = a5 /\ g[6] = a6
    OBVIOUS
  <2> HIDE DEF g
  <2>3. ASSUME NEW n \in 1 .. 6 PROVE g[n] = WithScan(text, facts, g[n - 1], Scans[n])
    <3>1. \/ n = 1 /\ n - 1 = 0
          \/ n = 2 /\ n - 1 = 1
          \/ n = 3 /\ n - 1 = 2
          \/ n = 4 /\ n - 1 = 3
          \/ n = 5 /\ n - 1 = 4
          \/ n = 6 /\ n - 1 = 5
      OBVIOUS
    <3> QED
      BY <2>1, <2>2, <3>1, Zenon
  <2>4. \A n \in 0 .. 6 : n = 0 \/ n \in 1 .. 6
    OBVIOUS
  <2>5. \A n \in 0 .. 6 : g[n] = h[n]
    BY <2>1, <2>2, <2>3, <2>4, Zenon
  <2>6. g = [n \in 0 .. 6 |-> g[n]]
    BY Zenon DEF g
  <2>7. g = h
    BY <2>5, <2>6
  <2>8. Is(g)
    BY <2>7, ScansAre, Zenon
  <2> QED
    BY <2>8, Zenon
<1>3. Is(after)
  BY <1>2, Zenon
<1> HIDE DEF after
<1>4. N = 6
  BY ScansAre
<1>5. after[0] = Forbidden(places) /\ \A n \in 1 .. 6 : after[n] = WithScan(text, facts, after[n - 1], Scans[n])
  BY <1>3, <1>4
<1> HIDE DEF Is, N, F
<1> DEFINE T == {n \in 0 .. 5 : Scanned(after[n], n + 1, {}, text, facts, F)}
<1>6. 0 \in T
  <2>1. 0 + 1 = 1 /\ 0 \in 0 .. 5
    OBVIOUS
  <2> QED
    BY <1>5, <2>1, Zenon DEF F
<1>7. ASSUME NEW n \in 1 .. 5, n - 1 \in T PROVE n \in T
  <2>1. n \in 1 .. 6 /\ n \in 0 .. 5 /\ (n - 1) + 1 = n
    OBVIOUS
  <2>2. Scanned(after[n - 1], n, {}, text, facts, F)
    BY <1>7, <2>1, Zenon
  <2>3. Scanned(after[n], n, ToSet(Matches(Scans[n], text)), text, facts, F)
    <3>1. Scanned(WithScan(text, facts, after[n - 1], Scans[n]), n, ToSet(Matches(Scans[n], text)),
                  text, facts, F)
      BY <2>1, <2>2, ScanPast, Zenon
    <3> QED
      BY <1>5, <2>1, <3>1, Zenon
  <2>4. Scanned(after[n], n + 1, {}, text, facts, F)
    BY <2>1, <2>3, NextScan, Zenon
  <2> QED
    BY <2>1, <2>4, Zenon
<1>8. 5 \in 0 .. 5 /\ 5 + 1 = 6 /\ 6 \in 1 .. 6 /\ 6 - 1 = 5 /\ 5 \in Nat
  OBVIOUS
<1> HIDE DEF T
<1>9. 5 \in T
  BY <1>6, <1>7, <1>8, UpTo, Zenon
<1>10. Scanned(after[5], 6, {}, text, facts, F)
  BY <1>8, <1>9, Zenon DEF T
<1>11. Scanned(after[6], 6, ToSet(Matches(Scans[6], text)), text, facts, F)
  <2>1. Scanned(WithScan(text, facts, after[5], Scans[6]), 6, ToSet(Matches(Scans[6], text)),
                text, facts, F)
    BY <1>8, <1>10, ScanPast, Zenon
  <2>2. after[6] = WithScan(text, facts, after[5], Scans[6])
    BY <1>5, <1>8, Zenon
  <2> QED
    BY <2>1, <2>2, Zenon
<1> QED
  BY <1>1, <1>4, <1>11, Zenon DEF F

-----------------------------------------------------------------------------
(* The sort                                                                *)

Ordered(claims) ==
  \A j, k \in DOMAIN claims : j < k => claims[j].start <= claims[k].start

LEMMA InsertedAt ==
  ASSUME NEW S, NEW s \in Seq(S), NEW c \in S, NEW b \in 0 .. Len(s)
  PROVE  /\ InsertAt(s, b + 1, c) \in Seq(S)
         /\ Len(InsertAt(s, b + 1, c)) = Len(s) + 1
         /\ \A k \in 1 .. Len(s) + 1 :
              InsertAt(s, b + 1, c)[k] = IF k <= b THEN s[k] ELSE IF k = b + 1 THEN c ELSE s[k - 1]
<1> DEFINE L == Len(s)
           u == SubSeq(s, 1, b)
           v == SubSeq(s, b + 1, L)
           w == u \o <<c>>
<1>1. L \in Nat /\ b \in Nat /\ b <= L /\ \A k \in 1 .. L : s[k] \in S
  BY LenProperties, ElementOfSeq
<1>2. u \in Seq(S) /\ Len(u) = b /\ \A k \in 1 .. b : u[k] = s[k]
  BY <1>1, SubSeqProperties
<1>3. v \in Seq(S) /\ Len(v) = L - b /\ \A k \in 1 .. L - b : v[k] = s[b + k]
  <2> DEFINE a == b + 1
  <2>1. a \in Int /\ L \in Int /\ \A k \in a .. L : s[k] \in S
    BY <1>1
  <2>2. (IF a <= L THEN L - a + 1 ELSE 0) = L - b
    BY <1>1
  <2> HIDE DEF a
  <2>3. /\ SubSeq(s, a, L) \in Seq(S)
        /\ Len(SubSeq(s, a, L)) = IF a <= L THEN L - a + 1 ELSE 0
        /\ \A k \in 1 .. L - a + 1 : SubSeq(s, a, L)[k] = s[a + k - 1]
    BY <2>1, SubSeqProperties
  <2>4. L - a + 1 = L - b /\ \A k \in 1 .. L - b : a + k - 1 = b + k
    BY <1>1 DEF a
  <2> QED
    BY <2>2, <2>3, <2>4, Zenon DEF a
<1> HIDE DEF u, v, L
<1>4. w \in Seq(S) /\ Len(w) = b + 1 /\ w[b + 1] = c /\ \A k \in 1 .. b : w[k] = s[k]
  BY <1>1, <1>2
<1> HIDE DEF w
<1> DEFINE r == w \o v
<1>5. /\ r \in Seq(S) /\ Len(r) = L + 1
      /\ \A k \in 1 .. L + 1 : r[k] = IF k <= b + 1 THEN w[k] ELSE v[k - (b + 1)]
  <2>1. /\ r \in Seq(S) /\ Len(r) = Len(w) + Len(v)
        /\ \A k \in 1 .. Len(w) + Len(v) : r[k] = IF k <= Len(w) THEN w[k] ELSE v[k - Len(w)]
    BY <1>3, <1>4, ConcatProperties
  <2>2. Len(w) + Len(v) = L + 1
    BY <1>1, <1>3, <1>4
  <2> HIDE DEF r
  <2> QED
    BY <1>4, <2>1, <2>2, Zenon
<1> HIDE DEF r
<1>6. ASSUME NEW k \in 1 .. L + 1
      PROVE  r[k] = IF k <= b THEN s[k] ELSE IF k = b + 1 THEN c ELSE s[k - 1]
  <2>1. CASE k <= b
    BY <1>1, <1>4, <1>5, <2>1
  <2>2. CASE k = b + 1
    BY <1>1, <1>4, <1>5, <2>2
  <2>3. CASE k > b + 1
    <3>1. k - (b + 1) \in 1 .. L - b /\ b + (k - (b + 1)) = k - 1
      BY <1>1, <2>3
    <3>2. r[k] = v[k - (b + 1)]
      BY <1>1, <1>5, <2>3
    <3>3. v[k - (b + 1)] = s[k - 1]
      BY <1>3, <3>1
    <3> QED
      BY <1>1, <2>3, <3>2, <3>3
  <2> QED
    BY <1>1, <2>1, <2>2, <2>3
<1>8. InsertAt(s, b + 1, c) = r
  <2> DEFINE p == b + 1
  <2>1. p - 1 = b
    BY <1>1
  <2>2. r = SubSeq(s, 1, b) \o <<c>> \o SubSeq(s, p, Len(s))
    BY Zenon DEF r, w, u, v, L
  <2> HIDE DEF p
  <2>3. InsertAt(s, p, c) = SubSeq(s, 1, p - 1) \o <<c>> \o SubSeq(s, p, Len(s))
    BY Zenon DEF InsertAt
  <2>4. InsertAt(s, p, c) = r
    BY <2>1, <2>2, <2>3
  <2> QED
    BY <2>4 DEF p
<1> QED
  BY <1>5, <1>6, <1>8 DEF L

\* Where a claim goes among those in order.
LEMMA InsertPlace ==
  ASSUME NEW s \in Seq(AnyClaim), NEW c \in AnyClaim
  PROVE  \E b \in 0 .. Len(s) :
           /\ InsertBySource(s, c) = InsertAt(s, b + 1, c)
           /\ Ordered(s) => /\ \A k \in 1 .. b : s[k].start <= c.start
                            /\ \A k \in b + 1 .. Len(s) : s[k].start > c.start
<1> DEFINE before == {k \in DOMAIN s : s[k].start <= c.start}
           b == IF before = {} THEN 0 ELSE Max(before)
<1>1. Len(s) \in Nat /\ DOMAIN s = 1 .. Len(s) /\ \A k \in 1 .. Len(s) : s[k] \in AnyClaim
  BY LenProperties, ElementOfSeq
<1>2. /\ c.start \in Nat /\ \A k \in 1 .. Len(s) : s[k].start \in Nat
  BY <1>1 DEF AnyClaim
<1>3. before \in SUBSET (1 .. Len(s))
  BY <1>1
<1>4. before # {} => Max(before) \in before /\ \A k \in before : Max(before) >= k
  BY <1>1, <1>3, GreatestPlace
<1>5. \A k \in 1 .. Len(s) : k \in before <=> s[k].start <= c.start
  BY <1>1
<1>6. InsertBySource(s, c) = InsertAt(s, IF before = {} THEN 1 ELSE Max(before) + 1, c)
  BY Zenon DEF InsertBySource
<1> HIDE DEF before
<1>7. b \in 0 .. Len(s) /\ b + 1 = IF before = {} THEN 1 ELSE Max(before) + 1
  <2>1. CASE before = {}
    BY <1>1, <2>1
  <2>2. CASE before # {}
    <3>1. b = Max(before) /\ b \in 1 .. Len(s)
      BY <1>3, <1>4, <2>2, Zenon
    <3> HIDE DEF b
    <3> QED
      BY <1>1, <2>2, <3>1
  <2> QED
    BY <2>1, <2>2
<1>8. ASSUME Ordered(s)
      PROVE  /\ \A k \in 1 .. b : s[k].start <= c.start
             /\ \A k \in b + 1 .. Len(s) : s[k].start > c.start
  <2>1. CASE before = {}
    BY <1>1, <1>2, <1>5, <2>1
  <2>2. CASE before # {}
    <3>1. b \in before /\ b \in 1 .. Len(s) /\ \A k \in before : b >= k
      BY <1>3, <1>4, <2>2
    <3> HIDE DEF b
    <3>2. s[b].start <= c.start
      BY <1>5, <3>1
    <3>3. ASSUME NEW k \in 1 .. b PROVE s[k].start <= c.start
      <4>1. k \in 1 .. Len(s) /\ (k = b \/ k < b)
        BY <1>1, <3>1
      <4>2. k < b => s[k].start <= s[b].start
        BY <1>1, <1>8, <3>1, <4>1 DEF Ordered
      <4> QED
        BY <1>2, <3>1, <3>2, <4>1, <4>2
    <3>4. ASSUME NEW k \in b + 1 .. Len(s) PROVE s[k].start > c.start
      <4>1. k \in 1 .. Len(s) /\ ~ (b >= k)
        BY <1>1, <3>1
      <4> QED
        BY <1>2, <1>5, <3>1, <4>1
    <3> QED
      BY <3>3, <3>4
  <2> QED
    BY <2>1, <2>2
<1> HIDE DEF b
<1>9. InsertBySource(s, c) = InsertAt(s, b + 1, c)
  BY <1>6, <1>7, Zenon
<1> QED
  BY <1>7, <1>8, <1>9, Zenon

LEMMA InsertKeeps ==
  ASSUME NEW s \in Seq(AnyClaim), Apart(s), Ordered(s), NEW c \in AnyClaim,
         \A d \in ToSet(s) : Overlaps(d, c) => d.verdict = "forbidden" /\ c.verdict = "forbidden"
  PROVE  /\ InsertBySource(s, c) \in Seq(AnyClaim)
         /\ Apart(InsertBySource(s, c)) /\ Ordered(InsertBySource(s, c))
         /\ ToSet(InsertBySource(s, c)) = ToSet(s) \cup {c}
<1> DEFINE L == Len(s)
           r == InsertBySource(s, c)
<1>1. L \in Nat /\ DOMAIN s = 1 .. L /\ \A k \in 1 .. L : s[k] \in AnyClaim
  BY LenProperties, ElementOfSeq
<1>2. PICK b \in 0 .. L :
        /\ r = InsertAt(s, b + 1, c)
        /\ \A k \in 1 .. b : s[k].start <= c.start
        /\ \A k \in b + 1 .. L : s[k].start > c.start
  BY InsertPlace, Zenon
<1>3. /\ r \in Seq(AnyClaim) /\ Len(r) = L + 1
      /\ \A k \in 1 .. L + 1 : r[k] = IF k <= b THEN s[k] ELSE IF k = b + 1 THEN c ELSE s[k - 1]
  <2> DEFINE w == InsertAt(s, b + 1, c)
  <2>1. /\ w \in Seq(AnyClaim) /\ Len(w) = L + 1
        /\ \A k \in 1 .. L + 1 : w[k] = IF k <= b THEN s[k] ELSE IF k = b + 1 THEN c ELSE s[k - 1]
    BY InsertedAt
  <2>2. r = w
    BY <1>2, Zenon
  <2> HIDE DEF r, w
  <2> QED
    BY <2>1, <2>2
<1> HIDE DEF r, L
<1>4. DOMAIN r = 1 .. L + 1
  BY <1>3, LenProperties
\* Where the elements of r come from, and where those of s have gone.
<1> DEFINE from(k) == IF k <= b THEN k ELSE k - 1
<1>5. \A k \in 1 .. L + 1 : k # b + 1 => from(k) \in 1 .. L /\ r[k] = s[from(k)]
  BY <1>1, <1>3
<1>6. b + 1 \in 1 .. L + 1 /\ r[b + 1] = c
  BY <1>1, <1>3
<1>7. \A j, k \in 1 .. L + 1 : j # b + 1 /\ k # b + 1 =>
        /\ j # k => from(j) # from(k)
        /\ j < k => from(j) < from(k)
  BY <1>1
<1>8. \A k \in 1 .. L : \E j \in 1 .. L + 1 : j # b + 1 /\ from(j) = k
  <2> SUFFICES ASSUME NEW k \in 1 .. L PROVE \E j \in 1 .. L + 1 : j # b + 1 /\ from(j) = k
    OBVIOUS
  <2>1. CASE k <= b
    BY <1>1, <2>1
  <2>2. CASE k > b
    <3>1. k + 1 \in 1 .. L + 1 /\ k + 1 # b + 1 /\ from(k + 1) = k
      BY <1>1, <2>2
    <3> HIDE DEF from
    <3> QED
      BY <3>1, Zenon
  <2> QED
    BY <1>1, <2>1, <2>2
<1>9. \A k \in 1 .. L + 1 : /\ k < b + 1 => from(k) \in 1 .. b
                            /\ k > b + 1 => from(k) \in b + 1 .. L
  BY <1>1
<1> HIDE DEF from
<1>10. ToSet(r) = ToSet(s) \cup {c}
  <2>1. \A d : d \in ToSet(r) <=> \E k \in 1 .. L + 1 : d = r[k]
    BY <1>4, Zenon DEF ToSet
  <2>2. \A d : d \in ToSet(s) <=> \E k \in 1 .. L : d = s[k]
    BY <1>1, Zenon DEF ToSet
  <2>3. ASSUME NEW d \in ToSet(r) PROVE d \in ToSet(s) \cup {c}
    <3>1. PICK k \in 1 .. L + 1 : d = r[k]
      BY <2>1, <2>3, Zenon
    <3>2. CASE k = b + 1
      BY <1>6, <3>1, <3>2
    <3>3. CASE k # b + 1
      <4>1. from(k) \in 1 .. L /\ d = s[from(k)]
        BY <1>5, <3>1, <3>3, Zenon
      <4>2. d \in ToSet(s)
        BY <2>2, <4>1, Zenon
      <4> QED
        BY <4>2
    <3> QED
      BY <3>2, <3>3
  <2>4. ASSUME NEW d \in ToSet(s) PROVE d \in ToSet(r)
    <3>1. PICK k \in 1 .. L : d = s[k]
      BY <2>2, <2>4, Zenon
    <3>2. PICK j \in 1 .. L + 1 : j # b + 1 /\ from(j) = k
      BY <1>8, Zenon
    <3>3. d = r[j]
      BY <1>5, <3>1, <3>2, Zenon
    <3> QED
      BY <2>1, <3>3, Zenon
  <2>5. c \in ToSet(r)
    BY <1>6, <2>1, Zenon
  <2> QED
    BY <2>3, <2>4, <2>5
<1>11. \A k \in 1 .. L : s[k] \in ToSet(s)
  BY <1>1, Zenon DEF ToSet
<1>12. Apart(r)
  <2> SUFFICES ASSUME NEW j \in 1 .. L + 1, NEW k \in 1 .. L + 1, j # k, Overlaps(r[j], r[k])
               PROVE  r[j].verdict = "forbidden" /\ r[k].verdict = "forbidden"
    BY <1>4, Zenon DEF Apart
  <2>1. CASE j = b + 1
    BY <1>5, <1>6, <1>11, <2>1, OverlapsIsSymmetric, Zenon
  <2>2. CASE k = b + 1
    BY <1>5, <1>6, <1>11, <2>2, Zenon
  <2>3. CASE j # b + 1 /\ k # b + 1
    <3>1. from(j) # from(k) /\ from(j) \in DOMAIN s /\ from(k) \in DOMAIN s
      BY <1>1, <1>5, <1>7, <2>3, Zenon
    <3> QED
      BY <1>5, <2>3, <3>1, Zenon DEF Apart
  <2> QED
    BY <2>1, <2>2, <2>3, Zenon
<1>13. Ordered(r)
  <2> SUFFICES ASSUME NEW j \in 1 .. L + 1, NEW k \in 1 .. L + 1, j < k
               PROVE  r[j].start <= r[k].start
    BY <1>4, Zenon DEF Ordered
  <2>1. c.start \in Nat /\ \A i \in 1 .. L : s[i].start \in Nat
    BY <1>1 DEF AnyClaim
  <2>2. CASE j = b + 1
    <3>1. from(k) \in b + 1 .. L /\ from(k) \in 1 .. L /\ k # b + 1
      BY <1>5, <1>9, <2>2
    <3>2. s[from(k)].start > c.start
      BY <1>2, <3>1 DEF L
    <3> QED
      BY <1>5, <1>6, <2>1, <2>2, <3>1, <3>2
  <2>3. CASE k = b + 1
    <3>1. from(j) \in 1 .. b /\ from(j) \in 1 .. L /\ j # b + 1
      BY <1>5, <1>9, <2>3
    <3>2. s[from(j)].start <= c.start
      BY <1>2, <3>1
    <3> QED
      BY <1>5, <1>6, <2>1, <2>3, <3>1, <3>2
  <2>4. CASE j # b + 1 /\ k # b + 1
    <3>1. from(j) < from(k) /\ from(j) \in DOMAIN s /\ from(k) \in DOMAIN s
      BY <1>1, <1>5, <1>7, <2>4, Zenon
    <3>2. s[from(j)].start <= s[from(k)].start
      BY <3>1, Zenon DEF Ordered
    <3> QED
      BY <1>5, <2>4, <3>2, Zenon
  <2> QED
    BY <2>2, <2>3, <2>4, Zenon
<1> QED
  BY <1>3, <1>10, <1>12, <1>13 DEF r

LEMMA SortKeeps ==
  ASSUME NEW claims \in Seq(AnyClaim), Apart(claims)
  PROVE  /\ SortBySource(claims) \in Seq(AnyClaim)
         /\ Apart(SortBySource(claims)) /\ Ordered(SortBySource(claims))
         /\ ToSet(SortBySource(claims)) = ToSet(claims)
<1> DEFINE M == Len(claims)
           Body(s, n) == InsertBySource(s, claims[n])
           Is(f) == f = [n \in 0 .. M |-> IF n = 0 THEN <<>> ELSE Body(f[n - 1], n)]
           step == [p \in Seq(AnyClaim) \X (1 .. M) |-> Body(p[1], p[2])]
           sorted == CHOOSE f : Is(f)
           Part(n) == {claims[k] : k \in 1 .. n}
<1>1. M \in Nat /\ DOMAIN claims = 1 .. M /\ \A k \in 1 .. M : claims[k] \in AnyClaim
  BY LenProperties, ElementOfSeq
<1>2. SortBySource(claims) = sorted[M]
  BY Zenon DEF SortBySource
<1>3. \A s \in Seq(AnyClaim) : \A n \in 1 .. M : Body(s, n) \in Seq(AnyClaim)
  <2> SUFFICES ASSUME NEW s \in Seq(AnyClaim), NEW n \in 1 .. M PROVE InsertBySource(s, claims[n]) \in Seq(AnyClaim)
    OBVIOUS
  <2>1. claims[n] \in AnyClaim
    BY <1>1
  <2>2. PICK b \in 0 .. Len(s) : InsertBySource(s, claims[n]) = InsertAt(s, b + 1, claims[n])
    BY <2>1, InsertPlace, Zenon
  <2>3. InsertAt(s, b + 1, claims[n]) \in Seq(AnyClaim)
    BY <2>1, InsertedAt
  <2> QED
    BY <2>2, <2>3, Zenon
<1>4. ToSet(claims) = Part(M)
  BY <1>1, Zenon DEF ToSet
<1>5. \A s, n : Body(s, n) = InsertBySource(s, claims[n])
  OBVIOUS
<1> HIDE DEF Body
<1>6. Is(sorted)
  <2> DEFINE X == Seq(AnyClaim)
             base == <<>>
  <2>1. step \in [X \X (1 .. M) -> X]
    BY <1>3
  <2>2. base \in X
    OBVIOUS
  <2> HIDE DEF step, X, M, base
  <2>3. \E g : Recursive(g, base, step, M) /\ \A n \in 0 .. M : g[n] \in X
    BY <1>1, <2>1, <2>2, RecursionExists, Zenon
  <2>4. PICK g : /\ g = [n \in 0 .. M |-> IF n = 0 THEN base ELSE step[<<g[n - 1], n>>]]
                 /\ \A n \in 0 .. M : g[n] \in X
    BY <2>3, Zenon DEF Recursive
  <2>5. \A n \in 1 .. M : g[n - 1] \in X
    BY <1>1, <2>4
  <2>6. \A n \in 1 .. M : step[<<g[n - 1], n>>] = Body(g[n - 1], n)
    BY <2>5 DEF step, X
  <2>7. \A n \in 0 .. M : (IF n = 0 THEN base ELSE step[<<g[n - 1], n>>])
                           = (IF n = 0 THEN base ELSE Body(g[n - 1], n))
    BY <1>1, <2>6
  <2>8. [n \in 0 .. M |-> IF n = 0 THEN base ELSE step[<<g[n - 1], n>>]]
          = [n \in 0 .. M |-> IF n = 0 THEN base ELSE Body(g[n - 1], n)]
    BY <2>7, Zenon
  <2>9. Is(g)
    BY <2>4, <2>8, Zenon DEF base
  <2> QED
    BY <2>9, Zenon
<1> HIDE DEF sorted, step, M
<1>7. sorted = [n \in 0 .. M |-> IF n = 0 THEN <<>> ELSE Body(sorted[n - 1], n)]
  BY <1>6, Zenon
<1> DEFINE Good(s, n) == s \in Seq(AnyClaim) /\ Apart(s) /\ Ordered(s) /\ ToSet(s) = Part(n)
           T == {n \in 0 .. M : Good(sorted[n], n)}
<1>8. 0 \in T
  <2>1. sorted[0] = <<>> /\ 0 \in 0 .. M
    BY <1>1, <1>7
  <2>2. <<>> \in Seq(AnyClaim) /\ DOMAIN <<>> = {} /\ Part(0) = {}
    OBVIOUS
  <2> HIDE DEF Part
  <2>3. Apart(<<>>) /\ Ordered(<<>>) /\ ToSet(<<>>) = {}
    BY <2>2, Zenon DEF Apart, Ordered, ToSet
  <2> QED
    BY <2>1, <2>2, <2>3, Zenon
<1>9. ASSUME NEW n \in 1 .. M, n - 1 \in T PROVE n \in T
  <2> DEFINE s == sorted[n - 1]
             c == claims[n]
  <2>1. Good(s, n - 1)
    BY <1>9, Zenon
  <2>2. sorted[n] = InsertBySource(s, c) /\ n \in 0 .. M
    <3>1. n \in 0 .. M /\ n # 0
      BY <1>1
    <3>2. sorted[n] = IF n = 0 THEN <<>> ELSE Body(sorted[n - 1], n)
      BY <1>7, <3>1, Zenon
    <3> QED
      BY <1>5, <3>1, <3>2, Zenon
  <2>3. Part(n) = Part(n - 1) \cup {c}
    <3>1. 1 .. n = (1 .. n - 1) \cup {n}
      BY <1>1
    <3> QED
      BY <3>1
  <2>4. c \in AnyClaim /\ n \in DOMAIN claims /\ \A k \in 1 .. n - 1 : k \in DOMAIN claims /\ k # n
    BY <1>1
  <2>5. \A d \in Part(n - 1) : \E k \in 1 .. n - 1 : d = claims[k]
    OBVIOUS
  <2> HIDE DEF Part
  <2>6. \A d \in ToSet(s) : Overlaps(d, c) => d.verdict = "forbidden" /\ c.verdict = "forbidden"
    <3>1. ASSUME NEW d \in ToSet(s), Overlaps(d, c)
          PROVE  d.verdict = "forbidden" /\ c.verdict = "forbidden"
      <4>1. PICK k \in 1 .. n - 1 : d = claims[k]
        BY <2>1, <2>5, <3>1, Zenon
      <4> QED
        BY <2>4, <3>1, <4>1, Zenon DEF Apart
    <3> QED
      BY <3>1, Zenon
  <2> HIDE DEF c, s
  <2>7. s \in Seq(AnyClaim) /\ Apart(s) /\ Ordered(s) /\ ToSet(s) = Part(n - 1)
    BY <2>1, Zenon
  <2>8. Good(InsertBySource(s, c), n)
    BY <2>3, <2>4, <2>6, <2>7, InsertKeeps, Zenon
  <2> QED
    BY <2>2, <2>8, Zenon
<1> HIDE DEF T, Part
<1>10. M \in T
  <2>1. \A n \in 0 .. M : n \in T
    BY <1>1, <1>8, <1>9, UpTo, Zenon
  <2>2. M \in 0 .. M
    BY <1>1
  <2> QED
    BY <2>1, <2>2, Zenon
<1>11. Good(sorted[M], M)
  BY <1>10, Zenon DEF T
<1> QED
  BY <1>2, <1>4, <1>11, Zenon

-----------------------------------------------------------------------------
(* The claims of a text                                                    *)

LEMMA TextIsSequence ==
  ASSUME NEW ph \in BoundedSeq(Phrases, MaxPhrases)
  PROVE  Len(Text(ph)) \in Nat /\ DOMAIN Text(ph) = 1 .. Len(Text(ph))
<1> DEFINE Spelt == {phrase.words[n] : phrase \in Phrases, n \in Nat}
           Entered == [word : Spelt, field : Seq(Nat)]
           item(k, n) == [word |-> ph[k].words[n],
                          field |-> IF ph[k].joined THEN <<k>> ELSE <<k, n>>]
           parts == [k \in DOMAIN ph |-> [n \in DOMAIN ph[k].words |-> item(k, n)]]
<1>1. PICK m \in Nat : ph \in [1 .. m -> Phrases]
  BY ClaimAssumption DEF BoundedSeq, SeqOf
<1>2. ASSUME NEW k \in 1 .. m PROVE parts[k] \in Seq(Entered)
  <2>1. ph[k] \in Phrases /\ k \in DOMAIN ph /\ k \in Nat
    BY <1>1
  <2>2. IsSequence(ph[k].words)
    BY <2>1, ClaimAssumption
  <2>3. Len(ph[k].words) \in Nat /\ DOMAIN ph[k].words = 1 .. Len(ph[k].words)
    BY <2>2, LenProperties DEF IsSequence
  <2>4. ASSUME NEW n \in 1 .. Len(ph[k].words) PROVE item(k, n) \in Entered
    <3>1. n \in Nat
      BY <2>3
    <3>2. ph[k].words[n] \in Spelt
      BY <2>1, <3>1
    <3> HIDE DEF Spelt
    <3>3. (IF ph[k].joined THEN <<k>> ELSE <<k, n>>) \in Seq(Nat)
      <4>1. <<k>> \in Seq(Nat) /\ <<k, n>> \in Seq(Nat)
        BY <2>1, <3>1
      <4> QED
        BY <4>1, Zenon
    <3> QED
      BY <3>2, <3>3
  <2> HIDE DEF item, Entered
  <2>5. parts[k] = [n \in 1 .. Len(ph[k].words) |-> item(k, n)]
    BY <2>1, <2>3
  <2> HIDE DEF parts
  <2> QED
    BY <2>3, <2>4, <2>5, IsASeq
<1>3. DOMAIN parts = 1 .. m
  BY <1>1
<1>4. Text(ph) = FlattenSeq(parts)
  BY Zenon DEF Text
<1> HIDE DEF parts, Entered
<1>5. parts \in Seq(Seq(Entered))
  <2>1. parts = [k \in 1 .. m |-> parts[k]]
    BY <1>3, Zenon DEF parts
  <2> QED
    BY <1>1, <1>2, <2>1, IsASeq
<1>6. Text(ph) \in Seq(Entered)
  BY <1>4, <1>5, FlattenElements, Zenon
<1> QED
  BY <1>6, LenProperties

LEMMA PlacesAreSpans ==
  ASSUME NEW text, Len(text) \in Nat, DOMAIN text = 1 .. Len(text), NEW rule, IsSequence(rule)
  PROVE  Places(rule, text) \in Seq(Spans)
<1> DEFINE here(k) == \A n \in DOMAIN rule : WordIn(text, k + n - 1) = rule[n]
           part(k) == IF here(k) THEN << [start |-> k, end |-> k + Len(rule)] >> ELSE <<>>
           parts == [k \in DOMAIN text |-> part(k)]
<1>1. Len(rule) \in Nat
  BY LenProperties DEF IsSequence
<1>2. ASSUME NEW k \in 1 .. Len(text) PROVE part(k) \in Seq(Spans)
  <2>1. [start |-> k, end |-> k + Len(rule)] \in Spans
    BY <1>1 DEF Spans
  <2>2. << [start |-> k, end |-> k + Len(rule)] >> \in Seq(Spans) /\ <<>> \in Seq(Spans)
    BY <2>1
  <2> HIDE DEF here
  <2> QED
    BY <2>2, Zenon
<1>3. Places(rule, text) = FlattenSeq(parts)
  BY Zenon DEF Places
<1> HIDE DEF part
<1>4. parts \in Seq(Seq(Spans))
  BY <1>2, IsASeq
<1> HIDE DEF parts
<1> QED
  BY <1>3, <1>4, FlattenElements, Zenon

\* The rules' claims are all there before the scans.
LEMMA ForbiddenFirst ==
  ASSUME NEW places \in Seq(Seq(Spans)), NEW text, NEW facts
  PROVE  /\ Scanned(Forbidden(places), 1, {}, text, facts, ToSet(Forbidden(places)))
         /\ \A r \in DOMAIN places : \A sp \in ToSet(places[r]) :
              Claim(sp, "forbidden", "forbidden") \in ToSet(Forbidden(places))
<1> DEFINE part(r) == [k \in DOMAIN places[r] |-> Claim(places[r][k], "forbidden", "forbidden")]
           parts == [r \in DOMAIN places |-> part(r)]
           F == Forbidden(places)
<1>1. /\ Len(places) \in Nat /\ DOMAIN places = 1 .. Len(places)
      /\ \A r \in DOMAIN places : places[r] \in Seq(Spans)
  BY LenProperties, ElementOfSeq
<1>2. ASSUME NEW sp \in Spans
      PROVE  /\ Claim(sp, "forbidden", "forbidden") \in AnyClaim
             /\ Claim(sp, "forbidden", "forbidden").category = "forbidden"
             /\ Claim(sp, "forbidden", "forbidden").verdict = "forbidden"
  BY DEF Claim, AnyClaim, Spans
<1>3. ASSUME NEW r \in DOMAIN places
      PROVE  /\ part(r) \in Seq(AnyClaim)
             /\ \A c : c \in ToSet(part(r)) <=>
                         \E sp \in ToSet(places[r]) : c = Claim(sp, "forbidden", "forbidden")
             /\ \A sp \in ToSet(places[r]) : sp \in Spans
  <2>1. /\ Len(places[r]) \in Nat /\ DOMAIN places[r] = 1 .. Len(places[r])
        /\ \A k \in 1 .. Len(places[r]) : places[r][k] \in Spans
    BY <1>1, LenProperties, ElementOfSeq
  <2>2. part(r) \in Seq(AnyClaim)
    BY <1>2, <2>1, IsASeq
  <2>3. ToSet(part(r)) = {part(r)[k] : k \in DOMAIN places[r]}
    BY DEF ToSet
  <2>4. ToSet(places[r]) = {places[r][k] : k \in DOMAIN places[r]}
    BY Zenon DEF ToSet
  <2>5. \A k \in DOMAIN places[r] : part(r)[k] = Claim(places[r][k], "forbidden", "forbidden")
    OBVIOUS
  <2> HIDE DEF part
  <2> QED
    BY <2>1, <2>2, <2>3, <2>4, <2>5
<1>4. F = FlattenSeq(parts)
  BY Zenon DEF Forbidden
<1> HIDE DEF part, F
<1>5. parts \in Seq(Seq(AnyClaim)) /\ DOMAIN parts = DOMAIN places
  BY <1>1, <1>3, IsASeq
<1>6. \A r \in DOMAIN places : parts[r] = part(r)
  OBVIOUS
<1> HIDE DEF parts
<1>7. F \in Seq(AnyClaim) /\ ToSet(F) = UNION {ToSet(parts[r]) : r \in DOMAIN parts}
  BY <1>4, <1>5, FlattenElements, Zenon
<1>8. \A c : c \in ToSet(F) <=>
        \E r \in DOMAIN places : \E sp \in ToSet(places[r]) : c = Claim(sp, "forbidden", "forbidden")
  <2>1. \A c : c \in ToSet(F) <=> \E r \in DOMAIN places : c \in ToSet(part(r))
    BY <1>5, <1>6, <1>7
  <2>2. ASSUME NEW c
        PROVE  (\E r \in DOMAIN places : c \in ToSet(part(r))) <=>
                 \E r \in DOMAIN places : \E sp \in ToSet(places[r]) : c = Claim(sp, "forbidden", "forbidden")
    <3>1. \A r \in DOMAIN places :
            c \in ToSet(part(r)) <=> \E sp \in ToSet(places[r]) : c = Claim(sp, "forbidden", "forbidden")
      BY <1>3
    <3> QED
      BY <3>1, Zenon
  <2> QED
    BY <2>1, <2>2, Zenon
<1>9. \A c \in ToSet(F) : c.category = "forbidden" /\ c.verdict = "forbidden"
  <2> SUFFICES ASSUME NEW c \in ToSet(F) PROVE c.category = "forbidden" /\ c.verdict = "forbidden"
    OBVIOUS
  <2>1. PICK r \in DOMAIN places : \E sp \in ToSet(places[r]) : c = Claim(sp, "forbidden", "forbidden")
    BY <1>8
  <2>2. PICK sp \in ToSet(places[r]) : c = Claim(sp, "forbidden", "forbidden")
    BY <2>1
  <2>3. sp \in Spans
    BY <1>3
  <2> QED
    BY <1>2, <2>2, <2>3
<1>10. \A k \in DOMAIN F : F[k] \in ToSet(F)
  BY Zenon DEF ToSet
<1>11. Apart(F)
  BY <1>9, <1>10, Zenon DEF Apart
<1>12. \A c \in ToSet(F) : Within(c, 1, text, facts)
  BY <1>9, Zenon DEF Within
<1>13. \A p \in 1 .. 1 - 1 : FALSE
  OBVIOUS
<1>14. Scanned(F, 1, {}, text, facts, ToSet(F))
  BY <1>7, <1>11, <1>12, <1>13, Zenon DEF Scanned
<1> QED
  BY <1>8, <1>14, Zenon DEF F

-----------------------------------------------------------------------------
(* Matches are answered, true numbers verified                             *)

LEMMA RankIs ==
  /\ Rank("forbidden") = 0
  /\ \A n \in 1 .. 6 : Rank(Scans[n]) = n
<1>1. ASSUME NEW n \in 1 .. 6
      PROVE  Scans[n] # "forbidden" /\ \A k \in 1 .. 6 : Scans[k] = Scans[n] <=> k = n
  BY ScansAre
<1>2. ASSUME NEW n \in 1 .. 6 PROVE Rank(Scans[n]) = n
  <2>1. n \in DOMAIN Scans /\ \A k \in DOMAIN Scans : Scans[k] = Scans[n] <=> k = n
    BY <1>1, ScansAre
  <2>2. (CHOOSE k \in DOMAIN Scans : Scans[k] = Scans[n]) = n
    BY <2>1
  <2> QED
    BY <1>1, <2>2, Zenon DEF Rank
<1> QED
  BY <1>2 DEF Rank

\* A claim within the first n scans has a category of one of them.
LEMMA WithinRank ==
  ASSUME NEW c, NEW n \in 1 .. 6, NEW text, NEW facts, Within(c, n, text, facts)
  PROVE  Rank(c.category) <= n
<1>1. CASE c.category = "forbidden"
  BY <1>1, RankIs
<1>2. CASE c.category # "forbidden"
  <2>1. PICK p \in 1 .. n : OfScan(c, p, text, facts)
    BY <1>2, Zenon DEF Within
  <2>2. \E m : c = Claim(m, Scans[p], VerdictOf(Scans[p], text, facts, m))
    BY <2>1, Zenon DEF OfScan
  <2>3. c.category = Scans[p]
    BY <2>2 DEF Claim
  <2>4. p \in 1 .. 6
    OBVIOUS
  <2>5. Rank(Scans[p]) = p
    BY <2>4, RankIs
  <2> QED
    BY <2>3, <2>5
<1> QED
  BY <1>1, <1>2

\* What Detect returns of an input of ClaimSpec.
Detected(claims, text, facts, rules) ==
  /\ claims \in Seq(AnyClaim) /\ Apart(claims) /\ Ordered(claims)
  /\ \A r \in DOMAIN rules : \A sp \in ToSet(Places(rules[r], text)) :
       Claim(sp, "forbidden", "forbidden") \in ToSet(claims)
  /\ \A n \in 1 .. 6 : \A m \in ToSet(Matches(Scans[n], text)) : Answered(claims, n, m, text, facts)

LEMMA DetectFinds ==
  ASSUME NEW text, Len(text) \in Nat, DOMAIN text = 1 .. Len(text), NEW facts,
         NEW rules \in RuleLists
  PROVE  Detected(Detect(text, facts, [r \in DOMAIN rules |-> Places(rules[r], text)]),
                  text, facts, rules)
<1> DEFINE places == [r \in DOMAIN rules |-> Places(rules[r], text)]
<1>1. IsSequence(rules) /\ \A r \in DOMAIN rules : IsSequence(rules[r])
  BY ClaimAssumption
<1>2. Len(rules) \in Nat /\ DOMAIN rules = 1 .. Len(rules)
  BY <1>1, LenProperties DEF IsSequence
<1>3. \A r \in DOMAIN rules : Places(rules[r], text) \in Seq(Spans)
  BY <1>1, PlacesAreSpans, Zenon
<1>4. places \in Seq(Seq(Spans))
  BY <1>2, <1>3, IsASeq
<1>5. DOMAIN places = DOMAIN rules /\ \A r \in DOMAIN rules : places[r] = Places(rules[r], text)
  OBVIOUS
<1> HIDE DEF places
<1>6. /\ Scanned(Forbidden(places), 1, {}, text, facts, ToSet(Forbidden(places)))
      /\ \A r \in DOMAIN places : \A sp \in ToSet(places[r]) :
           Claim(sp, "forbidden", "forbidden") \in ToSet(Forbidden(places))
  BY <1>4, ForbiddenFirst
<1>7. PICK claims :
        /\ Detect(text, facts, places) = SortBySource(claims)
        /\ Scanned(claims, 6, ToSet(Matches(Scans[6], text)), text, facts,
                   ToSet(Forbidden(places)))
  BY <1>6, AllScanned, Zenon
<1> DEFINE found == SortBySource(claims)
<1>8. claims \in Seq(AnyClaim) /\ Apart(claims)
  BY <1>7, Zenon DEF Scanned
<1>9. /\ found \in Seq(AnyClaim) /\ Apart(found) /\ Ordered(found)
      /\ ToSet(found) = ToSet(claims)
  BY <1>8, SortKeeps, Zenon
<1> HIDE DEF found
<1>10. ASSUME NEW r \in DOMAIN rules, NEW sp \in ToSet(Places(rules[r], text))
       PROVE  Claim(sp, "forbidden", "forbidden") \in ToSet(found)
  <2>1. Claim(sp, "forbidden", "forbidden") \in ToSet(Forbidden(places))
    BY <1>5, <1>6, Zenon
  <2>2. ToSet(Forbidden(places)) \subseteq ToSet(claims)
    BY <1>7, Zenon DEF Scanned
  <2> QED
    BY <1>9, <2>1, <2>2, Zenon
<1>11. ASSUME NEW n \in 1 .. 6, NEW m \in ToSet(Matches(Scans[n], text))
       PROVE  Answered(found, n, m, text, facts)
  <2>1. n \in 1 .. 6 - 1 \/ n = 6
    OBVIOUS
  <2>2. Answered(claims, n, m, text, facts)
    BY <1>7, <2>1, Zenon DEF Scanned
  <2>3. ToSet(claims) \subseteq ToSet(found)
    BY <1>9, Zenon
  <2> QED
    BY <2>2, <2>3, AnsweredStays, Zenon
<1> QED
  BY <1>7, <1>9, <1>10, <1>11, Zenon DEF Detected, found, places

\* Some input of ClaimSpec, and what is found in its text.
IsForbidden(hay, needle, threshold) ==
  /\ input = [form |-> "fuzzy", hay |-> hay, needle |-> needle, threshold |-> threshold]
  /\ done => answer = FindFuzzyOccurrences(hay, needle, threshold)

IsClaims(text, facts, rules) ==
  /\ input = [form |-> "claims", text |-> text, facts |-> facts, rules |-> rules]
  /\ done => answer = Detect(text, facts, [r \in DOMAIN rules |-> Places(rules[r], text)])

ClaimInv ==
  \/ \E hay \in BoundedSeq(Alphabet, MaxText), needle \in Needles, threshold \in Thresholds :
       IsForbidden(hay, needle, threshold)
  \/ \E ph \in BoundedSeq(Phrases, MaxPhrases), facts \in FactTrees, rules \in RuleLists :
       IsClaims(Text(ph), facts, rules)

LEMMA ClaimInvHolds == ClaimSpec => []ClaimInv
<1>1. ClaimInit => ClaimInv
  <2> SUFFICES ASSUME ClaimInit PROVE ClaimInv
    OBVIOUS
  <2>1. ~ done
    BY Zenon DEF ClaimInit
  <2>2. CASE input \in [form : {"fuzzy"}, hay : BoundedSeq(Alphabet, MaxText), needle : Needles,
                       threshold : Thresholds]
    <3>1. \E hay \in BoundedSeq(Alphabet, MaxText), needle \in Needles, threshold \in Thresholds :
            input = [form |-> "fuzzy", hay |-> hay, needle |-> needle, threshold |-> threshold]
      BY <2>2
    <3> QED
      BY <2>1, <3>1, Zenon DEF ClaimInv, IsForbidden
  <2>3. CASE input \in [form : {"claims"}, text : {Text(ph) : ph \in BoundedSeq(Phrases, MaxPhrases)},
                       facts : FactTrees, rules : RuleLists]
    <3>1. \E ph \in BoundedSeq(Phrases, MaxPhrases), facts \in FactTrees, rules \in RuleLists :
            input = [form |-> "claims", text |-> Text(ph), facts |-> facts, rules |-> rules]
      BY <2>3
    <3> QED
      BY <2>1, <3>1, Zenon DEF ClaimInv, IsClaims
  <2> QED
    BY <2>2, <2>3, Zenon DEF ClaimInit, ClaimInput
<1>2. ClaimInv /\ [ClaimNext]_examVars => ClaimInv'
  <2> SUFFICES ASSUME ClaimInv, [ClaimNext]_examVars PROVE ClaimInv'
    OBVIOUS
  <2>1. ASSUME NEW hay \in BoundedSeq(Alphabet, MaxText), NEW needle \in Needles,
               NEW threshold \in Thresholds, IsForbidden(hay, needle, threshold)
        PROVE  IsForbidden(hay, needle, threshold)'
    <3>1. /\ input = [form |-> "fuzzy", hay |-> hay, needle |-> needle, threshold |-> threshold]
          /\ done => answer = FindFuzzyOccurrences(hay, needle, threshold)
      BY <2>1 DEF IsForbidden
    <3>2. /\ input.form = "fuzzy" /\ input.hay = hay /\ input.needle = needle
          /\ input.threshold = threshold
      BY <3>1
    <3>3. CASE FindForbidden
      BY <3>1, <3>2, <3>3, Zenon DEF FindForbidden, Answer, IsForbidden
    <3>4. CASE DetectClaims
      BY <3>2, <3>4 DEF DetectClaims
    <3>5. CASE UNCHANGED examVars
      <4>1. input' = input /\ done' = done /\ answer' = answer
        BY <3>5 DEF examVars
      <4> QED
        BY <3>1, <4>1, Zenon DEF IsForbidden
    <3> QED
      BY <3>3, <3>4, <3>5 DEF ClaimNext
  <2>2. ASSUME NEW ph \in BoundedSeq(Phrases, MaxPhrases), NEW facts \in FactTrees,
               NEW rules \in RuleLists, IsClaims(Text(ph), facts, rules)
        PROVE  IsClaims(Text(ph), facts, rules)'
    <3> DEFINE text == Text(ph)
    <3>1. /\ input = [form |-> "claims", text |-> text, facts |-> facts, rules |-> rules]
          /\ done => answer = Detect(text, facts, [r \in DOMAIN rules |-> Places(rules[r], text)])
      BY <2>2, Zenon DEF IsClaims
    <3>2. input.form = "claims" /\ input.text = text /\ input.facts = facts /\ input.rules = rules
      BY <3>1
    <3>3. CASE FindForbidden
      BY <3>2, <3>3 DEF FindForbidden
    <3>4. CASE DetectClaims
      <4>1. /\ input' = input
            /\ answer' = Detect(input.text, input.facts,
                                [r \in DOMAIN input.rules |-> Places(input.rules[r], input.text)])
        BY <3>4, Zenon DEF DetectClaims, Answer
      <4>2. answer' = Detect(text, facts, [r \in DOMAIN rules |-> Places(rules[r], text)])
        BY <3>2, <4>1, Zenon
      <4> QED
        BY <3>1, <4>1, <4>2, Zenon DEF IsClaims
    <3>5. CASE UNCHANGED examVars
      <4>1. input' = input /\ done' = done /\ answer' = answer
        BY <3>5 DEF examVars
      <4> QED
        BY <3>1, <4>1, Zenon DEF IsClaims
    <3> QED
      BY <3>3, <3>4, <3>5 DEF ClaimNext
  <2> QED
    BY <2>1, <2>2, Zenon DEF ClaimInv
<1> QED
  BY <1>1, <1>2, PTL DEF ClaimSpec

LEMMA ClaimsAreDetected ==
  ASSUME ClaimInv, done, input.form = "claims"
  PROVE  /\ Detected(answer, input.text, input.facts, input.rules)
         /\ Len(input.text) \in Nat
<1>1. PICK ph \in BoundedSeq(Phrases, MaxPhrases), facts \in FactTrees, rules \in RuleLists :
        /\ input = [form |-> "claims", text |-> Text(ph), facts |-> facts, rules |-> rules]
        /\ answer = Detect(Text(ph), facts,
                           [r \in DOMAIN rules |-> Places(rules[r], Text(ph))])
  <2>1. \A hay, needle, threshold : ~ IsForbidden(hay, needle, threshold)
    BY DEF IsForbidden
  <2> QED
    BY <2>1, Zenon DEF ClaimInv, IsClaims
<1>2. input.text = Text(ph) /\ input.facts = facts /\ input.rules = rules
  BY <1>1
<1>3. Len(Text(ph)) \in Nat /\ DOMAIN Text(ph) = 1 .. Len(Text(ph))
  BY TextIsSequence
<1>4. Detected(answer, Text(ph), facts, rules)
  BY <1>1, <1>3, DetectFinds, Zenon
<1> QED
  BY <1>2, <1>3, <1>4, Zenon

THEOREM MatchesAreAnsweredRight == ClaimSpec => []MatchesAreAnswered
<1>1. ClaimInv => MatchesAreAnswered
  <2> SUFFICES ASSUME ClaimInv, done, input.form = "claims" PROVE MatchesAreAnswered
    BY DEF MatchesAreAnswered, Done
  <2> DEFINE text == input.text
             facts == input.facts
  <2>1. Detected(answer, text, facts, input.rules)
    BY ClaimsAreDetected
  <2> HIDE DEF text, facts
  <2>2. ASSUME NEW j \in DOMAIN answer, NEW k \in DOMAIN answer, j < k
        PROVE  /\ answer[j].start <= answer[k].start
               /\ Overlaps(answer[j], answer[k]) =>
                    answer[j].verdict = "forbidden" /\ answer[k].verdict = "forbidden"
    <3>1. answer[j].start <= answer[k].start
      BY <2>1, <2>2, Zenon DEF Detected, Ordered
    <3>2. answer \in Seq(AnyClaim)
      BY <2>1, Zenon DEF Detected
    <3>3. j # k
      BY <2>2, <3>2
    <3> QED
      BY <2>1, <3>1, <3>3, Zenon DEF Detected, Apart
  <2>3. ASSUME NEW category \in ToSet(Scans) \ {"contradiction"},
               NEW m \in ToSet(Matches(category, text))
        PROVE  \/ \E c \in ToSet(answer) : Overlaps(m, c) /\ Rank(c.category) <= Rank(category)
               \/ WordIn(text, m.start - 1) = "since" /\ m.end = m.start + 1
    <3>1. PICK n \in 1 .. 6 : category = Scans[n]
      BY ScansAre, Zenon DEF ToSet
    <3>2. Answered(answer, n, m, text, facts) /\ Rank(category) = n
      BY <2>1, <3>1, RankIs, Zenon DEF Detected
    <3>3. CASE IsClaim(category, text, facts, m)
      <4>1. PICK c \in ToSet(answer) : Overlaps(m, c) /\ Within(c, n, text, facts)
        BY <3>1, <3>2, <3>3, Zenon DEF Answered
      <4>2. Rank(c.category) <= n
        BY <4>1, WithinRank, Zenon
      <4> QED
        BY <3>2, <4>1, <4>2, Zenon
    <3>4. CASE ~ IsClaim(category, text, facts, m)
      <4>1. m.end = m.start + 1 /\ IsTemporalYearContext(text, m)
        BY <3>4, Zenon DEF IsClaim
      <4> QED
        BY <4>1 DEF IsTemporalYearContext
    <3> QED
      BY <3>3, <3>4, Zenon
  <2> QED
    BY <2>1, <2>2, <2>3, Zenon DEF MatchesAreAnswered, Detected, text, facts
<1> QED
  BY <1>1, ClaimInvHolds, PTL

LEMMA NumbersAre ==
  /\ \A w : IsNumber(w) <=> w \in {"12", "15", "01", "02", "2015", "1,200", "1200"}
  /\ \A w : IsNumber(w) => IsNumber(Plain(w)) /\ Value[Plain(w)] = Value[w]
  /\ ~ IsNumber("users")
<1>1. \A w : IsNumber(w) <=> w \in {"12", "15", "01", "02", "2015", "1,200", "1200"}
  BY DEF IsNumber, Value
<1>2. Value["1200"] = Value["1,200"]
  BY DEF Value
<1>3. ASSUME NEW w, IsNumber(w) PROVE IsNumber(Plain(w)) /\ Value[Plain(w)] = Value[w]
  <2>1. CASE w = "1,200"
    <3>1. Plain(w) = "1200"
      BY <2>1, Zenon DEF Plain
    <3>2. IsNumber("1200")
      BY <1>1, Zenon
    <3> QED
      BY <1>2, <2>1, <3>1, <3>2, Zenon
  <2>2. CASE w # "1,200"
    BY <1>3, <2>2, Zenon DEF Plain
  <2> QED
    BY <2>1, <2>2, Zenon
<1> QED
  BY <1>1, <1>3, Zenon

\* Two matches that overlap, one a count and the other a count or a number,
\* begin with the same number.
LEMMA CountsBeginTogether ==
  ASSUME NEW text, Len(text) \in Nat, NEW n \in {1, 5},
         NEW m \in ToSet(Matches(Scans[5], text)), NEW other \in ToSet(Matches(Scans[n], text)),
         Overlaps(m, other)
  PROVE  /\ IsNumber(WordIn(text, m.start)) /\ other.start = m.start
         /\ n = 5 => other = m
<1>1. IsMatch(Scans[5], text, m) /\ IsMatch(Scans[n], text, other)
  <2>1. 5 \in 1 .. 6 /\ n \in 1 .. 6
    OBVIOUS
  <2> QED
    BY <2>1, MatchElements, Zenon
<1>2. ASSUME NEW x, IsMatch("quantitative", text, x)
      PROVE  /\ IsNumber(WordIn(text, x.start)) /\ WordIn(text, x.start + 1) = "users"
             /\ x.end = x.start + 2 /\ x = [start |-> x.start, end |-> x.start + 2]
             /\ x.start \in Nat
  <2>1. /\ x.start \in 1 .. Len(text) /\ LengthAt("quantitative", text, x.start) # 0
        /\ x = [start |-> x.start, end |-> x.start + LengthAt("quantitative", text, x.start)]
    BY <1>2 DEF IsMatch
  <2>2. LengthAt("quantitative", text, x.start) =
          IF IsNumber(WordIn(text, x.start)) /\ WordIn(text, x.start + 1) \in {"users"} THEN 2 ELSE 0
    BY DEF LengthAt
  <2>3. /\ IsNumber(WordIn(text, x.start)) /\ WordIn(text, x.start + 1) = "users"
        /\ LengthAt("quantitative", text, x.start) = 2
    BY <2>1, <2>2
  <2>4. x = [start |-> x.start, end |-> x.start + 2]
    BY <2>1, <2>3, Zenon
  <2>5. x.end = x.start + 2
    BY <2>4
  <2>6. x.start \in Nat
    BY <2>1
  <2> QED
    BY <2>3, <2>4, <2>5, <2>6, Zenon
<1>3. ASSUME NEW x, IsMatch("contradiction", text, x)
      PROVE  IsNumber(WordIn(text, x.start)) /\ x.end = x.start + 1 /\ x.start \in Nat
  <2>1. /\ x.start \in 1 .. Len(text) /\ LengthAt("contradiction", text, x.start) # 0
        /\ x = [start |-> x.start, end |-> x.start + LengthAt("contradiction", text, x.start)]
    BY <1>3 DEF IsMatch
  <2>2. LengthAt("contradiction", text, x.start) = IF IsNumber(WordIn(text, x.start)) THEN 1 ELSE 0
    BY DEF LengthAt
  <2>3. IsNumber(WordIn(text, x.start)) /\ LengthAt("contradiction", text, x.start) = 1
    BY <2>1, <2>2
  <2>4. x = [start |-> x.start, end |-> x.start + 1]
    BY <2>1, <2>3, Zenon
  <2> QED
    BY <2>1, <2>3, <2>4
<1>4. Scans[5] = "quantitative" /\ Scans[1] = "contradiction"
  BY ScansAre
<1>5. /\ IsNumber(WordIn(text, m.start)) /\ WordIn(text, m.start + 1) = "users"
      /\ m.end = m.start + 2 /\ m = [start |-> m.start, end |-> m.start + 2]
      /\ m.start \in Nat
  BY <1>1, <1>2, <1>4, Zenon
<1>6. m.start < other.end /\ other.start < m.end
  BY Zenon DEF Overlaps
<1>7. CASE n = 1
  <2>1. IsNumber(WordIn(text, other.start)) /\ other.end = other.start + 1 /\ other.start \in Nat
    BY <1>1, <1>3, <1>4, <1>7, Zenon
  <2>2. other.start # m.start + 1
    BY <1>5, <2>1, NumbersAre, Zenon
  <2>3. other.start = m.start
    BY <1>5, <1>6, <2>1, <2>2
  <2> QED
    BY <1>5, <1>7, <2>3
<1>8. CASE n = 5
  <2>1. /\ IsNumber(WordIn(text, other.start)) /\ WordIn(text, other.start + 1) = "users"
        /\ other.end = other.start + 2 /\ other = [start |-> other.start, end |-> other.start + 2]
        /\ other.start \in Nat
    BY <1>1, <1>2, <1>4, <1>8, Zenon
  <2>2. other.start # m.start + 1 /\ m.start # other.start + 1
    BY <1>5, <2>1, NumbersAre, Zenon
  <2>3. other.start = m.start
    BY <1>5, <1>6, <2>1, <2>2
  <2>4. other = m
    BY <1>5, <2>1, <2>3, Zenon
  <2> QED
    BY <1>5, <2>3, <2>4
<1> QED
  BY <1>7, <1>8

THEOREM TrueNumbersAreRight == ClaimSpec => []TrueNumbersAreVerified
<1>1. ClaimInv => TrueNumbersAreVerified
  <2> SUFFICES ASSUME ClaimInv, done, input.form = "claims" PROVE TrueNumbersAreVerified
    BY DEF TrueNumbersAreVerified, Done
  <2> DEFINE text == input.text
             facts == input.facts
  <2>1. Detected(answer, text, facts, input.rules) /\ Len(text) \in Nat
    BY ClaimsAreDetected
  <2> HIDE DEF text, facts
  <2>2. ASSUME NEW m \in ToSet(Matches("quantitative", text)),
               NEW f \in facts, f.value = <<Plain(WordIn(text, m.start))>>,
               \A c \in ToSet(answer) :
                 Overlaps(m, c) => c.category \in {"contradiction", "quantitative"}
        PROVE  Claim(m, "quantitative", "verified") \in ToSet(answer)
    <3>1. Scans[5] = "quantitative" /\ 5 \in 1 .. 6 /\ Scans[1] = "contradiction"
      BY ScansAre
    <3>2. Answered(answer, 5, m, text, facts)
      BY <2>1, <3>1, Zenon DEF Detected
    <3>3. IsClaim("quantitative", text, facts, m)
      BY DEF IsClaim
    <3>4. PICK c \in ToSet(answer) : Overlaps(m, c) /\ Within(c, 5, text, facts)
      BY <3>1, <3>2, <3>3, Zenon DEF Answered
    <3>5. c.category \in {"contradiction", "quantitative"}
      BY <2>2, <3>4, Zenon
    <3>6. PICK p \in 1 .. 5 : OfScan(c, p, text, facts)
      <4>1. c.category # "forbidden"
        BY <3>5
      <4> QED
        BY <3>4, <4>1, Zenon DEF Within
    <3>7. PICK other \in ToSet(Matches(Scans[p], text)) :
            /\ IsClaim(Scans[p], text, facts, other)
            /\ c = Claim(other, Scans[p], VerdictOf(Scans[p], text, facts, other))
      BY <3>6, Zenon DEF OfScan
    <3>8. c.category = Scans[p] /\ c.start = other.start /\ c.end = other.end
      BY <3>7 DEF Claim
    <3>9. p \in {1, 5}
      BY <3>5, <3>8, ScansAre
    <3>10. Overlaps(m, other)
      BY <3>4, <3>8, Zenon DEF Overlaps
    <3>11. /\ IsNumber(WordIn(text, m.start)) /\ other.start = m.start
           /\ p = 5 => other = m
      <4>1. m \in ToSet(Matches(Scans[5], text))
        BY <3>1, Zenon
      <4>2. other \in ToSet(Matches(Scans[p], text)) /\ Len(text) \in Nat
        BY <2>1, <3>7
      <4> QED
        BY <3>9, <3>10, <4>1, <4>2, CountsBeginTogether
    <3>12. p = 5
      <4>1. ASSUME p = 1 PROVE FALSE
        <5>1. Contradicts(text, facts, other)
          BY <3>1, <3>7, <4>1, Zenon DEF IsClaim
        <5>2. \A x \in NumericLeaves(facts) : Number(x) # Value[WordIn(text, m.start)]
          BY <3>11, <5>1, Zenon DEF Contradicts
        <5>3. Len(f.value) = 1 /\ f.value[1] = Plain(WordIn(text, m.start))
          BY <2>2
        <5>4. f \in NumericLeaves(facts) /\ Number(f) = Value[WordIn(text, m.start)]
          BY <3>11, <5>3, NumbersAre, Zenon DEF NumericLeaves, Number
        <5> QED
          BY <5>2, <5>4
      <4> QED
        BY <3>9, <4>1
    <3>13. VerdictOf("quantitative", text, facts, m) = "verified"
      <4>1. Subject("quantitative", text, m) = <<Plain(WordIn(text, m.start))>>
        BY DEF Subject
      <4>2. FindInFacts(facts, Subject("quantitative", text, m))
        BY <2>2, <4>1, Zenon DEF FindInFacts
      <4> QED
        BY <4>2 DEF VerdictOf
    <3>14. c = Claim(m, "quantitative", "verified")
      BY <3>1, <3>7, <3>11, <3>12, <3>13, Zenon
    <3> QED
      BY <3>4, <3>14
  <2> QED
    BY <2>2, Zenon DEF TrueNumbersAreVerified, Done, text, facts
<1> QED
  BY <1>1, ClaimInvHolds, PTL

-----------------------------------------------------------------------------
(* The table of distances                                                  *)

Cost(c, d) == IF c = d THEN 0 ELSE 1

\* The row after `prev`.
IsRow(row, prev, i, a, b) ==
  /\ row \in [0 .. Len(b) -> Nat] /\ row[0] = i
  /\ \A j \in 1 .. Len(b) :
       row[j] = Least(prev[j - 1] + Cost(a[i], b[j]), Least(prev[j] + 1, row[j - 1] + 1))

LEMMA RowIs ==
  ASSUME NEW a, NEW b, Len(b) \in Nat, NEW i \in Nat, NEW prev \in [0 .. Len(b) -> Nat]
  PROVE  IsRow(NextRow(prev, i, a, b), prev, i, a, b)
<1> DEFINE N == Len(b)
           Body(before, j) == Least(prev[j - 1] + (IF a[i] = b[j] THEN 0 ELSE 1),
                                    Least(prev[j] + 1, before + 1))
           Is(f) == f = [j \in 0 .. N |-> IF j = 0 THEN i ELSE Body(f[j - 1], j)]
           step == [p \in Nat \X (1 .. N) |-> Body(p[1], p[2])]
           row == CHOOSE f : Is(f)
<1>1. \A x \in Nat : \A j \in 1 .. N : Body(x, j) \in Nat
  <2> SUFFICES ASSUME NEW x \in Nat, NEW j \in 1 .. N PROVE Body(x, j) \in Nat
    OBVIOUS
  <2>1. prev[j - 1] \in Nat /\ prev[j] \in Nat
    OBVIOUS
  <2> QED
    BY <2>1 DEF Least
<1>2. NextRow(prev, i, a, b) = row
  BY Zenon DEF NextRow
<1>3. \A x, j : Body(x, j) = Least(prev[j - 1] + Cost(a[i], b[j]), Least(prev[j] + 1, x + 1))
  BY Zenon DEF Cost
<1> HIDE DEF Body
<1>4. Is(row)
  <2>1. step \in [Nat \X (1 .. N) -> Nat]
    BY <1>1
  <2> DEFINE base == i
             M == N
  <2>2. M \in Nat /\ base \in Nat /\ step \in [Nat \X (1 .. M) -> Nat]
    BY <2>1
  <2> HIDE DEF step, M, base
  <2>3. \E g : Recursive(g, base, step, M) /\ \A j \in 0 .. M : g[j] \in Nat
    BY <2>2, RecursionExists, Zenon
  <2>4. PICK g : /\ g = [j \in 0 .. N |-> IF j = 0 THEN i ELSE step[<<g[j - 1], j>>]]
                 /\ \A j \in 0 .. N : g[j] \in Nat
    BY <2>3, Zenon DEF Recursive, base, M
  <2>10. \A j \in 1 .. N : j - 1 \in 0 .. N
    OBVIOUS
  <2>5. \A j \in 1 .. N : g[j - 1] \in Nat
    BY <2>4, <2>10, Zenon
  <2>6. \A j \in 1 .. N : step[<<g[j - 1], j>>] = Body(g[j - 1], j)
    BY <2>5 DEF step
  <2>7. \A j \in 0 .. N : (IF j = 0 THEN i ELSE step[<<g[j - 1], j>>])
                           = (IF j = 0 THEN i ELSE Body(g[j - 1], j))
    BY <2>6
  <2>8. [j \in 0 .. N |-> IF j = 0 THEN i ELSE step[<<g[j - 1], j>>]]
          = [j \in 0 .. N |-> IF j = 0 THEN i ELSE Body(g[j - 1], j)]
    BY <2>7, Zenon
  <2>9. Is(g)
    BY <2>4, <2>8, Zenon
  <2> QED
    BY <2>9, Zenon
<1> HIDE DEF row, step
<1>5. row = [j \in 0 .. N |-> IF j = 0 THEN i ELSE Body(row[j - 1], j)]
  BY <1>4, Zenon
<1>6. row[0] = i /\ \A j \in 1 .. N : row[j] = Body(row[j - 1], j)
  BY <1>5, SMTT(30)
<1>7. \A j \in 0 .. N : row[j] \in Nat
  <2> DEFINE T == {j \in 0 .. N : row[j] \in Nat}
  <2>1. 0 \in T
    BY <1>6
  <2>2. ASSUME NEW j \in 1 .. N, j - 1 \in T PROVE j \in T
    <3>1. row[j - 1] \in Nat /\ j \in 0 .. N
      BY <2>2
    <3> QED
      BY <1>1, <1>6, <3>1, Zenon
  <2> HIDE DEF T
  <2>3. \A j \in 0 .. N : j \in T
    BY <2>1, <2>2, UpTo
  <2> QED
    BY <2>3 DEF T
<1>8. row \in [0 .. N -> Nat]
  BY <1>5, <1>7
<1> QED
  BY <1>2, <1>3, <1>6, <1>8, Zenon DEF IsRow

\* D[i][j] is the distance between the first i of a and the first j of b.
IsTable(D, a, b) ==
  /\ \A i \in 0 .. Len(a) : D[i] \in [0 .. Len(b) -> Nat]
  /\ \A j \in 0 .. Len(b) : D[0][j] = j
  /\ \A i \in 0 .. Len(a) : D[i][0] = i
  /\ \A i \in 1 .. Len(a) : \A j \in 1 .. Len(b) :
       D[i][j] = Least(D[i - 1][j - 1] + Cost(a[i], b[j]),
                       Least(D[i - 1][j] + 1, D[i][j - 1] + 1))

LEMMA RowsAreTable ==
  ASSUME NEW a, NEW b, Len(a) \in Nat, Len(b) \in Nat
  PROVE  IsTable(Rows(a, b), a, b)
<1> DEFINE N == Len(a)
           X == [0 .. Len(b) -> Nat]
           base == [j \in 0 .. Len(b) |-> j]
           Body(before, i) == NextRow(before, i, a, b)
           Is(f) == f = [i \in 0 .. N |-> IF i = 0 THEN base ELSE Body(f[i - 1], i)]
           step == [p \in X \X (1 .. N) |-> Body(p[1], p[2])]
           rows == CHOOSE f : Is(f)
<1>1. \A x \in X : \A i \in 1 .. N : IsRow(Body(x, i), x, i, a, b)
  <2> SUFFICES ASSUME NEW x \in X, NEW i \in 1 .. N PROVE IsRow(Body(x, i), x, i, a, b)
    BY Zenon
  <2>1. i \in Nat
    OBVIOUS
  <2> QED
    BY <2>1, RowIs, Zenon
<1>2. Rows(a, b) = rows
  BY Zenon DEF Rows
<1>3. base \in X /\ base[0] = 0 /\ \A j \in 0 .. Len(b) : base[j] = j
  OBVIOUS
<1>4. N \in Nat
  OBVIOUS
<1>11. \A x \in X : \A i \in 1 .. N : Body(x, i) \in X
  BY <1>1, Zenon DEF IsRow
<1> HIDE DEF Body, X, base
<1>5. Is(rows)
  <2>1. step \in [X \X (1 .. N) -> X]
    BY <1>11
  <2> HIDE DEF step, N
  <2>3. \E g : Recursive(g, base, step, N) /\ \A i \in 0 .. N : g[i] \in X
    BY <1>3, <1>4, <2>1, RecursionExists, Zenon
  <2>4. PICK g : /\ g = [i \in 0 .. N |-> IF i = 0 THEN base ELSE step[<<g[i - 1], i>>]]
                 /\ \A i \in 0 .. N : g[i] \in X
    BY <2>3, Zenon DEF Recursive
  <2>5. \A i \in 1 .. N : g[i - 1] \in X
    BY <1>4, <2>4
  <2>6. \A i \in 1 .. N : step[<<g[i - 1], i>>] = Body(g[i - 1], i)
    BY <2>5 DEF step
  <2>7. \A i \in 0 .. N : (IF i = 0 THEN base ELSE step[<<g[i - 1], i>>])
                           = (IF i = 0 THEN base ELSE Body(g[i - 1], i))
    BY <1>4, <2>6
  <2>8. [i \in 0 .. N |-> IF i = 0 THEN base ELSE step[<<g[i - 1], i>>]]
          = [i \in 0 .. N |-> IF i = 0 THEN base ELSE Body(g[i - 1], i)]
    BY <2>7, Zenon
  <2>9. Is(g)
    BY <2>4, <2>8, Zenon
  <2> QED
    BY <2>9, Zenon
<1> HIDE DEF rows, step
<1>6. rows = [i \in 0 .. N |-> IF i = 0 THEN base ELSE Body(rows[i - 1], i)]
  BY <1>5, Zenon
<1> HIDE DEF N
<1>7. rows[0] = base /\ \A i \in 1 .. N : rows[i] = Body(rows[i - 1], i)
  BY <1>4, <1>6
<1>8. \A i \in 0 .. N : rows[i] \in X
  <2> DEFINE T == {i \in 0 .. N : rows[i] \in X}
  <2>1. 0 \in T
    BY <1>3, <1>4, <1>7
  <2>2. ASSUME NEW i \in 1 .. N, i - 1 \in T PROVE i \in T
    <3>1. rows[i - 1] \in X /\ i \in 0 .. N
      BY <1>4, <2>2
    <3> QED
      BY <1>7, <1>11, <3>1
  <2> HIDE DEF T
  <2>3. \A i \in 0 .. N : i \in T
    BY <1>4, <2>1, <2>2, UpTo
  <2> QED
    BY <2>3 DEF T
<1>9. \A i \in 0 .. N : rows[i][0] = i
  <2> SUFFICES ASSUME NEW i \in 0 .. N PROVE rows[i][0] = i
    OBVIOUS
  <2>1. CASE i = 0
    BY <1>3, <1>7, <2>1
  <2>2. CASE i # 0
    <3>1. i \in 1 .. N /\ i - 1 \in 0 .. N
      BY <1>4, <2>2
    <3> QED
      <4>1. rows[i - 1] \in X /\ rows[i] = Body(rows[i - 1], i)
        BY <1>7, <1>8, <3>1, Zenon
      <4>2. IsRow(rows[i], rows[i - 1], i, a, b)
        BY <1>1, <3>1, <4>1, Zenon
      <4> QED
        BY <4>2, Zenon DEF IsRow
  <2> QED
    BY <2>1, <2>2
<1>10. \A i \in 1 .. N : \A j \in 1 .. Len(b) :
         rows[i][j] = Least(rows[i - 1][j - 1] + Cost(a[i], b[j]),
                            Least(rows[i - 1][j] + 1, rows[i][j - 1] + 1))
  <2> SUFFICES ASSUME NEW i \in 1 .. N, NEW j \in 1 .. Len(b)
               PROVE  rows[i][j] = Least(rows[i - 1][j - 1] + Cost(a[i], b[j]),
                                         Least(rows[i - 1][j] + 1, rows[i][j - 1] + 1))
    BY Zenon
  <2>1. i - 1 \in 0 .. N
    BY <1>4
  <2>2. rows[i - 1] \in X /\ rows[i] = Body(rows[i - 1], i)
    BY <1>7, <1>8, <2>1, Zenon
  <2>3. Body(rows[i - 1], i)[j] = Least(rows[i - 1][j - 1] + Cost(a[i], b[j]),
                                        Least(rows[i - 1][j] + 1, Body(rows[i - 1], i)[j - 1] + 1))
    BY <1>1, <2>2, Zenon DEF IsRow
  <2> QED
    BY <2>2, <2>3, Zenon
<1> QED
  BY <1>2, <1>3, <1>7, <1>8, <1>9, <1>10, Zenon DEF IsTable, N, X

\* What the entry says of its neighbours.
LEMMA Cell ==
  ASSUME NEW D, NEW a, NEW b, Len(a) \in Nat, Len(b) \in Nat, IsTable(D, a, b),
         NEW i \in 1 .. Len(a), NEW j \in 1 .. Len(b)
  PROVE  /\ D[i - 1][j - 1] \in Nat /\ D[i - 1][j] \in Nat /\ D[i][j - 1] \in Nat /\ D[i][j] \in Nat
         /\ D[i][j] <= D[i - 1][j] + 1 /\ D[i][j] <= D[i][j - 1] + 1
         /\ D[i][j] <= D[i - 1][j - 1] + Cost(a[i], b[j])
         /\ \/ D[i][j] = D[i - 1][j] + 1
            \/ D[i][j] = D[i][j - 1] + 1
            \/ D[i][j] = D[i - 1][j - 1] + Cost(a[i], b[j])
<1> DEFINE x == D[i - 1][j - 1]
           y == D[i - 1][j]
           z == D[i][j - 1]
           v == D[i][j]
           c == Cost(a[i], b[j])
<1>1. i - 1 \in 0 .. Len(a) /\ i \in 0 .. Len(a) /\ j - 1 \in 0 .. Len(b) /\ j \in 0 .. Len(b)
  OBVIOUS
<1>2. D[i] \in [0 .. Len(b) -> Nat] /\ D[i - 1] \in [0 .. Len(b) -> Nat]
  BY <1>1, Zenon DEF IsTable
<1>3. x \in Nat /\ y \in Nat /\ z \in Nat /\ v \in Nat
  BY <1>1, <1>2
<1>4. v = Least(x + c, Least(y + 1, z + 1))
  BY Zenon DEF IsTable
<1>5. c \in {0, 1}
  BY DEF Cost
<1> HIDE DEF x, y, z, v, c
<1>6. /\ v <= y + 1 /\ v <= z + 1 /\ v <= x + c
      /\ v = y + 1 \/ v = z + 1 \/ v = x + c
  BY <1>3, <1>4, <1>5 DEF Least
<1> QED
  BY <1>3, <1>6, Zenon DEF x, y, z, v, c

\* The table of b and a is the other way round.
LEMMA TableTurned ==
  ASSUME NEW D, NEW E, NEW a, NEW b, Len(a) \in Nat, Len(b) \in Nat,
         IsTable(D, a, b), IsTable(E, b, a)
  PROVE  \A i \in 0 .. Len(a) : \A j \in 0 .. Len(b) : D[i][j] = E[j][i]
<1> DEFINE Same(i) == \A j \in 0 .. Len(b) : D[i][j] = E[j][i]
           T == {i \in 0 .. Len(a) : Same(i)}
<1>1. 0 \in T
  <2>1. 0 \in 0 .. Len(a)
    OBVIOUS
  <2>2. \A j \in 0 .. Len(b) : D[0][j] = j /\ E[j][0] = j
    BY DEF IsTable
  <2> QED
    BY <2>1, <2>2
<1>2. ASSUME NEW i \in 1 .. Len(a), i - 1 \in T PROVE i \in T
  <2> DEFINE U == {j \in 0 .. Len(b) : D[i][j] = E[j][i]}
  <2>1. i \in 0 .. Len(a) /\ i - 1 \in 0 .. Len(a) /\ 0 \in 0 .. Len(b)
    OBVIOUS
  <2>2. 0 \in U
    <3>1. D[i][0] = i /\ E[0][i] = i
      BY <2>1, Zenon DEF IsTable
    <3> QED
      BY <2>1, <3>1
  <2>3. ASSUME NEW j \in 1 .. Len(b), j - 1 \in U PROVE j \in U
    <3> DEFINE x == D[i - 1][j - 1]
               y == D[i - 1][j]
               z == D[i][j - 1]
               c == Cost(a[i], b[j])
    <3>1. j \in 0 .. Len(b) /\ j - 1 \in 0 .. Len(b)
      OBVIOUS
    <3>2. E[j - 1][i - 1] = x /\ E[j][i - 1] = y /\ E[j - 1][i] = z
      BY <1>2, <2>3, <3>1
    <3>3. D[i][j] = Least(x + c, Least(y + 1, z + 1))
      BY Zenon DEF IsTable
    <3>4. E[j][i] = Least(x + Cost(b[j], a[i]), Least(z + 1, y + 1))
      BY <3>2, ZenonT(40) DEF IsTable
    <3>5. Cost(b[j], a[i]) = c
      BY DEF Cost
    <3>6. x \in Nat /\ y \in Nat /\ z \in Nat
      BY Cell
    <3> HIDE DEF x, y, z, c
    <3>7. Least(z + 1, y + 1) = Least(y + 1, z + 1)
      BY <3>6 DEF Least
    <3>8. D[i][j] = E[j][i]
      BY <3>3, <3>4, <3>5, <3>7, Zenon
    <3> QED
      BY <3>1, <3>8
  <2> HIDE DEF U
  <2>4. \A j \in 0 .. Len(b) : j \in U
    BY <2>2, <2>3, UpTo
  <2> QED
    BY <2>1, <2>4 DEF U
<1> HIDE DEF T
<1>3. \A i \in 0 .. Len(a) : i \in T
  BY <1>1, <1>2, UpTo
<1> QED
  BY <1>3 DEF T

\* Texts that differ in length are that far apart.
LEMMA TableBound ==
  ASSUME NEW D, NEW a, NEW b, Len(a) \in Nat, Len(b) \in Nat, IsTable(D, a, b)
  PROVE  \A i \in 0 .. Len(a) : \A j \in 0 .. Len(b) :
           D[i][j] \in Nat /\ D[i][j] >= i - j /\ D[i][j] >= j - i
<1> DEFINE Far(i, j) == D[i][j] \in Nat /\ D[i][j] >= i - j /\ D[i][j] >= j - i
           T == {i \in 0 .. Len(a) : \A j \in 0 .. Len(b) : Far(i, j)}
<1>1. 0 \in T
  <2>1. 0 \in 0 .. Len(a) /\ \A j \in 0 .. Len(b) : D[0][j] = j
    BY DEF IsTable
  <2> QED
    BY <2>1
<1>2. ASSUME NEW i \in 1 .. Len(a), i - 1 \in T PROVE i \in T
  <2> DEFINE U == {j \in 0 .. Len(b) : Far(i, j)}
  <2>1. i \in 0 .. Len(a) /\ 0 \in 0 .. Len(b)
    OBVIOUS
  <2>2. 0 \in U
    <3>1. D[i][0] = i
      BY <2>1, Zenon DEF IsTable
    <3> QED
      BY <2>1, <3>1
  <2>3. ASSUME NEW j \in 1 .. Len(b), j - 1 \in U PROVE j \in U
    <3> DEFINE x == D[i - 1][j - 1]
               y == D[i - 1][j]
               z == D[i][j - 1]
               v == D[i][j]
    <3>1. j \in 0 .. Len(b) /\ j - 1 \in 0 .. Len(b)
      OBVIOUS
    <3>2. Far(i - 1, j - 1) /\ Far(i - 1, j) /\ Far(i, j - 1)
      BY <1>2, <2>3, <3>1
    <3>3. v \in Nat /\ (v = y + 1 \/ v = z + 1 \/ v = x + Cost(a[i], b[j]))
      BY Cell
    <3>4. Cost(a[i], b[j]) \in {0, 1}
      BY DEF Cost
    <3>5. /\ x \in Nat /\ x >= (i - 1) - (j - 1) /\ x >= (j - 1) - (i - 1)
          /\ y \in Nat /\ y >= (i - 1) - j /\ y >= j - (i - 1)
          /\ z \in Nat /\ z >= i - (j - 1) /\ z >= (j - 1) - i
      BY <3>2
    <3> HIDE DEF x, y, z, v
    <3>6. v >= i - j /\ v >= j - i
      BY <3>3, <3>4, <3>5
    <3> QED
      BY <3>1, <3>3, <3>6 DEF v
  <2> HIDE DEF U
  <2>4. \A j \in 0 .. Len(b) : j \in U
    BY <2>2, <2>3, UpTo
  <2> QED
    BY <2>1, <2>4 DEF U
<1> HIDE DEF T
<1>3. \A i \in 0 .. Len(a) : i \in T
  BY <1>1, <1>2, UpTo
<1> QED
  BY <1>3 DEF T

\* No row is below cap after one that is above it.
LEMMA RowsStayAbove ==
  ASSUME NEW D, NEW a, NEW b, Len(a) \in Nat, Len(b) \in Nat, IsTable(D, a, b),
         NEW cap \in Nat, NEW m \in 0 .. Len(a), \A j \in 0 .. Len(b) : D[m][j] > cap
  PROVE  \A j \in 0 .. Len(b) : D[Len(a)][j] > cap
<1> DEFINE Above(i) == \A j \in 0 .. Len(b) : D[i][j] > cap
           T == {i \in 0 .. Len(a) : i >= m => Above(i)}
<1>1. 0 \in T
  <2>1. m = 0 \/ ~ (0 >= m)
    OBVIOUS
  <2> QED
    BY <2>1
<1>2. ASSUME NEW i \in 1 .. Len(a), i - 1 \in T PROVE i \in T
  <2> SUFFICES ASSUME i >= m, i # m PROVE Above(i)
    OBVIOUS
  <2> DEFINE U == {j \in 0 .. Len(b) : D[i][j] > cap}
  <2>1. i \in 0 .. Len(a) /\ 0 \in 0 .. Len(b) /\ i - 1 >= m
    OBVIOUS
  <2>2. Above(i - 1)
    BY <1>2, <2>1
  <2>3. 0 \in U
    <3>1. D[i][0] = i /\ D[i - 1][0] = i - 1
      BY <2>1, i - 1 \in 0 .. Len(a), Zenon DEF IsTable
    <3> QED
      BY <2>1, <2>2, <3>1
  <2>4. ASSUME NEW j \in 1 .. Len(b), j - 1 \in U PROVE j \in U
    <3> DEFINE x == D[i - 1][j - 1]
               y == D[i - 1][j]
               z == D[i][j - 1]
               v == D[i][j]
    <3>1. j \in 0 .. Len(b) /\ j - 1 \in 0 .. Len(b)
      OBVIOUS
    <3>2. x > cap /\ y > cap /\ z > cap
      BY <2>2, <2>4, <3>1
    <3>3. /\ x \in Nat /\ y \in Nat /\ z \in Nat /\ v \in Nat
          /\ v = y + 1 \/ v = z + 1 \/ v = x + Cost(a[i], b[j])
      <4>1. D[i - 1][j - 1] \in Nat /\ D[i - 1][j] \in Nat /\ D[i][j - 1] \in Nat /\ D[i][j] \in Nat
        BY Cell, Zenon
      <4>2. \/ D[i][j] = D[i - 1][j] + 1
            \/ D[i][j] = D[i][j - 1] + 1
            \/ D[i][j] = D[i - 1][j - 1] + Cost(a[i], b[j])
        BY Cell
      <4> QED
        BY <4>1, <4>2, Zenon
    <3>4. Cost(a[i], b[j]) \in {0, 1}
      BY DEF Cost
    <3> HIDE DEF x, y, z, v
    <3>5. v > cap
      BY <3>2, <3>3, <3>4, SMTT(30)
    <3> QED
      BY <3>1, <3>5 DEF v
  <2> HIDE DEF U
  <2>5. \A j \in 0 .. Len(b) : j \in U
    BY <2>3, <2>4, UpTo
  <2> QED
    BY <2>1, <2>5 DEF U
<1> HIDE DEF T
<1>3. \A i \in 0 .. Len(a) : i \in T
  BY <1>1, <1>2, UpTo
<1>4. Len(a) \in T
  BY <1>3
<1> QED
  BY <1>4 DEF T

\* Texts at no distance are the same.
LEMMA TableZero ==
  ASSUME NEW D, NEW a, NEW b, Len(a) \in Nat, Len(b) \in Nat, IsTable(D, a, b)
  PROVE  \A i \in 0 .. Len(a) : \A j \in 0 .. Len(b) :
           D[i][j] = 0 <=> i = j /\ \A k \in 1 .. i : a[k] = b[k]
<1> DEFINE Zero(i) == \A j \in 0 .. Len(b) :
                        D[i][j] = 0 <=> i = j /\ \A k \in 1 .. i : a[k] = b[k]
           T == {i \in 0 .. Len(a) : Zero(i)}
<1>1. 0 \in T
  <2>1. 0 \in 0 .. Len(a) /\ \A j \in 0 .. Len(b) : D[0][j] = j
    BY DEF IsTable
  <2> QED
    BY <2>1
<1>2. ASSUME NEW i \in 1 .. Len(a), i - 1 \in T PROVE i \in T
  <2>1. i \in 0 .. Len(a) /\ i - 1 \in 0 .. Len(a)
    OBVIOUS
  <2>2. ASSUME NEW j \in 0 .. Len(b)
        PROVE  D[i][j] = 0 <=> i = j /\ \A k \in 1 .. i : a[k] = b[k]
    <3>1. CASE i # j
      <4>1. D[i][j] \in Nat /\ D[i][j] >= i - j /\ D[i][j] >= j - i
        BY <2>1, TableBound, Zenon
      <4> QED
        BY <3>1, <4>1
    <3>2. CASE i = j
      <4>1. j \in 1 .. Len(b) /\ j - 1 \in 0 .. Len(b)
        BY <3>2
      <4>2. D[i - 1][j - 1] = 0 <=> \A k \in 1 .. i - 1 : a[k] = b[k]
        BY <1>2, <3>2, <4>1
      <4>3. /\ D[i - 1][j - 1] \in Nat /\ D[i - 1][j] \in Nat /\ D[i][j - 1] \in Nat /\ D[i][j] \in Nat
            /\ D[i][j] <= D[i - 1][j - 1] + Cost(a[i], b[j])
            /\ \/ D[i][j] = D[i - 1][j] + 1
               \/ D[i][j] = D[i][j - 1] + 1
               \/ D[i][j] = D[i - 1][j - 1] + Cost(a[i], b[j])
        BY <4>1, Cell
      <4>4. Cost(a[i], b[j]) \in {0, 1} /\ (Cost(a[i], b[j]) = 0 <=> a[i] = b[j])
        BY DEF Cost
      <4> DEFINE x == D[i - 1][j - 1]
                 y == D[i - 1][j]
                 z == D[i][j - 1]
                 v == D[i][j]
                 c == Cost(a[i], b[j])
      <4>7. /\ x \in Nat /\ y \in Nat /\ z \in Nat /\ v \in Nat /\ v <= x + c
            /\ v = y + 1 \/ v = z + 1 \/ v = x + c
            /\ c \in {0, 1}
        BY <4>3, <4>4
      <4> HIDE DEF x, y, z, v, c
      <4>8. v = 0 <=> x = 0 /\ c = 0
        BY <4>7
      <4>5. D[i][j] = 0 <=> D[i - 1][j - 1] = 0 /\ a[i] = b[j]
        BY <4>4, <4>8, Zenon DEF x, v, c
      <4>6. (\A k \in 1 .. i : a[k] = b[k]) <=> (\A k \in 1 .. i - 1 : a[k] = b[k]) /\ a[i] = b[i]
        OBVIOUS
      <4> QED
        BY <3>2, <4>2, <4>5, <4>6
    <3> QED
      BY <3>1, <3>2
  <2> QED
    BY <2>1, <2>2
<1> HIDE DEF T
<1>3. \A i \in 0 .. Len(a) : i \in T
  BY <1>1, <1>2, UpTo
<1> QED
  BY <1>3 DEF T

\* The search that gives up early and takes the shorter text for the columns
\* finds the distance, if it is not above cap.
LEMMA LevenshteinFinds ==
  ASSUME NEW a, NEW b, Len(a) \in Nat \ {0}, Len(b) \in Nat \ {0}, a # <<>>, b # <<>>,
         NEW cap \in Nat, NEW D, IsTable(D, a, b)
  PROVE  Levenshtein(a, b, cap) <= cap <=> D[Len(a)][Len(b)] <= cap
<1> DEFINE long == IF Len(a) < Len(b) THEN b ELSE a
           short == IF Len(a) < Len(b) THEN a ELSE b
           rows == Rows(long, short)
           above(row) == \A j \in DOMAIN row : row[j] > cap
<1>1. Levenshtein(a, b, cap) =
        IF Len(long) - Len(short) > cap \/ \E i \in 1 .. Len(long) : above(rows[i])
        THEN cap + 1 ELSE rows[Len(long)][Len(short)]
  BY Zenon DEF Levenshtein
<1>2. /\ Len(a) \in Nat /\ Len(b) \in Nat /\ Len(long) \in Nat /\ Len(short) \in Nat
      /\ \/ long = a /\ short = b
         \/ long = b /\ short = a
  OBVIOUS
<1> HIDE DEF long, short
<1>3. IsTable(rows, long, short)
  BY <1>2, RowsAreTable, Zenon
<1> HIDE DEF rows
<1> DEFINE v == rows[Len(long)][Len(short)]
<1>4. v = D[Len(a)][Len(b)]
  <2>1. Len(a) \in 0 .. Len(a) /\ Len(b) \in 0 .. Len(b)
    OBVIOUS
  <2>2. PICK E : IsTable(E, b, a)
    BY <1>2, RowsAreTable, Zenon
  <2>3. \A i \in 0 .. Len(a) : \A j \in 0 .. Len(b) : D[i][j] = E[j][i]
    BY <1>2, <2>2, TableTurned
  <2>4. CASE long = a /\ short = b
    <3>1. IsTable(rows, a, b)
      BY <1>3, <2>4, Zenon
    <3>2. \A i \in 0 .. Len(a) : \A j \in 0 .. Len(b) : rows[i][j] = E[j][i]
      BY <1>2, <2>2, <3>1, TableTurned
    <3> QED
      BY <2>1, <2>3, <2>4, <3>2, ZenonT(40)
  <2>5. CASE long = b /\ short = a
    <3>1. IsTable(rows, b, a)
      BY <1>3, <2>5, Zenon
    <3>2. \A i \in 0 .. Len(a) : \A j \in 0 .. Len(b) : D[i][j] = rows[j][i]
      BY <1>2, <3>1, TableTurned
    <3> QED
      BY <2>1, <2>5, <3>2, Zenon
  <2> QED
    BY <1>2, <2>4, <2>5, Zenon
<1>5. Len(long) \in 0 .. Len(long) /\ Len(short) \in 0 .. Len(short)
  BY <1>2
<1>6. v \in Nat /\ v >= Len(long) - Len(short)
  BY <1>2, <1>3, <1>5, TableBound, Zenon
<1>7. ASSUME NEW i \in 1 .. Len(long), above(rows[i]) PROVE v > cap
  <2>1. i \in 0 .. Len(long)
    BY <1>2
  <2>2. DOMAIN rows[i] = 0 .. Len(short)
    BY <1>3, <2>1 DEF IsTable
  <2>3. \A j \in 0 .. Len(short) : rows[i][j] > cap
    BY <1>7, <2>2, Zenon
  <2>4. \A j \in 0 .. Len(short) : rows[Len(long)][j] > cap
    BY <1>2, <1>3, <2>1, <2>3, RowsStayAbove, Zenon
  <2> QED
    BY <1>5, <2>4, Zenon
<1> HIDE DEF v, above
<1>8. Levenshtein(a, b, cap) <= cap <=> v <= cap
  <2>1. CASE Len(long) - Len(short) > cap
    <3>1. Levenshtein(a, b, cap) = cap + 1
      BY <1>1, <2>1, Zenon
    <3> QED
      BY <1>2, <1>6, <2>1, <3>1
  <2>2. CASE \E i \in 1 .. Len(long) : above(rows[i])
    <3>1. Levenshtein(a, b, cap) = cap + 1
      BY <1>1, <2>2, Zenon
    <3>2. v > cap
      BY <1>7, <2>2, Zenon
    <3> QED
      BY <1>6, <3>1, <3>2
  <2>3. CASE ~ (Len(long) - Len(short) > cap) /\ ~ \E i \in 1 .. Len(long) : above(rows[i])
    <3>1. Levenshtein(a, b, cap) = v
      BY <1>1, <2>3, Zenon DEF v
    <3> QED
      BY <3>1
  <2> QED
    BY <2>1, <2>2, <2>3, Zenon
<1> QED
  BY <1>4, <1>8, Zenon

-----------------------------------------------------------------------------
(* Edits                                                                   *)

\* Where the first j of the claim are in the first i of what is said.
Aligns(f, i, j) ==
  /\ \A k \in 1 .. j : f[k] \in 0 .. i
  /\ \A k, l \in 1 .. j : k < l /\ f[k] # 0 /\ f[l] # 0 => f[k] < f[l]

KeptIn(f, j) == {k \in 1 .. j : f[k] # 0}
SameIn(f, j, said, claim) == {k \in 1 .. j : f[k] # 0 /\ said[f[k]] = claim[k]}

Kept(f, i, j, said, claim) ==
  i + j - Cardinality(KeptIn(f, j)) - Cardinality(SameIn(f, j, said, claim))

\* One more character of the claim.
LEMMA CountNext ==
  ASSUME NEW f, NEW g, NEW said, NEW claim, NEW j \in Nat \ {0},
         \A k \in 1 .. j - 1 : f[k] = g[k]
  PROVE  /\ Cardinality(KeptIn(g, j - 1)) \in Nat /\ Cardinality(SameIn(g, j - 1, said, claim)) \in Nat
         /\ Cardinality(KeptIn(f, j)) = Cardinality(KeptIn(g, j - 1)) + (IF f[j] = 0 THEN 0 ELSE 1)
         /\ Cardinality(SameIn(f, j, said, claim)) =
              Cardinality(SameIn(g, j - 1, said, claim))
                + (IF f[j] # 0 /\ said[f[j]] = claim[j] THEN 1 ELSE 0)
<1>1. ASSUME NEW S \in SUBSET (1 .. j - 1)
      PROVE  Cardinality(S) \in Nat /\ Cardinality(S \cup {j}) = Cardinality(S) + 1
  <2>1. IsFiniteSet(S)
    <3>1. IsFiniteSet(1 .. j - 1)
      BY FS_Interval
    <3> QED
      BY <3>1, FS_Subset
  <2>2. j \notin S
    OBVIOUS
  <2> QED
    BY <2>1, <2>2, FS_AddElement, FS_CardinalityType
<1> DEFINE K == KeptIn(g, j - 1)
           S == SameIn(g, j - 1, said, claim)
<1>2. K \in SUBSET (1 .. j - 1) /\ S \in SUBSET (1 .. j - 1)
  BY DEF KeptIn, SameIn
<1>3. 1 .. j = (1 .. j - 1) \cup {j}
  OBVIOUS
<1>4. KeptIn(f, j) = IF f[j] = 0 THEN K ELSE K \cup {j}
  BY <1>3 DEF KeptIn
<1>5. SameIn(f, j, said, claim) = IF f[j] # 0 /\ said[f[j]] = claim[j] THEN S \cup {j} ELSE S
  BY <1>3 DEF SameIn
<1> HIDE DEF K, S
<1>6. /\ Cardinality(K) \in Nat /\ Cardinality(K \cup {j}) = Cardinality(K) + 1
      /\ Cardinality(S) \in Nat /\ Cardinality(S \cup {j}) = Cardinality(S) + 1
  BY <1>1, <1>2
<1>7. Cardinality(K) + 0 = Cardinality(K) /\ Cardinality(S) + 0 = Cardinality(S)
  BY <1>6
<1> QED
  BY <1>4, <1>5, <1>6, <1>7, Zenon DEF K, S

\* What is not kept of the last character of either is one edit more.
OneMore(f, g, i, j, said, claim) ==
  /\ Kept(f, i, j, said, claim) = Kept(f, i - 1, j, said, claim) + 1
  /\ f[j] = 0 => Kept(f, i, j, said, claim) = Kept(g, i, j - 1, said, claim) + 1
  /\ f[j] = i => Kept(f, i, j, said, claim) =
                    Kept(g, i - 1, j - 1, said, claim) + Cost(said[i], claim[j])

LEMMA CountCases ==
  ASSUME NEW f, NEW g, NEW said, NEW claim, NEW i \in Nat \ {0}, NEW j \in Nat \ {0},
         \A k \in 1 .. j - 1 : f[k] = g[k]
  PROVE  OneMore(f, g, i, j, said, claim)
<1> DEFINE k0 == Cardinality(KeptIn(g, j - 1))
           s0 == Cardinality(SameIn(g, j - 1, said, claim))
           k1 == Cardinality(KeptIn(f, j))
           s1 == Cardinality(SameIn(f, j, said, claim))
<1>1. /\ k0 \in Nat /\ s0 \in Nat
      /\ k1 = k0 + (IF f[j] = 0 THEN 0 ELSE 1)
      /\ s1 = s0 + (IF f[j] # 0 /\ said[f[j]] = claim[j] THEN 1 ELSE 0)
  BY CountNext
<1>2. /\ Kept(f, i, j, said, claim) = i + j - k1 - s1
      /\ Kept(f, i - 1, j, said, claim) = (i - 1) + j - k1 - s1
      /\ Kept(g, i, j - 1, said, claim) = i + (j - 1) - k0 - s0
      /\ Kept(g, i - 1, j - 1, said, claim) = (i - 1) + (j - 1) - k0 - s0
  BY Zenon DEF Kept
<1> HIDE DEF k0, s0, k1, s1
<1> QED
  BY <1>1, <1>2 DEF Cost, OneMore

\* No alignment has fewer edits than the table says.
LEMMA TableIsLeast ==
  ASSUME NEW D, NEW said, NEW claim, Len(said) \in Nat, Len(claim) \in Nat,
         IsTable(D, said, claim)
  PROVE  \A i \in 0 .. Len(said) : \A j \in 0 .. Len(claim) : \A f :
           Aligns(f, i, j) => D[i][j] <= Kept(f, i, j, said, claim)
<1> DEFINE Least0(i, j) == \A f : Aligns(f, i, j) => D[i][j] <= Kept(f, i, j, said, claim)
           T == {i \in 0 .. Len(said) : \A j \in 0 .. Len(claim) : Least0(i, j)}
<1>1. ASSUME NEW f, NEW n \in Nat, KeptIn(f, n) = {}
      PROVE  \A i \in Nat : Kept(f, i, n, said, claim) = i + n
  <2>1. SameIn(f, n, said, claim) = {}
    BY <1>1 DEF KeptIn, SameIn
  <2>2. Cardinality({}) = 0
    BY FS_EmptySet
  <2> QED
    BY <1>1, <2>1, <2>2 DEF Kept
<1>2. 0 \in T
  <2> SUFFICES ASSUME NEW j \in 0 .. Len(claim), NEW f, Aligns(f, 0, j)
               PROVE  D[0][j] <= Kept(f, 0, j, said, claim)
    OBVIOUS
  <2>1. D[0][j] = j
    BY Zenon DEF IsTable
  <2>2. KeptIn(f, j) = {}
    BY DEF Aligns, KeptIn
  <2>3. Kept(f, 0, j, said, claim) = 0 + j
    BY <1>1, <2>2, j \in Nat
  <2> QED
    BY <2>1, <2>3
<1>3. ASSUME NEW i \in 1 .. Len(said), i - 1 \in T PROVE i \in T
  <2> DEFINE U == {j \in 0 .. Len(claim) : Least0(i, j)}
  <2>1. i \in 0 .. Len(said) /\ i - 1 \in 0 .. Len(said) /\ 0 \in 0 .. Len(claim) /\ i \in Nat \ {0}
    OBVIOUS
  <2>2. 0 \in U
    <3> SUFFICES ASSUME NEW f PROVE D[i][0] <= Kept(f, i, 0, said, claim)
      BY <2>1
    <3>1. KeptIn(f, 0) = {}
      BY DEF KeptIn
    <3>2. D[i][0] = i
      BY <2>1, Zenon DEF IsTable
    <3>3. Kept(f, i, 0, said, claim) = i + 0
      BY <1>1, <2>1, <3>1
    <3> QED
      BY <2>1, <3>2, <3>3
  <2>3. ASSUME NEW j \in 1 .. Len(claim), j - 1 \in U PROVE j \in U
    <3>1. j \in 0 .. Len(claim) /\ j - 1 \in 0 .. Len(claim) /\ j \in Nat \ {0}
      OBVIOUS
    <3>2. Least0(i - 1, j - 1) /\ Least0(i - 1, j) /\ Least0(i, j - 1)
      BY <1>3, <2>3, <3>1
    <3> DEFINE x == D[i - 1][j - 1]
               y == D[i - 1][j]
               z == D[i][j - 1]
               v == D[i][j]
               c == Cost(said[i], claim[j])
    <3>3. /\ x \in Nat /\ y \in Nat /\ z \in Nat /\ v \in Nat
          /\ v <= y + 1 /\ v <= z + 1 /\ v <= x + c
      BY Cell
    <3>4. c \in {0, 1}
      BY DEF Cost
    <3> HIDE DEF c
    <3>5. ASSUME NEW f, Aligns(f, i, j) PROVE v <= Kept(f, i, j, said, claim)
      <4> DEFINE here == Kept(f, i, j, said, claim)
                 up == Kept(f, i - 1, j, said, claim)
                 left == Kept(f, i, j - 1, said, claim)
                 both == Kept(f, i - 1, j - 1, said, claim)
      <4>1. /\ here = up + 1
            /\ f[j] = 0 => here = left + 1
            /\ f[j] = i => here = both + c
        <5>1. \A k \in 1 .. j - 1 : f[k] = f[k]
          OBVIOUS
        <5>2. i \in Nat \ {0} /\ j \in Nat \ {0}
          BY <2>1, <3>1
        <5>3. OneMore(f, f, i, j, said, claim)
          BY <5>1, <5>2, CountCases, Zenon
        <5> QED
          BY <5>3, Zenon DEF c, OneMore
      <4>2. up \in Int /\ left \in Int /\ both \in Int
        <5>1. \A n \in Nat : Cardinality(KeptIn(f, n)) \in Nat /\ Cardinality(SameIn(f, n, said, claim)) \in Nat
          <6> SUFFICES ASSUME NEW n \in Nat
                       PROVE  /\ Cardinality(KeptIn(f, n)) \in Nat
                              /\ Cardinality(SameIn(f, n, said, claim)) \in Nat
            OBVIOUS
          <6>1. n + 1 \in Nat \ {0} /\ (n + 1) - 1 = n
            OBVIOUS
          <6>2. /\ Cardinality(KeptIn(f, (n + 1) - 1)) \in Nat
                /\ Cardinality(SameIn(f, (n + 1) - 1, said, claim)) \in Nat
            BY <6>1, CountNext
          <6> QED
            BY <6>1, <6>2
        <5>2. j - 1 \in Nat /\ j \in Nat
          BY <3>1
        <5> DEFINE k0 == Cardinality(KeptIn(f, j - 1))
                   s0 == Cardinality(SameIn(f, j - 1, said, claim))
                   k1 == Cardinality(KeptIn(f, j))
                   s1 == Cardinality(SameIn(f, j, said, claim))
        <5>3. k0 \in Nat /\ s0 \in Nat /\ k1 \in Nat /\ s1 \in Nat
          BY <5>1, <5>2, Zenon
        <5>4. up = (i - 1) + j - k1 - s1 /\ left = i + (j - 1) - k0 - s0
              /\ both = (i - 1) + (j - 1) - k0 - s0
          BY Zenon DEF Kept
        <5> HIDE DEF k0, s0, k1, s1, up, left, both
        <5> QED
          BY <2>1, <3>1, <5>3, <5>4
      <4> HIDE DEF here, up, left, both, x, y, z, v
      <4>3. ASSUME f[j] = i PROVE v <= here
        <5>1. Aligns(f, i - 1, j - 1)
          <6>1. ASSUME NEW k \in 1 .. j - 1 PROVE f[k] \in 0 .. i - 1
            <7>1. k \in 1 .. j /\ j \in 1 .. j /\ k < j
              BY <3>1
            <7>2. f[k] \in 0 .. i
              BY <3>5, <7>1 DEF Aligns
            <7>3. f[k] # 0 => f[k] < i
              BY <2>1, <3>5, <4>3, <7>1 DEF Aligns
            <7> QED
              BY <2>1, <7>2, <7>3
          <6>2. 1 .. j - 1 \subseteq 1 .. j
            OBVIOUS
          <6> QED
            BY <3>5, <6>1, <6>2 DEF Aligns
        <5>2. x <= both
          BY <3>2, <5>1 DEF x, both
        <5> QED
          BY <3>3, <3>4, <4>1, <4>2, <4>3, <5>2
      <4>4. ASSUME f[j] = 0 PROVE v <= here
        <5>1. Aligns(f, i, j - 1)
          <6>1. 1 .. j - 1 \subseteq 1 .. j
            OBVIOUS
          <6> QED
            BY <3>5, <6>1 DEF Aligns
        <5>2. z <= left
          BY <3>2, <5>1 DEF z, left
        <5> QED
          BY <3>3, <4>1, <4>2, <4>4, <5>2
      <4>5. ASSUME f[j] # 0 /\ f[j] # i PROVE v <= here
        <5>1. Aligns(f, i - 1, j)
          <6>1. ASSUME NEW k \in 1 .. j PROVE f[k] \in 0 .. i - 1
            <7>1. j \in 1 .. j /\ f[j] \in 0 .. i /\ f[k] \in 0 .. i
              BY <3>1, <3>5 DEF Aligns
            <7>2. k # j /\ f[k] # 0 => f[k] < f[j]
              BY <3>1, <3>5, <4>5, <7>1 DEF Aligns
            <7> QED
              BY <2>1, <4>5, <7>1, <7>2
          <6> QED
            BY <3>5, <6>1 DEF Aligns
        <5>2. y <= up
          BY <3>2, <5>1 DEF y, up
        <5> QED
          BY <3>3, <4>1, <4>2, <5>2
      <4> QED
        BY <4>3, <4>4, <4>5, Zenon DEF here
    <3> QED
      BY <3>1, <3>5
  <2> HIDE DEF U
  <2>4. \A j \in 0 .. Len(claim) : j \in U
    BY <2>2, <2>3, UpTo
  <2> QED
    BY <2>1, <2>4 DEF U
<1> HIDE DEF T
<1>4. \A i \in 0 .. Len(said) : i \in T
  BY <1>2, <1>3, UpTo
<1> QED
  BY <1>4 DEF T

\* Some alignment has as few as the table says.
LEMMA TableIsReached ==
  ASSUME NEW D, NEW said, NEW claim, Len(said) \in Nat, Len(claim) \in Nat,
         IsTable(D, said, claim)
  PROVE  \A i \in 0 .. Len(said) : \A j \in 0 .. Len(claim) : \E f :
           Aligns(f, i, j) /\ Kept(f, i, j, said, claim) = D[i][j]
<1> DEFINE Reached(i, j) == \E f : Aligns(f, i, j) /\ Kept(f, i, j, said, claim) = D[i][j]
           T == {i \in 0 .. Len(said) : \A j \in 0 .. Len(claim) : Reached(i, j)}
<1>1. ASSUME NEW n \in Nat, NEW i \in Nat, n = 0 \/ i = 0
      PROVE  \E f : Aligns(f, i, n) /\ Kept(f, i, n, said, claim) = i + n
  <2> DEFINE f == [k \in 1 .. n |-> 0]
  <2>1. KeptIn(f, n) = {} /\ SameIn(f, n, said, claim) = {}
    BY DEF KeptIn, SameIn
  <2>2. Cardinality({}) = 0
    BY FS_EmptySet
  <2>3. Aligns(f, i, n)
    BY DEF Aligns
  <2>4. Kept(f, i, n, said, claim) = i + n - 0 - 0
    BY <2>1, <2>2, Zenon DEF Kept
  <2>5. i + n - 0 - 0 = i + n
    OBVIOUS
  <2> QED
    BY <2>3, <2>4, <2>5, Zenon
<1>2. 0 \in T
  <2> SUFFICES ASSUME NEW j \in 0 .. Len(claim) PROVE Reached(0, j)
    OBVIOUS
  <2>1. D[0][j] = j
    BY Zenon DEF IsTable
  <2>2. j \in Nat /\ 0 \in Nat /\ 0 + j = j
    OBVIOUS
  <2> QED
    BY <1>1, <2>1, <2>2, Zenon
<1>3. ASSUME NEW i \in 1 .. Len(said), i - 1 \in T PROVE i \in T
  <2> DEFINE U == {j \in 0 .. Len(claim) : Reached(i, j)}
  <2>1. i \in 0 .. Len(said) /\ 0 \in 0 .. Len(claim) /\ i \in Nat \ {0} /\ i + 0 = i
    OBVIOUS
  <2>2. 0 \in U
    <3>1. D[i][0] = i
      BY <2>1, Zenon DEF IsTable
    <3>2. i \in Nat /\ 0 \in Nat
      OBVIOUS
    <3>3. Reached(i, 0)
      BY <1>1, <2>1, <3>1, <3>2, Zenon
    <3> QED
      BY <2>1, <3>3
  <2>3. ASSUME NEW j \in 1 .. Len(claim), j - 1 \in U PROVE j \in U
    <3>1. j \in 0 .. Len(claim) /\ j - 1 \in 0 .. Len(claim) /\ j \in Nat \ {0}
      OBVIOUS
    <3>2. Reached(i - 1, j - 1) /\ Reached(i - 1, j) /\ Reached(i, j - 1)
      BY <1>3, <2>3, <3>1
    <3>3. ASSUME NEW f, NEW e \in {0, i}, Aligns(f, IF e = 0 THEN i ELSE i - 1, j - 1)
          PROVE  \E g : /\ Aligns(g, i, j) /\ g[j] = e
                        /\ OneMore(g, f, i, j, said, claim)
      <4> DEFINE g == [k \in 1 .. j |-> IF k = j THEN e ELSE f[k]]
      <4>1. g[j] = e /\ \A k \in 1 .. j - 1 : g[k] = f[k]
        BY <3>1
      <4>2. OneMore(g, f, i, j, said, claim)
        BY <2>1, <3>1, <4>1, CountCases, Zenon
      <4>3. \A k \in 1 .. j - 1 : /\ f[k] \in 0 .. i
                                  /\ e # 0 => f[k] < i
        BY <2>1, <3>3 DEF Aligns
      <4> HIDE DEF g
      <4>4. \A k \in 1 .. j : k = j \/ k \in 1 .. j - 1
        BY <3>1
      <4>5. \A k \in 1 .. j : g[k] \in 0 .. i
        BY <2>1, <4>1, <4>3, <4>4
      <4>6. ASSUME NEW k \in 1 .. j, NEW l \in 1 .. j, k < l, g[k] # 0, g[l] # 0
            PROVE  g[k] < g[l]
        <5>1. k \in 1 .. j - 1 /\ g[k] = f[k]
          BY <4>1, <4>6
        <5>2. CASE l = j
          BY <2>1, <4>1, <4>3, <4>6, <5>1, <5>2
        <5>3. CASE l # j
          <6>1. l \in 1 .. j - 1 /\ g[l] = f[l]
            BY <4>1, <5>3
          <6> QED
            BY <3>3, <4>6, <5>1, <6>1 DEF Aligns
        <5> QED
          BY <5>2, <5>3
      <4>7. Aligns(g, i, j)
        BY <4>5, <4>6 DEF Aligns
      <4> QED
        BY <4>1, <4>2, <4>7, Zenon
    <3>4. \/ D[i][j] = D[i - 1][j] + 1
          \/ D[i][j] = D[i][j - 1] + 1
          \/ D[i][j] = D[i - 1][j - 1] + Cost(said[i], claim[j])
      BY Cell
    <3>5. CASE D[i][j] = D[i - 1][j] + 1
      <4>1. PICK f : Aligns(f, i - 1, j) /\ Kept(f, i - 1, j, said, claim) = D[i - 1][j]
        BY <3>2
      <4>2. \A k \in 1 .. j - 1 : f[k] = f[k]
        OBVIOUS
      <4>3. OneMore(f, f, i, j, said, claim)
        BY <2>1, <3>1, <4>2, CountCases, Zenon
      <4>4. Aligns(f, i, j)
        BY <2>1, <4>1 DEF Aligns
      <4> QED
        BY <3>1, <3>5, <4>1, <4>3, <4>4, Zenon DEF OneMore
    <3>6. CASE D[i][j] = D[i][j - 1] + 1
      <4>1. PICK f : Aligns(f, i, j - 1) /\ Kept(f, i, j - 1, said, claim) = D[i][j - 1]
        BY <3>2
      <4>2. PICK g : Aligns(g, i, j) /\ g[j] = 0 /\ OneMore(g, f, i, j, said, claim)
        BY <3>3, <4>1
      <4> QED
        BY <3>1, <3>6, <4>1, <4>2, Zenon DEF OneMore
    <3>7. CASE D[i][j] = D[i - 1][j - 1] + Cost(said[i], claim[j])
      <4>1. PICK f : /\ Aligns(f, i - 1, j - 1)
                     /\ Kept(f, i - 1, j - 1, said, claim) = D[i - 1][j - 1]
        BY <3>2
      <4>2. i # 0
        OBVIOUS
      <4>3. PICK g : Aligns(g, i, j) /\ g[j] = i /\ OneMore(g, f, i, j, said, claim)
        BY <3>3, <4>1, <4>2
      <4> QED
        BY <3>1, <3>7, <4>1, <4>3, Zenon DEF OneMore
    <3> QED
      BY <3>4, <3>5, <3>6, <3>7, Zenon
  <2> HIDE DEF U
  <2>4. \A j \in 0 .. Len(claim) : j \in U
    BY <2>2, <2>3, UpTo
  <2> QED
    BY <2>1, <2>4 DEF U
<1> HIDE DEF T
<1>4. \A i \in 0 .. Len(said) : i \in T
  BY <1>2, <1>3, UpTo
<1> QED
  BY <1>4 DEF T

\* The table answers what the reference asks.
LEMMA WithinIsDistance ==
  ASSUME NEW D, NEW said, NEW claim, Len(said) \in Nat, Len(claim) \in Nat,
         DOMAIN claim = 1 .. Len(claim), IsTable(D, said, claim), NEW edits \in Nat
  PROVE  WithinEdits(said, claim, edits) <=> D[Len(said)][Len(claim)] <= edits
<1> DEFINE m == Len(said)
           n == Len(claim)
<1>1. m \in 0 .. m /\ n \in 0 .. n /\ D[m][n] \in Nat
  BY TableBound
<1>2. ASSUME NEW f \in [1 .. n -> 0 .. m]
      PROVE  /\ InOrder(f) <=> Aligns(f, m, n)
             /\ EditCount(said, claim, f) = Kept(f, m, n, said, claim)
             /\ Kept(f, m, n, said, claim) \in Int
  <2>1. InOrder(f) <=> Aligns(f, m, n)
    BY DEF InOrder, Aligns
  <2>2. \A k \in 1 .. n : f[k] \in 0 .. m
    OBVIOUS
  <2>3. {k \in DOMAIN claim : f[k] # 0} = KeptIn(f, n)
    BY Zenon DEF KeptIn
  <2>4. {k \in {l \in DOMAIN claim : f[l] # 0} : said[f[k]] = claim[k]} = SameIn(f, n, said, claim)
    BY DEF SameIn
  <2>5. IsFiniteSet(1 .. n)
    BY FS_Interval
  <2>6. KeptIn(f, n) \subseteq 1 .. n /\ SameIn(f, n, said, claim) \subseteq 1 .. n
    BY DEF KeptIn, SameIn
  <2>7. Cardinality(KeptIn(f, n)) \in Nat /\ Cardinality(SameIn(f, n, said, claim)) \in Nat
    BY <2>5, <2>6, FS_Subset, FS_CardinalityType
  <2> DEFINE k0 == Cardinality(KeptIn(f, n))
             s0 == Cardinality(SameIn(f, n, said, claim))
  <2>8. EditCount(said, claim, f) = n + m - k0 - s0
    BY <2>3, <2>4, Zenon DEF EditCount
  <2>9. Kept(f, m, n, said, claim) = m + n - k0 - s0
    BY Zenon DEF Kept
  <2> HIDE DEF k0, s0, m, n
  <2>10. m \in Nat /\ n \in Nat /\ k0 \in Nat /\ s0 \in Nat
    BY <2>7 DEF m, n, k0, s0
  <2>11. EditCount(said, claim, f) = Kept(f, m, n, said, claim) /\ Kept(f, m, n, said, claim) \in Int
    BY <2>8, <2>9, <2>10
  <2> QED
    BY <2>1, <2>11, Zenon
<1>3. ASSUME WithinEdits(said, claim, edits) PROVE D[m][n] <= edits
  <2>1. PICK f \in [1 .. n -> 0 .. m] : InOrder(f) /\ EditCount(said, claim, f) <= edits
    BY <1>3 DEF WithinEdits
  <2>2. D[m][n] <= Kept(f, m, n, said, claim)
    BY <1>1, <1>2, <2>1, TableIsLeast, Zenon
  <2>3. Kept(f, m, n, said, claim) \in Int /\ Kept(f, m, n, said, claim) <= edits
    BY <1>2, <2>1
  <2> QED
    BY <1>1, <2>2, <2>3
<1>4. ASSUME D[m][n] <= edits PROVE WithinEdits(said, claim, edits)
  <2>7. \A i \in 0 .. m : \A j \in 0 .. n : \E g :
          Aligns(g, i, j) /\ Kept(g, i, j, said, claim) = D[i][j]
    BY TableIsReached
  <2>1. PICK g : Aligns(g, m, n) /\ Kept(g, m, n, said, claim) = D[m][n]
    BY <1>1, <2>7, Zenon
  <2> DEFINE f == [k \in 1 .. n |-> g[k]]
  <2>2. f \in [1 .. n -> 0 .. m] /\ \A k \in 1 .. n : f[k] = g[k]
    BY <2>1 DEF Aligns
  <2> HIDE DEF f
  <2>3. Aligns(f, m, n)
    BY <2>1, <2>2 DEF Aligns
  <2>4. KeptIn(f, n) = KeptIn(g, n) /\ SameIn(f, n, said, claim) = SameIn(g, n, said, claim)
    BY <2>2 DEF KeptIn, SameIn
  <2>5. Kept(f, m, n, said, claim) = D[m][n]
    BY <2>1, <2>4, Zenon DEF Kept
  <2>6. InOrder(f) /\ EditCount(said, claim, f) <= edits
    BY <1>2, <1>4, <2>2, <2>3, <2>5, Zenon
  <2> QED
    BY <2>2, <2>6, Zenon DEF WithinEdits
<1> QED
  BY <1>3, <1>4

-----------------------------------------------------------------------------
(* Spans in a row                                                          *)

OneByOne(sps) == \A x, y \in DOMAIN sps : x < y => sps[x].end <= sps[y].start

LEMMA AppendElements ==
  ASSUME NEW S, NEW s \in Seq(S), NEW e \in S
  PROVE  /\ Append(s, e) \in Seq(S) /\ Len(s) \in Nat
         /\ DOMAIN s = 1 .. Len(s) /\ DOMAIN Append(s, e) = 1 .. Len(s) + 1
         /\ \A x \in 1 .. Len(s) : Append(s, e)[x] = s[x]
         /\ Append(s, e)[Len(s) + 1] = e
         /\ ToSet(Append(s, e)) = ToSet(s) \cup {e}
<1>1. /\ Append(s, e) \in Seq(S) /\ Len(Append(s, e)) = Len(s) + 1
      /\ \A x \in 1 .. Len(s) : Append(s, e)[x] = s[x]
      /\ Append(s, e)[Len(s) + 1] = e
  BY AppendProperties
<1>2. Len(s) \in Nat /\ DOMAIN s = 1 .. Len(s)
  BY LenProperties
<1>3. DOMAIN Append(s, e) = 1 .. Len(s) + 1
  BY <1>1, LenProperties
<1>4. 1 .. Len(s) + 1 = (1 .. Len(s)) \cup {Len(s) + 1}
  BY <1>2
<1> DEFINE t == Append(s, e)
           N == Len(s)
<1>5. ToSet(t) = ToSet(s) \cup {e}
  <2>1. DOMAIN t = (1 .. N) \cup {N + 1} /\ DOMAIN s = 1 .. N
    BY <1>2, <1>3, <1>4
  <2>2. (\A x \in 1 .. N : t[x] = s[x]) /\ t[N + 1] = e
    BY <1>1
  <2> HIDE DEF t, N
  <2> QED
    BY <2>1, <2>2 DEF ToSet
<1> QED
  BY <1>1, <1>2, <1>3, <1>5

LEMMA OneByOneAppend ==
  ASSUME NEW sps \in Seq(Spans), NEW sp \in Spans, OneByOne(sps),
         \A m \in ToSet(sps) : m.end <= sp.start
  PROVE  OneByOne(Append(sps, sp))
<1> DEFINE t == Append(sps, sp)
           N == Len(sps)
<1>1. /\ N \in Nat /\ DOMAIN sps = 1 .. N /\ DOMAIN t = 1 .. N + 1
      /\ \A x \in 1 .. N : t[x] = sps[x]
      /\ t[N + 1] = sp
  BY AppendElements
<1>2. \A x \in 1 .. N : sps[x] \in ToSet(sps)
  BY <1>1 DEF ToSet
<1> HIDE DEF t, N
<1>3. ASSUME NEW x \in 1 .. N + 1, NEW y \in 1 .. N + 1, x < y
      PROVE  t[x].end <= t[y].start
  <2>1. x \in 1 .. N
    BY <1>1, <1>3
  <2>2. CASE y = N + 1
    BY <1>1, <1>2, <2>1, <2>2
  <2>3. CASE y # N + 1
    <3>1. y \in 1 .. N
      BY <1>1, <2>3
    <3> QED
      BY <1>1, <1>3, <2>1, <3>1 DEF OneByOne
  <2> QED
    BY <2>2, <2>3
<1>4. OneByOne(t)
  BY <1>1, <1>3 DEF OneByOne
<1> QED
  BY <1>4 DEF t

-----------------------------------------------------------------------------
(* Numbers                                                                 *)

IsRun(a, e, s) ==
  /\ a \in 1 .. Len(s) /\ e \in 2 .. Len(s) + 1 /\ a < e
  /\ \A k \in a .. e - 1 : s[k] \in Digits
  /\ a > 1 => s[a - 1] \notin Digits
  /\ e <= Len(s) => s[e] \notin Digits

LEMMA RunIs ==
  ASSUME NEW s, Len(s) \in Nat, DOMAIN s = 1 .. Len(s)
  PROVE  /\ \A r \in Runs(s) : r \in Spans /\ IsRun(r.start, r.end, s) /\ r = Span(r.start, r.end)
         /\ \A a, e : IsRun(a, e, s) => Span(a, e) \in Runs(s)
<1>1. ASSUME NEW r \in Runs(s)
      PROVE  r \in Spans /\ IsRun(r.start, r.end, s) /\ r = Span(r.start, r.end)
  <2>1. /\ r \in [start : 1 .. Len(s), end : 2 .. Len(s) + 1] /\ r.start < r.end
        /\ \A k \in r.start .. r.end - 1 : s[k] \in Digits
        /\ \A k \in {r.start - 1, r.end} \cap (1 .. Len(s)) : s[k] \notin Digits
    BY DEF Runs
  <2>2. r \in Spans /\ r = Span(r.start, r.end)
    BY <2>1 DEF Spans, Span
  <2>3. IsRun(r.start, r.end, s)
    BY <2>1 DEF IsRun
  <2> QED
    BY <2>2, <2>3
<1>2. ASSUME NEW a, NEW e, IsRun(a, e, s) PROVE Span(a, e) \in Runs(s)
  <2> DEFINE r == Span(a, e)
  <2>1. r \in [start : 1 .. Len(s), end : 2 .. Len(s) + 1] /\ r.start = a /\ r.end = e
    BY <1>2 DEF IsRun, Span
  <2> HIDE DEF r
  <2>2. \A k \in {r.start - 1, r.end} \cap (1 .. Len(s)) : s[k] \notin Digits
    BY <1>2, <2>1 DEF IsRun
  <2>3. r.start < r.end /\ \A k \in r.start .. r.end - 1 : s[k] \in Digits
    BY <1>2, <2>1 DEF IsRun
  <2>4. r \in Runs(s)
    BY <2>1, <2>2, <2>3 DEF Runs
  <2> QED
    BY <2>4 DEF r
<1> QED
  BY <1>1, <1>2

LEMMA RunsApart ==
  ASSUME NEW s, Len(s) \in Nat, NEW a, NEW e, NEW c, NEW f, IsRun(a, e, s), IsRun(c, f, s)
  PROVE  /\ a < c => e < c
         /\ a = c => e = f
<1>1. ASSUME a < c, ~ (e < c) PROVE FALSE
  BY <1>1 DEF IsRun
<1>2. ASSUME a = c, e < f PROVE FALSE
  BY <1>2 DEF IsRun
<1>3. ASSUME a = c, f < e PROVE FALSE
  BY <1>3 DEF IsRun
<1>4. e \in Nat /\ f \in Nat /\ a \in Nat /\ c \in Nat
  BY DEF IsRun
<1> QED
  BY <1>1, <1>2, <1>3, <1>4

\* The runs that end by place k, and what is read of them.
RunsBy(s, k) == {r \in Runs(s) : r.end <= k}

Lists(list, s, k) ==
  \E sps \in Seq(Spans) :
    /\ ToSet(sps) = RunsBy(s, k) /\ OneByOne(sps)
    /\ list = [x \in DOMAIN sps |-> Window(s, sps[x])]

\* The run under way at place k.
UnderWay(start, s, k) ==
  IF start = 0 THEN k = 0 \/ s[k] \notin Digits
  ELSE /\ start \in 1 .. k /\ \A m \in start .. k : s[m] \in Digits
       /\ start > 1 => s[start - 1] \notin Digits

LEMMA RunCloses ==
  ASSUME NEW S, NEW s \in Seq(S), NEW k \in 1 .. Len(s) + 1, NEW list, NEW start \in Nat \ {0},
         Lists(list, s, k - 1), UnderWay(start, s, k - 1),
         k <= Len(s) => s[k] \notin Digits
  PROVE  Lists(Append(list, Window(s, Span(start, k))), s, k)
<1>1. Len(s) \in Nat /\ DOMAIN s = 1 .. Len(s)
  BY LenProperties
<1>2. IsRun(start, k, s)
  <2>1. /\ start \in 1 .. k - 1 /\ \A m \in start .. k - 1 : s[m] \in Digits
        /\ start > 1 => s[start - 1] \notin Digits
    BY DEF UnderWay
  <2> QED
    BY <1>1, <2>1 DEF IsRun
<1> DEFINE r == Span(start, k)
<1>3. /\ r \in Runs(s)
      /\ \A q \in Runs(s) : q \in Spans /\ IsRun(q.start, q.end, s) /\ q = Span(q.start, q.end)
  BY <1>1, <1>2, RunIs, Zenon
<1>4. PICK sps \in Seq(Spans) :
        /\ ToSet(sps) = RunsBy(s, k - 1) /\ OneByOne(sps)
        /\ list = [x \in DOMAIN sps |-> Window(s, sps[x])]
  BY DEF Lists
<1>5. r.start = start /\ r.end = k /\ k \in Nat
  BY <1>1 DEF Span
<1>6. ASSUME NEW q \in Runs(s), q.end <= k PROVE q = r \/ q.end < start
  <2> DEFINE a == q.start
             e == q.end
  <2>1. IsRun(a, e, s) /\ q = Span(a, e)
    BY <1>3
  <2>2. /\ a < start => e < start
        /\ start < a => k < a
        /\ a = start => e = k
    BY <1>1, <1>2, <2>1, RunsApart
  <2>3. a \in Nat /\ e \in Nat /\ a < e
    BY <1>1, <2>1 DEF IsRun
  <2>4. e < start \/ (a = start /\ e = k)
    BY <1>5, <1>6, <2>2, <2>3
  <2> QED
    BY <2>1, <2>4, Zenon
<1>7. r \in Spans
  BY <1>3
<1>8. start < k
  BY <1>2 DEF IsRun
<1>9. RunsBy(s, k) = RunsBy(s, k - 1) \cup {r}
  <2>1. ASSUME NEW q \in RunsBy(s, k) PROVE q \in RunsBy(s, k - 1) \cup {r}
    <3>1. q \in Runs(s) /\ q.end <= k /\ q.end \in Nat
      BY <1>3, <2>1 DEF RunsBy, Spans
    <3>2. q = r \/ q.end <= k - 1
      BY <1>5, <1>6, <1>8, <3>1
    <3> QED
      BY <3>1, <3>2 DEF RunsBy
  <2>2. ASSUME NEW q \in RunsBy(s, k - 1) \cup {r} PROVE q \in RunsBy(s, k)
    <3>1. CASE q = r
      BY <1>3, <1>5, <3>1 DEF RunsBy
    <3>2. CASE q # r
      <4>1. q \in Runs(s) /\ q.end <= k - 1 /\ q.end \in Nat
        BY <1>3, <2>2, <3>2 DEF RunsBy, Spans
      <4> QED
        BY <1>5, <4>1 DEF RunsBy
    <3> QED
      BY <3>1, <3>2
  <2> QED
    BY <2>1, <2>2
<1>10. \A m \in ToSet(sps) : m.end <= r.start
  <2> SUFFICES ASSUME NEW m \in ToSet(sps) PROVE m.end <= r.start
    OBVIOUS
  <2>1. m \in Runs(s) /\ m.end <= k - 1 /\ m.end \in Nat
    BY <1>3, <1>4 DEF RunsBy, Spans
  <2>2. m # r
    BY <1>5, <2>1
  <2> QED
    BY <1>5, <1>6, <2>1, <2>2
<1> HIDE DEF r
<1> DEFINE t == Append(sps, r)
           N == Len(sps)
           w == Window(s, r)
<1>11. t \in Seq(Spans) /\ ToSet(t) = ToSet(sps) \cup {r} /\ OneByOne(t)
  BY <1>4, <1>7, <1>10, AppendElements, OneByOneAppend
<1>12. /\ N \in Nat /\ DOMAIN sps = 1 .. N /\ DOMAIN t = 1 .. N + 1
       /\ \A x \in 1 .. N : t[x] = sps[x]
       /\ t[N + 1] = r
  BY <1>7, AppendElements
<1>13. Append(list, w) = [x \in DOMAIN t |-> Window(s, t[x])]
  <2> DEFINE more == [x \in 1 .. N + 1 |-> Window(s, t[x])]
             All == {Window(s, t[x]) : x \in 1 .. N + 1}
  <2>1. more \in Seq(All) /\ Len(more) = N + 1 /\ \A x \in 1 .. N + 1 : more[x] = Window(s, t[x])
    BY <1>12, SMTT(30)
  <2>2. list = [x \in 1 .. N |-> Window(s, t[x])]
    BY <1>4, <1>12
  <2>3. list \in Seq(All) /\ Len(list) = N /\ \A x \in 1 .. N : list[x] = Window(s, t[x])
    BY <1>12, <2>2, SMTT(30)
  <2>4. w \in All /\ w = Window(s, t[N + 1])
    BY <1>12
  <2> HIDE DEF more, All, t, w
  <2>5. /\ Append(list, w) \in Seq(All) /\ Len(Append(list, w)) = N + 1
        /\ \A x \in 1 .. N : Append(list, w)[x] = list[x]
        /\ Append(list, w)[N + 1] = w
    BY <2>3, <2>4, AppendProperties
  <2>6. \A x \in 1 .. N + 1 : Append(list, w)[x] = more[x]
    BY <1>12, <2>1, <2>3, <2>4, <2>5
  <2>7. Append(list, w) = more
    BY <1>12, <2>1, <2>5, <2>6, SeqEqual
  <2> QED
    BY <1>12, <2>7 DEF more
<1>14. ToSet(t) = RunsBy(s, k)
  BY <1>4, <1>9, <1>11, Zenon
<1>15. Lists(Append(list, w), s, k)
  BY <1>11, <1>13, <1>14, Zenon DEF Lists
<1> QED
  BY <1>15 DEF r

LEMMA RunsStay ==
  ASSUME NEW S, NEW s \in Seq(S), NEW k \in 1 .. Len(s) + 1, NEW list, Lists(list, s, k - 1),
         \/ k <= Len(s) /\ s[k] \in Digits
         \/ UnderWay(0, s, k - 1)
  PROVE  Lists(list, s, k)
<1>1. Len(s) \in Nat /\ DOMAIN s = 1 .. Len(s)
  BY LenProperties
<1>2. \A r \in Runs(s) : r \in Spans /\ IsRun(r.start, r.end, s)
  BY <1>1, RunIs, Zenon
<1>3. ASSUME NEW a, IsRun(a, k, s) PROVE FALSE
  <2>1. CASE k <= Len(s) /\ s[k] \in Digits
    BY <1>3, <2>1 DEF IsRun
  <2>2. CASE UnderWay(0, s, k - 1)
    <3>1. a \in Nat \ {0} /\ a < k /\ k - 1 \in a .. k - 1 /\ s[k - 1] \in Digits
      BY <1>1, <1>3 DEF IsRun
    <3>2. k - 1 = 0 \/ s[k - 1] \notin Digits
      BY <2>2 DEF UnderWay
    <3> QED
      BY <1>1, <3>1, <3>2
  <2> QED
    BY <2>1, <2>2
<1>4. RunsBy(s, k) = RunsBy(s, k - 1)
  <2>1. ASSUME NEW r \in Runs(s) PROVE r.end <= k <=> r.end <= k - 1
    <3>1. r.end \in Nat /\ r.end # k
      BY <1>2, <1>3 DEF Spans
    <3> QED
      BY <1>1, <3>1
  <2> QED
    BY <2>1 DEF RunsBy
<1> QED
  BY <1>4, Zenon DEF Lists

\* One more character read.
ReadNext(st, s, k) ==
  IF s[k] \in Digits THEN [st EXCEPT !.start = IF @ = 0 THEN k ELSE @]
  ELSE IF st.start = 0 THEN st
  ELSE [start |-> 0, out |-> Append(st.out, Window(s, Span(st.start, k)))]

LEMMA WindowIs ==
  ASSUME NEW S, NEW s \in Seq(S), NEW a \in 1 .. Len(s), NEW e \in 1 .. Len(s) + 1
  PROVE  /\ Window(s, Span(a, e)) \in Seq(S)
         /\ Len(Window(s, Span(a, e))) = IF a < e THEN e - a ELSE 0
         /\ \A x \in 1 .. e - a : Window(s, Span(a, e))[x] = s[a + x - 1]
<1>1. Len(s) \in Nat /\ s \in [1 .. Len(s) -> S]
  BY LenProperties
<1>2. Window(s, Span(a, e)) = SubSeq(s, a, e - 1)
  BY DEF Window, Span
<1>3. a \in Int /\ e - 1 \in Int /\ \A x \in a .. e - 1 : s[x] \in S
  BY <1>1
<1> DEFINE w == SubSeq(s, a, e - 1)
<1>4. /\ w \in Seq(S) /\ Len(w) = IF a <= e - 1 THEN (e - 1) - a + 1 ELSE 0
      /\ \A x \in 1 .. (e - 1) - a + 1 : w[x] = s[a + x - 1]
  BY <1>3, SubSeqProperties, SMTT(30)
<1> HIDE DEF w
<1>5. Len(w) = IF a < e THEN e - a ELSE 0
  BY <1>1, <1>4
<1>6. \A x \in 1 .. e - a : w[x] = s[a + x - 1]
  BY <1>1, <1>4
<1> QED
  BY <1>2, <1>4, <1>5, <1>6 DEF w

LEMMA DigitRunsAre ==
  ASSUME NEW S, NEW s \in Seq(S)
  PROVE  Lists(DigitRuns(s), s, Len(s) + 1)
<1> DEFINE N == Len(s)
           base == [start |-> 0, out |-> <<>>]
           State == [start : 0 .. N, out : Seq(Seq(S))]
           Body(st, k) == ReadNext(st, s, k)
           Is(f) == f = [k \in 0 .. N |-> IF k = 0 THEN base ELSE Body(f[k - 1], k)]
           step == [p \in State \X (1 .. N) |-> Body(p[1], p[2])]
           scan == CHOOSE f : Is(f)
           last == scan[N]
<1>1. N \in Nat /\ DOMAIN s = 1 .. N
  BY LenProperties
<1>2. base \in State /\ base.start = 0 /\ base.out = <<>>
  BY <1>1
<1>3. DigitRuns(s) = IF last.start = 0 THEN last.out
                     ELSE Append(last.out, Window(s, Span(last.start, N + 1)))
  BY Zenon DEF DigitRuns, ReadNext
<1>4. ASSUME NEW st \in State, NEW k \in 1 .. N
      PROVE  /\ Body(st, k) \in State
             /\ s[k] \in Digits => /\ Body(st, k).out = st.out
                                   /\ Body(st, k).start = IF st.start = 0 THEN k ELSE st.start
             /\ s[k] \notin Digits /\ st.start = 0 => Body(st, k) = st
             /\ s[k] \notin Digits /\ st.start # 0 =>
                  /\ Body(st, k).start = 0
                  /\ Body(st, k).out = Append(st.out, Window(s, Span(st.start, k)))
  <2>1. CASE s[k] \in Digits
    <3>1. Body(st, k) = [st EXCEPT !.start = IF st.start = 0 THEN k ELSE st.start]
      BY <2>1 DEF ReadNext
    <3> QED
      BY <1>1, <2>1, <3>1, SMTT(30)
  <2>2. CASE s[k] \notin Digits /\ st.start = 0
    <3>1. Body(st, k) = st
      BY <2>2 DEF ReadNext
    <3> QED
      BY <2>2, <3>1
  <2>3. CASE s[k] \notin Digits /\ st.start # 0
    <3> DEFINE w == Window(s, Span(st.start, k))
    <3>1. Body(st, k) = [start |-> 0, out |-> Append(st.out, w)]
      BY <2>3 DEF ReadNext
    <3>2. st.start \in 1 .. Len(s) /\ k \in 1 .. Len(s) + 1
      BY <1>1, <2>3
    <3>3. w \in Seq(S)
      BY <3>2, WindowIs
    <3> HIDE DEF w
    <3>4. Append(st.out, w) \in Seq(Seq(S))
      BY <3>3
    <3> QED
      BY <1>1, <2>3, <3>1, <3>4 DEF w
  <2> QED
    BY <2>1, <2>2, <2>3
<1>10. \A st \in State : \A k \in 1 .. N : Body(st, k) \in State
  BY <1>4
<1> HIDE DEF base, State, Body
<1>5. Is(scan)
  <2>1. step \in [State \X (1 .. N) -> State]
    BY <1>10
  <2> HIDE DEF step, N
  <2>2. \E g : Recursive(g, base, step, N) /\ \A k \in 0 .. N : g[k] \in State
    BY <1>1, <1>2, <2>1, RecursionExists, ZenonT(40)
  <2>3. PICK g : /\ g = [k \in 0 .. N |-> IF k = 0 THEN base ELSE step[<<g[k - 1], k>>]]
                 /\ \A k \in 0 .. N : g[k] \in State
    BY <2>2, Zenon DEF Recursive
  <2>4. \A k \in 1 .. N : g[k - 1] \in State
    BY <1>1, <2>3
  <2>5. \A k \in 1 .. N : step[<<g[k - 1], k>>] = Body(g[k - 1], k)
    BY <2>4 DEF step
  <2>6. \A k \in 0 .. N : (IF k = 0 THEN base ELSE step[<<g[k - 1], k>>])
                           = (IF k = 0 THEN base ELSE Body(g[k - 1], k))
    BY <1>1, <2>5
  <2>7. [k \in 0 .. N |-> IF k = 0 THEN base ELSE step[<<g[k - 1], k>>]]
          = [k \in 0 .. N |-> IF k = 0 THEN base ELSE Body(g[k - 1], k)]
    BY <2>6, Zenon
  <2>8. Is(g)
    BY <2>3, <2>7, Zenon
  <2> QED
    BY <2>8, Zenon
<1> HIDE DEF scan, step, N
<1>6. scan = [k \in 0 .. N |-> IF k = 0 THEN base ELSE Body(scan[k - 1], k)]
  BY <1>5, Zenon
<1>7. scan[0] = base /\ \A k \in 1 .. N : scan[k] = Body(scan[k - 1], k)
  BY <1>1, <1>6
<1> DEFINE Upto(k) == /\ scan[k] \in State
                      /\ Lists(scan[k].out, s, k) /\ UnderWay(scan[k].start, s, k)
           T == {k \in 0 .. N : Upto(k)}
<1>8. 0 \in T
  <2>1. UnderWay(0, s, 0)
    BY DEF UnderWay
  <2>2. RunsBy(s, 0) = {}
    <3>1. \A r \in Runs(s) : r.end \in Nat \ {0}
      BY <1>1 DEF Runs
    <3> QED
      BY <3>1 DEF RunsBy
  <2>3. <<>> \in Seq(Spans) /\ ToSet(<<>>) = {} /\ OneByOne(<<>>) /\ DOMAIN <<>> = {}
    BY DEF ToSet, OneByOne
  <2>4. <<>> = [x \in {} |-> Window(s, <<>>[x])]
    OBVIOUS
  <2>5. Lists(<<>>, s, 0)
    BY <2>2, <2>3, <2>4, Zenon DEF Lists
  <2> QED
    BY <1>1, <1>2, <1>7, <2>1, <2>5
<1>9. ASSUME NEW k \in 1 .. N, k - 1 \in T PROVE k \in T
  <2> DEFINE st == scan[k - 1]
  <2>1. st \in State /\ Lists(st.out, s, k - 1) /\ UnderWay(st.start, s, k - 1)
    BY <1>9
  <2>2. scan[k] = Body(st, k) /\ k \in 0 .. N /\ k \in 1 .. Len(s) + 1 /\ k <= Len(s) /\ k # 0
    BY <1>1, <1>7 DEF N
  <2>5. st.start \in Nat
    BY <2>1 DEF State
  <2> HIDE DEF st
  <2>3. scan[k] \in State
    BY <1>4, <2>1, <2>2
  <2>4. Lists(scan[k].out, s, k) /\ UnderWay(scan[k].start, s, k)
    <3>1. CASE s[k] \in Digits
      <4>1. Lists(st.out, s, k)
        BY <2>1, <2>2, <3>1, RunsStay
      <4>2. scan[k].out = st.out /\ scan[k].start = IF st.start = 0 THEN k ELSE st.start
        BY <1>4, <2>1, <2>2, <3>1
      <4>3. UnderWay(scan[k].start, s, k)
        <5>1. CASE st.start = 0
          <6>1. k - 1 = 0 \/ s[k - 1] \notin Digits
            BY <2>1, <5>1 DEF UnderWay
          <6> QED
            BY <1>1, <2>2, <3>1, <4>2, <5>1, <6>1 DEF UnderWay
        <5>2. CASE st.start # 0
          <6>1. /\ st.start \in 1 .. k - 1 /\ \A m \in st.start .. k - 1 : s[m] \in Digits
                /\ st.start > 1 => s[st.start - 1] \notin Digits
            BY <2>1, <5>2 DEF UnderWay
          <6> QED
            BY <1>1, <2>2, <3>1, <4>2, <5>2, <6>1 DEF UnderWay
        <5> QED
          BY <5>1, <5>2
      <4> QED
        BY <4>1, <4>2, <4>3
    <3>2. CASE s[k] \notin Digits /\ st.start = 0
      <4>1. Lists(st.out, s, k)
        BY <2>1, <2>2, <3>2, RunsStay
      <4>2. scan[k] = st
        BY <1>4, <2>1, <2>2, <3>2
      <4> QED
        BY <3>2, <4>1, <4>2 DEF UnderWay
    <3>3. CASE s[k] \notin Digits /\ st.start # 0
      <4>1. Lists(Append(st.out, Window(s, Span(st.start, k))), s, k)
        BY <2>1, <2>2, <2>5, <3>3, RunCloses
      <4>2. /\ scan[k].start = 0
            /\ scan[k].out = Append(st.out, Window(s, Span(st.start, k)))
        BY <1>4, <2>1, <2>2, <3>3
      <4> QED
        BY <3>3, <4>1, <4>2 DEF UnderWay
    <3> QED
      BY <3>1, <3>2, <3>3
  <2> QED
    BY <2>2, <2>3, <2>4
<1> HIDE DEF T
<1>11. \A k \in 0 .. N : k \in T
  BY <1>1, <1>8, <1>9, UpTo
<1>12. /\ last \in State /\ Lists(last.out, s, N) /\ UnderWay(last.start, s, N)
       /\ last.start \in Nat
  BY <1>1, <1>11 DEF T, State
<1>13. N + 1 \in 1 .. Len(s) + 1 /\ (N + 1) - 1 = N /\ ~ (N + 1 <= Len(s))
  BY <1>1 DEF N
<1> HIDE DEF last
<1>14. CASE last.start = 0
  <2>1. Lists(last.out, s, N + 1)
    BY <1>12, <1>13, <1>14, RunsStay
  <2> QED
    BY <1>3, <1>14, <2>1 DEF N
<1>15. CASE last.start # 0
  <2>1. Lists(Append(last.out, Window(s, Span(last.start, N + 1))), s, N + 1)
    BY <1>12, <1>13, <1>15, RunCloses
  <2> QED
    BY <1>3, <1>15, <2>1 DEF N
<1> QED
  BY <1>14, <1>15

\* Upto as the reference reads them.
LEMMA NumbersAreListed ==
  ASSUME NEW S, NEW s \in Seq(S), NEW list, Lists(list, s, Len(s) + 1)
  PROVE  \E n \in Nat : /\ list = [x \in 1 .. n |-> list[x]]
                        /\ Numbers(s) = {<<x, list[x]>> : x \in 1 .. n}
<1>1. Len(s) \in Nat /\ DOMAIN s = 1 .. Len(s)
  BY LenProperties
<1>2. \A r \in Runs(s) : r \in Spans /\ IsRun(r.start, r.end, s)
  BY <1>1, RunIs, Zenon
<1>3. RunsBy(s, Len(s) + 1) = Runs(s)
  <2>1. \A r \in Runs(s) : r.end <= Len(s) + 1
    BY <1>2 DEF IsRun
  <2> QED
    BY <2>1 DEF RunsBy
<1>4. PICK sps \in Seq(Spans) :
        /\ ToSet(sps) = RunsBy(s, Len(s) + 1) /\ OneByOne(sps)
        /\ list = [x \in DOMAIN sps |-> Window(s, sps[x])]
  BY DEF Lists
<1> DEFINE n == Len(sps)
<1>5. n \in Nat /\ DOMAIN sps = 1 .. n
  BY LenProperties
<1> HIDE DEF n
<1>6. \A x \in 1 .. n : sps[x] \in Runs(s) /\ sps[x] \in Spans /\ sps[x].start < sps[x].end
  <2> SUFFICES ASSUME NEW x \in 1 .. n
               PROVE  sps[x] \in Runs(s) /\ sps[x] \in Spans /\ sps[x].start < sps[x].end
    OBVIOUS
  <2>1. sps[x] \in Runs(s)
    BY <1>3, <1>4, <1>5 DEF ToSet
  <2> QED
    BY <1>2, <2>1 DEF IsRun
<1>7. ASSUME NEW x \in 1 .. n, NEW y \in 1 .. n PROVE sps[y].start <= sps[x].start <=> y <= x
  <2>1. /\ sps[x].start \in Nat /\ sps[y].start \in Nat /\ sps[x].end \in Nat /\ sps[y].end \in Nat
        /\ sps[x].start < sps[x].end /\ sps[y].start < sps[y].end
    BY <1>6 DEF Spans
  <2>2. /\ x < y => sps[x].end <= sps[y].start
        /\ y < x => sps[y].end <= sps[x].start
    BY <1>4, <1>5 DEF OneByOne
  <2>3. x \in Nat /\ y \in Nat
    BY <1>5
  <2>4. x = y \/ x < y \/ y < x
    BY <2>3
  <2> QED
    BY <2>1, <2>2, <2>3, <2>4, SMTT(30)
<1> DEFINE Upto(r) == {q \in Runs(s) : q.start <= r.start}
<1>8. ASSUME NEW x \in 1 .. n PROVE Cardinality(Upto(sps[x])) = x
  <2> DEFINE U == Upto(sps[x])
             f == [y \in 1 .. x |-> sps[y]]
  <2>1. x \in Nat /\ 1 .. x \subseteq 1 .. n
    BY <1>5
  <2>2. U = {sps[y] : y \in 1 .. x}
    <3>1. Runs(s) = {sps[y] : y \in 1 .. n}
      BY <1>3, <1>4, <1>5 DEF ToSet
    <3>2. \A y \in 1 .. n : sps[y].start <= sps[x].start <=> y \in 1 .. x
      BY <1>5, <1>7
    <3> QED
      BY <2>1, <3>1, <3>2
  <2>3. \A y, z \in 1 .. x : sps[y] = sps[z] => y = z
    <3> SUFFICES ASSUME NEW y \in 1 .. x, NEW z \in 1 .. x, sps[y] = sps[z] PROVE y = z
      OBVIOUS
    <3>1. sps[y].start \in Nat /\ y \in 1 .. n /\ z \in 1 .. n
      BY <1>6, <2>1 DEF Spans
    <3>2. y <= z /\ z <= y
      BY <1>7, <3>1
    <3> QED
      BY <3>2
  <2> HIDE DEF U
  <2>4. f \in Bijection(1 .. x, U)
    BY <2>2, <2>3 DEF Bijection, Injection, Surjection, IsInjective
  <2>5. IsFiniteSet(1 .. x) /\ Cardinality(1 .. x) = x
    <3>1. x \in Int /\ 1 \in Int /\ (IF 1 > x THEN 0 ELSE x - 1 + 1) = x
      BY <1>5
    <3> HIDE DEF n
    <3> QED
      BY <3>1, FS_Interval
  <2>6. Cardinality(U) = Cardinality(1 .. x)
    BY <2>4, <2>5, FS_Bijection DEF ExistsBijection
  <2> QED
    BY <2>5, <2>6 DEF U
<1>9. Numbers(s) = {<<x, list[x]>> : x \in 1 .. n}
  <2>1. Runs(s) = {sps[x] : x \in 1 .. n}
    BY <1>3, <1>4, <1>5 DEF ToSet
  <2>2. Numbers(s) = {<<Cardinality(Upto(r)), Window(s, r)>> : r \in Runs(s)}
    BY Zenon DEF Numbers
  <2>3. \A x \in 1 .. n : list[x] = Window(s, sps[x])
    BY <1>4, <1>5
  <2> HIDE DEF Upto
  <2>4. \A x \in 1 .. n : <<Cardinality(Upto(sps[x])), Window(s, sps[x])>> = <<x, list[x]>>
    BY <1>8, <2>3
  <2>5. Numbers(s) = {<<Cardinality(Upto(sps[x])), Window(s, sps[x])>> : x \in 1 .. n}
    BY <2>1, <2>2
  <2> QED
    BY <2>4, <2>5
<1>10. list = [x \in 1 .. n |-> list[x]]
  BY <1>4, <1>5
<1> QED
  BY <1>5, <1>9, <1>10

LEMMA NumbersCompared ==
  ASSUME NEW S, NEW s \in Seq(S), NEW t \in Seq(S)
  PROVE  ContainsNumericChange(s, t) <=> Numbers(t) # {} /\ Numbers(s) # Numbers(t)
<1> DEFINE a == DigitRuns(s)
           b == DigitRuns(t)
<1>1. PICK m \in Nat : a = [x \in 1 .. m |-> a[x]] /\ Numbers(s) = {<<x, a[x]>> : x \in 1 .. m}
  BY DigitRunsAre, NumbersAreListed
<1>2. PICK n \in Nat : b = [x \in 1 .. n |-> b[x]] /\ Numbers(t) = {<<x, b[x]>> : x \in 1 .. n}
  BY DigitRunsAre, NumbersAreListed
<1>3. ContainsNumericChange(s, t) <=> b # <<>> /\ a # b
  BY Zenon DEF ContainsNumericChange
<1> HIDE DEF a, b
<1>4. b = <<>> <=> Numbers(t) = {}
  <2>1. CASE n = 0
    <3>1. 1 .. n = {}
      BY <2>1
    <3>2. b = <<>>
      BY <1>2, <3>1
    <3> QED
      BY <1>2, <3>1, <3>2
  <2>2. CASE n # 0
    <3>1. 1 \in 1 .. n
      BY <2>2
    <3>2. DOMAIN b = 1 .. n /\ DOMAIN <<>> = {}
      BY <1>2
    <3> QED
      BY <1>2, <3>1, <3>2
  <2> QED
    BY <2>1, <2>2
<1>5. ASSUME Numbers(s) = Numbers(t) PROVE a = b
  <2>1. \A x \in 1 .. m : x \in 1 .. n /\ a[x] = b[x]
    <3> SUFFICES ASSUME NEW x \in 1 .. m PROVE x \in 1 .. n /\ a[x] = b[x]
      OBVIOUS
    <3>1. <<x, a[x]>> \in {<<y, b[y]>> : y \in 1 .. n}
      BY <1>1, <1>2, <1>5
    <3> QED
      BY <3>1
  <2>2. \A x \in 1 .. n : x \in 1 .. m
    <3> SUFFICES ASSUME NEW x \in 1 .. n PROVE x \in 1 .. m
      OBVIOUS
    <3>1. <<x, b[x]>> \in {<<y, a[y]>> : y \in 1 .. m}
      BY <1>1, <1>2, <1>5
    <3> QED
      BY <3>1
  <2>3. 1 .. m = 1 .. n
    BY <2>1, <2>2
  <2>4. [x \in 1 .. m |-> a[x]] = [x \in 1 .. n |-> b[x]]
    BY <2>1, <2>3
  <2> QED
    BY <1>1, <1>2, <2>4
<1>6. ASSUME a = b PROVE Numbers(s) = Numbers(t)
  <2>1. DOMAIN a = 1 .. m /\ DOMAIN b = 1 .. n
    BY <1>1, <1>2
  <2>2. 1 .. m = 1 .. n
    BY <1>6, <2>1
  <2> QED
    BY <1>1, <1>2, <1>6, <2>2
<1> QED
  BY <1>3, <1>4, <1>5, <1>6

-----------------------------------------------------------------------------
(* Small letters                                                           *)

Small(c) == IF c \in DOMAIN SmallLetter THEN SmallLetter[c] ELSE c
InSmall(S) == {Small(c) : c \in S}

LEMMA LowerIs ==
  ASSUME NEW S, NEW s \in Seq(S)
  PROVE  /\ ToLower(s) \in Seq(InSmall(S)) /\ Len(ToLower(s)) = Len(s)
         /\ DOMAIN s = 1 .. Len(s) /\ Len(s) \in Nat
         /\ \A k \in 1 .. Len(s) : ToLower(s)[k] = Small(s[k])
<1>1. Len(s) \in Nat /\ DOMAIN s = 1 .. Len(s) /\ s \in [1 .. Len(s) -> S]
  BY LenProperties
<1>2. ToLower(s) = [k \in 1 .. Len(s) |-> Small(s[k])]
  BY <1>1, Zenon DEF ToLower, Small
<1> DEFINE N == Len(s)
           T == InSmall(S)
           t == [k \in 1 .. N |-> Small(s[k])]
<1>3. \A k \in 1 .. N : Small(s[k]) \in T
  BY <1>1 DEF InSmall
<1>4. t \in [1 .. N -> T]
  BY <1>3
<1>5. N \in Nat
  BY <1>1
<1> HIDE DEF N, T
<1>6. t \in Seq(T) /\ Len(t) = N /\ \A k \in 1 .. N : t[k] = Small(s[k])
  BY <1>4, <1>5
<1> QED
  BY <1>1, <1>2, <1>6 DEF N, T

LEMMA LowerWindow ==
  ASSUME NEW S, NEW s \in Seq(S), NEW a \in 1 .. Len(s), NEW e \in 1 .. Len(s) + 1
  PROVE  ToLower(Window(s, Span(a, e))) = Window(ToLower(s), Span(a, e))
<1> DEFINE w == Window(s, Span(a, e))
           t == ToLower(s)
           v == Window(t, Span(a, e))
           n == IF a < e THEN e - a ELSE 0
<1>1. /\ t \in Seq(InSmall(S)) /\ Len(t) = Len(s) /\ Len(s) \in Nat
      /\ \A k \in 1 .. Len(s) : t[k] = Small(s[k])
  BY LowerIs
<1>2. w \in Seq(S) /\ Len(w) = n /\ \A x \in 1 .. e - a : w[x] = s[a + x - 1]
  BY WindowIs
<1>3. /\ ToLower(w) \in Seq(InSmall(S)) /\ Len(ToLower(w)) = n
      /\ \A x \in 1 .. n : ToLower(w)[x] = Small(w[x])
  BY <1>2, LowerIs
<1>4. /\ v \in Seq(InSmall(S)) /\ Len(v) = n
      /\ \A x \in 1 .. e - a : v[x] = t[a + x - 1]
  <2>1. a \in 1 .. Len(t) /\ e \in 1 .. Len(t) + 1
    BY <1>1
  <2> HIDE DEF t
  <2> QED
    BY <1>1, <2>1, WindowIs
<1>5. ASSUME NEW x \in 1 .. n PROVE ToLower(w)[x] = v[x]
  <2>1. x \in 1 .. e - a /\ a + x - 1 \in 1 .. Len(s)
    BY <1>1
  <2> QED
    BY <1>1, <1>2, <1>3, <1>4, <2>1
<1> HIDE DEF w, v, n, t
<1>6. ToLower(w) = v
  BY <1>3, <1>4, <1>5, SeqEqual
<1> QED
  BY <1>6 DEF w, v, t

-----------------------------------------------------------------------------
(* Exact occurrences                                                       *)

\* The claim, letter for letter.
ExactlyAt(hay, needle, sp) ==
  /\ sp \in Spans /\ sp.start \in 1 .. Len(hay) /\ sp.end = sp.start + Len(needle)
  /\ sp.end <= Len(hay) + 1 /\ HasWordBoundaries(hay, sp, needle)
  /\ Window(ToLower(hay), sp) = ToLower(needle)

\* The list by place i, and the spans it has not passed.
FoundNext(before, i, hay, needle) ==
  LET sp == Span(i, i + Len(needle))
  IN IF /\ sp.end <= Len(hay) + 1 /\ HasWordBoundaries(hay, sp, needle)
        /\ Window(ToLower(hay), sp) = ToLower(needle)
        /\ \A m \in ToSet(before) : m.end <= i
     THEN Append(before, sp) ELSE before

LEMMA FoundMore ==
  ASSUME NEW hay, NEW needle, Len(hay) \in Nat, Len(needle) \in Nat \ {0},
         NEW before \in Seq(Spans), NEW i \in 1 .. Len(hay), OneByOne(before),
         \A m \in ToSet(before) : ExactlyAt(hay, needle, m) /\ m.start < i
  PROVE  LET after == FoundNext(before, i, hay, needle)
         IN /\ after \in Seq(Spans) /\ OneByOne(after) /\ ToSet(before) \subseteq ToSet(after)
            /\ \A m \in ToSet(after) : ExactlyAt(hay, needle, m) /\ m.start < i + 1
            /\ ExactlyAt(hay, needle, Span(i, i + Len(needle))) =>
                 \E m \in ToSet(after) : Overlap(Span(i, i + Len(needle)), m)
<1> DEFINE sp == Span(i, i + Len(needle))
           after == FoundNext(before, i, hay, needle)
           There == /\ sp.end <= Len(hay) + 1 /\ HasWordBoundaries(hay, sp, needle)
                    /\ Window(ToLower(hay), sp) = ToLower(needle)
           AllBefore == \A m \in ToSet(before) : m.end <= i
<1>1. sp.start = i /\ sp.end = i + Len(needle) /\ sp \in Spans
  BY DEF Span, Spans
<1>2. after = IF There /\ AllBefore THEN Append(before, sp) ELSE before
  BY Zenon DEF FoundNext
<1>3. There <=> ExactlyAt(hay, needle, sp)
  BY <1>1 DEF ExactlyAt
<1> HIDE DEF sp, There
<1>4. CASE There /\ AllBefore
  <2>1. after \in Seq(Spans) /\ ToSet(after) = ToSet(before) \cup {sp} /\ OneByOne(after)
    BY <1>1, <1>2, <1>4, AppendElements, OneByOneAppend
  <2>2. Overlap(sp, sp)
    BY <1>1 DEF Overlap
  <2> HIDE DEF after
  <2>3. \A m \in ToSet(after) : ExactlyAt(hay, needle, m) /\ m.start < i + 1
    <3> SUFFICES ASSUME NEW m \in ToSet(after) PROVE ExactlyAt(hay, needle, m) /\ m.start < i + 1
      OBVIOUS
    <3>1. CASE m = sp
      BY <1>1, <1>3, <1>4, <3>1
    <3>2. CASE m \in ToSet(before)
      <4>1. ExactlyAt(hay, needle, m) /\ m.start < i /\ m.start \in Nat
        BY <3>2 DEF ExactlyAt
      <4> QED
        BY <4>1
    <3> QED
      BY <2>1, <3>1, <3>2
  <2> QED
    BY <2>1, <2>2, <2>3 DEF sp, after
<1>5. CASE ~ (There /\ AllBefore)
  <2>1. after = before
    BY <1>2, <1>5
  <2>2. ASSUME There PROVE \E m \in ToSet(before) : Overlap(sp, m)
    <3>1. PICK m \in ToSet(before) : ~ (m.end <= i)
      BY <1>5, <2>2
    <3>2. m.start < i /\ m.start \in Nat /\ m.end \in Nat
      BY DEF ExactlyAt, Spans
    <3>3. Overlap(sp, m)
      BY <1>1, <3>1, <3>2 DEF Overlap
    <3> QED
      BY <3>3
  <2>3. \A m \in ToSet(before) : ExactlyAt(hay, needle, m) /\ m.start < i + 1
    <3> SUFFICES ASSUME NEW m \in ToSet(before) PROVE ExactlyAt(hay, needle, m) /\ m.start < i + 1
      OBVIOUS
    <3>1. ExactlyAt(hay, needle, m) /\ m.start < i /\ m.start \in Nat
      BY DEF ExactlyAt
    <3> QED
      BY <3>1
  <2> HIDE DEF after
  <2> QED
    BY <1>3, <2>1, <2>2, <2>3 DEF sp, after
<1> QED
  BY <1>4, <1>5

\* Every occurrence is found, or shares characters with one that is.
ExactFound(found, hay, needle) ==
  /\ found \in Seq(Spans) /\ OneByOne(found)
  /\ \A m \in ToSet(found) : ExactlyAt(hay, needle, m)
  /\ \A i \in 1 .. Len(hay) : ExactlyAt(hay, needle, Span(i, i + Len(needle))) =>
       \E m \in ToSet(found) : Overlap(Span(i, i + Len(needle)), m)

LEMMA ExactOccurrences ==
  ASSUME NEW hay, NEW needle, Len(hay) \in Nat, Len(needle) \in Nat \ {0}, needle # <<>>
  PROVE  ExactFound(FindAllOccurrences(hay, needle), hay, needle)
<1> DEFINE N == Len(hay)
           Body(before, i) == FoundNext(before, i, hay, needle)
           Is(f) == f = [i \in 0 .. N |-> IF i = 0 THEN <<>> ELSE Body(f[i - 1], i)]
           Before(s, i) == /\ s \in Seq(Spans) /\ OneByOne(s)
                           /\ \A m \in ToSet(s) : ExactlyAt(hay, needle, m) /\ m.start < i
           step == [p \in Seq(Spans) \X (1 .. N) |-> Body(p[1], p[2])]
           found == CHOOSE f : Is(f)
<1>1. FindAllOccurrences(hay, needle) = found[N]
  BY Zenon DEF FindAllOccurrences, FoundNext
<1>2. \A s \in Seq(Spans) : \A i \in 1 .. N : Body(s, i) \in Seq(Spans)
  <2> SUFFICES ASSUME NEW s \in Seq(Spans), NEW i \in 1 .. N PROVE Body(s, i) \in Seq(Spans)
    OBVIOUS
  <2> DEFINE sp == Span(i, i + Len(needle))
  <2>1. sp \in Spans
    BY DEF Span, Spans
  <2>2. Append(s, sp) \in Seq(Spans)
    BY <2>1, AppendElements
  <2>3. Body(s, i) = Append(s, sp) \/ Body(s, i) = s
    BY Zenon DEF FoundNext
  <2> QED
    BY <2>2, <2>3, Zenon
<1>3. N \in Nat /\ <<>> \in Seq(Spans)
  OBVIOUS
<1> HIDE DEF Body
<1>4. Is(found)
  <2>1. step \in [Seq(Spans) \X (1 .. N) -> Seq(Spans)]
    BY <1>2
  <2> DEFINE base == <<>>
             X == Seq(Spans)
  <2>2. base \in X /\ step \in [X \X (1 .. N) -> X]
    BY <2>1
  <2> HIDE DEF step, N, base, X
  <2>3. \E g : Recursive(g, base, step, N) /\ \A i \in 0 .. N : g[i] \in X
    BY <1>3, <2>2, RecursionExists, Zenon
  <2>4. PICK g : /\ g = [i \in 0 .. N |-> IF i = 0 THEN <<>> ELSE step[<<g[i - 1], i>>]]
                 /\ \A i \in 0 .. N : g[i] \in X
    BY <2>3, Zenon DEF Recursive, base
  <2>5. \A i \in 1 .. N : g[i - 1] \in X
    BY <1>3, <2>4
  <2>6. \A i \in 1 .. N : step[<<g[i - 1], i>>] = Body(g[i - 1], i)
    BY <2>5 DEF step, X
  <2>7. \A i \in 0 .. N : (IF i = 0 THEN <<>> ELSE step[<<g[i - 1], i>>])
                           = (IF i = 0 THEN <<>> ELSE Body(g[i - 1], i))
    BY <1>3, <2>6
  <2>8. [i \in 0 .. N |-> IF i = 0 THEN <<>> ELSE step[<<g[i - 1], i>>]]
          = [i \in 0 .. N |-> IF i = 0 THEN <<>> ELSE Body(g[i - 1], i)]
    BY <2>7, Zenon
  <2>9. Is(g)
    BY <2>4, <2>8, Zenon
  <2> QED
    BY <2>9, Zenon
<1> HIDE DEF found, step
<1>5. found = [i \in 0 .. N |-> IF i = 0 THEN <<>> ELSE Body(found[i - 1], i)]
  BY <1>4, Zenon
<1>6. found[0] = <<>> /\ \A i \in 1 .. N : found[i] = Body(found[i - 1], i)
  BY <1>3, <1>5
<1> DEFINE Passed(s, i) ==
             \A p \in 1 .. i : ExactlyAt(hay, needle, Span(p, p + Len(needle))) =>
               \E m \in ToSet(s) : Overlap(Span(p, p + Len(needle)), m)
           T == {i \in 0 .. N : Before(found[i], i + 1) /\ Passed(found[i], i)}
<1>7. 0 \in T
  <2>1. <<>> \in Seq(Spans) /\ OneByOne(<<>>) /\ ToSet(<<>>) = {}
    BY DEF OneByOne, ToSet
  <2>2. 0 \in 0 .. N /\ 1 .. 0 = {}
    BY <1>3
  <2>3. Before(<<>>, 0 + 1) /\ Passed(<<>>, 0)
    BY <2>1, <2>2, Zenon
  <2> QED
    BY <1>6, <2>2, <2>3, Zenon
<1>8. ASSUME NEW i \in 1 .. N, i - 1 \in T PROVE i \in T
  <2> DEFINE s == found[i - 1]
             t == found[i]
  <2>1. (i - 1) + 1 = i /\ i \in 0 .. N /\ 1 .. i = (1 .. i - 1) \cup {i}
    OBVIOUS
  <2>2. Before(s, i) /\ Passed(s, i - 1)
    BY <1>8, <2>1
  <2>3. t = FoundNext(s, i, hay, needle)
    BY <1>6 DEF Body
  <2> HIDE DEF s, t
  <2>4. /\ t \in Seq(Spans) /\ OneByOne(t) /\ ToSet(s) \subseteq ToSet(t)
        /\ \A m \in ToSet(t) : ExactlyAt(hay, needle, m) /\ m.start < i + 1
        /\ ExactlyAt(hay, needle, Span(i, i + Len(needle))) =>
             \E m \in ToSet(t) : Overlap(Span(i, i + Len(needle)), m)
    BY <2>2, <2>3, FoundMore
  <2>5. Passed(t, i)
    BY <2>1, <2>2, <2>4
  <2> QED
    BY <2>1, <2>4, <2>5 DEF t
<1> HIDE DEF T
<1>9. \A i \in 0 .. N : i \in T
  BY <1>3, <1>7, <1>8, UpTo
<1>10. Before(found[N], N + 1) /\ Passed(found[N], N)
  BY <1>3, <1>9 DEF T
<1> QED
  BY <1>1, <1>10 DEF ExactFound

-----------------------------------------------------------------------------
(* What a window says                                                      *)

\* SaidAt, and the words that go on where the claim ends, of any text.
Said(hay, needle, threshold, sp) ==
  LET said == ToLower(Window(hay, sp))
      claim == ToLower(needle)
  IN /\ HasWordBoundaries(hay, sp, needle)
     /\ Numbers(claim) # {} => Numbers(said) = Numbers(claim)
     /\ WithinEdits(said, claim, threshold)

Grown(hay, needle, sp) ==
  /\ sp.end - sp.start > Len(needle) /\ WordAt(needle, Len(needle))
  /\ WordAt(hay, sp.start + Len(needle))

IsDistance(d, said, claim, threshold) ==
  /\ d \in Nat /\ \A edits \in Nat : WithinEdits(said, claim, edits) <=> d <= edits
  /\ Levenshtein(said, claim, threshold) <= threshold <=> d <= threshold
  /\ d >= Len(said) - Len(claim) /\ d >= Len(claim) - Len(said)
  /\ d = 0 <=> said = claim

LEMMA WindowDistance ==
  ASSUME NEW S, NEW hay \in Seq(S), NEW needle \in Seq(S), needle # <<>>, NEW threshold \in Nat,
         NEW a \in 1 .. Len(hay), NEW e \in 1 .. Len(hay) + 1, a < e
  PROVE  LET said == ToLower(Window(hay, Span(a, e)))
             claim == ToLower(needle)
         IN /\ said = Window(ToLower(hay), Span(a, e))
            /\ said \in Seq(InSmall(S)) /\ claim \in Seq(InSmall(S))
            /\ Len(said) = e - a /\ Len(claim) = Len(needle) /\ Len(needle) \in Nat \ {0}
            /\ \E d : IsDistance(d, said, claim, threshold)
<1> DEFINE w == Window(hay, Span(a, e))
           said == ToLower(w)
           claim == ToLower(needle)
           n == Len(needle)
<1>1. w \in Seq(S) /\ Len(w) = e - a
  BY WindowIs
<1>2. /\ said \in Seq(InSmall(S)) /\ Len(said) = e - a
      /\ claim \in Seq(InSmall(S)) /\ Len(claim) = n
  BY <1>1, LowerIs
<1>3. n \in Nat \ {0}
  BY EmptySeq
<1>4. said = Window(ToLower(hay), Span(a, e))
  BY LowerWindow
<1>5. e - a \in Nat \ {0}
  BY LenProperties
<1> DEFINE L == InSmall(S)
           D == Rows(said, claim)
           m == Len(said)
<1> HIDE DEF w, said, claim, n, L, D
<1>6. /\ m \in Nat \ {0} /\ Len(claim) \in Nat \ {0} /\ m = e - a
      /\ DOMAIN claim = 1 .. Len(claim) /\ said # <<>> /\ claim # <<>>
  <2>1. said \in Seq(L) /\ claim \in Seq(L)
    BY <1>2 DEF L
  <2>2. m \in Nat \ {0} /\ Len(claim) \in Nat \ {0} /\ m = e - a
    BY <1>2, <1>3, <1>5
  <2>3. DOMAIN claim = 1 .. Len(claim)
    BY <2>1, LenProperties
  <2> QED
    BY <2>1, <2>2, <2>3
<1>7. m \in Nat /\ Len(claim) \in Nat
  BY <1>6
<1>8. IsTable(D, said, claim)
  BY <1>7, RowsAreTable, Zenon DEF D
<1> DEFINE d == D[m][Len(claim)]
<1>9. m \in 0 .. m /\ Len(claim) \in 0 .. Len(claim)
  BY <1>7
<1>10. d \in Nat /\ d >= m - Len(claim) /\ d >= Len(claim) - m
  BY <1>7, <1>8, <1>9, TableBound, Zenon
<1>11. \A edits \in Nat : WithinEdits(said, claim, edits) <=> d <= edits
  BY <1>6, <1>7, <1>8, WithinIsDistance, Zenon
<1>12. Levenshtein(said, claim, threshold) <= threshold <=> d <= threshold
  BY <1>6, <1>8, LevenshteinFinds, Zenon
<1>13. d = 0 <=> m = Len(claim) /\ \A k \in 1 .. m : said[k] = claim[k]
  <2>1. \A i \in 0 .. m : \A j \in 0 .. Len(claim) :
          D[i][j] = 0 <=> i = j /\ \A k \in 1 .. i : said[k] = claim[k]
    BY <1>7, <1>8, TableZero
  <2> QED
    BY <1>9, <2>1, Zenon
<1>14. d = 0 <=> said = claim
  <2>1. said \in Seq(L) /\ claim \in Seq(L)
    BY <1>2 DEF L
  <2> HIDE DEF d
  <2>2. m = Len(claim) /\ (\A k \in 1 .. m : said[k] = claim[k]) => said = claim
    BY <2>1, SeqEqual
  <2> QED
    BY <1>13, <2>2
<1>15. IsDistance(d, said, claim, threshold)
  BY <1>10, <1>11, <1>12, <1>14, Zenon DEF IsDistance
<1> QED
  BY <1>2, <1>3, <1>4, <1>15, Zenon DEF w, said, claim, n

\* Said as the claim is: by so many edits, of so many characters.
LEMMA WindowSays ==
  ASSUME NEW S, NEW hay \in Seq(S), NEW needle \in Seq(S), needle # <<>>, NEW threshold \in Nat,
         NEW a \in 1 .. Len(hay), NEW e \in 1 .. Len(hay) + 1, a < e
  PROVE  LET sp == Span(a, e)
             n == Len(needle)
         IN /\ Said(hay, needle, threshold, sp) /\ ~ Grown(hay, needle, sp) <=>
                 Accepts(hay, needle, threshold, sp) /\ ~ (WordAt(needle, 1) /\ WordAt(hay, a - 1))
            /\ Said(hay, needle, threshold, sp) =>
                 e - a >= MinSize(needle, threshold) /\ e - a <= n + threshold
            /\ ExactlyAt(hay, needle, sp) => Said(hay, needle, threshold, sp)
            /\ threshold = 0 /\ Said(hay, needle, threshold, sp) => ExactlyAt(hay, needle, sp)
<1> DEFINE sp == Span(a, e)
           n == Len(needle)
           said == ToLower(Window(hay, sp))
           window == Window(ToLower(hay), sp)
           claim == ToLower(needle)
           Edges == HasWordBoundaries(hay, sp, needle)
           Same == Numbers(claim) # {} => Numbers(said) = Numbers(claim)
           Close == WithinEdits(said, claim, threshold)
<1>1. /\ said = window /\ said \in Seq(InSmall(S)) /\ claim \in Seq(InSmall(S))
      /\ Len(said) = e - a /\ Len(claim) = n /\ n \in Nat \ {0}
  BY WindowDistance
<1>20. \E d : IsDistance(d, said, claim, threshold)
  BY WindowDistance, Zenon
<1>2. PICK d \in Nat :
        /\ \A edits \in Nat : WithinEdits(said, claim, edits) <=> d <= edits
        /\ Levenshtein(said, claim, threshold) <= threshold <=> d <= threshold
        /\ d >= (e - a) - n /\ d >= n - (e - a)
        /\ d = 0 <=> said = claim
  <2> HIDE DEF said, claim, n
  <2> QED
    BY <1>1, <1>20, Zenon DEF IsDistance
<1>3. Same <=> ~ ContainsNumericChange(window, claim)
  BY <1>1, NumbersCompared, Zenon
<1>4. Close <=> Levenshtein(window, claim, threshold) <= threshold
  BY <1>1, <1>2, Zenon
<1>5. sp.start = a /\ sp.end = e /\ sp \in Spans
  BY LenProperties DEF Span, Spans
<1>6. Said(hay, needle, threshold, sp) <=> Edges /\ Same /\ Close
  BY Zenon DEF Said
<1>7. Accepts(hay, needle, threshold, sp) <=>
        /\ WordAt(needle, n) => ~ WordAt(hay, sp.end)
        /\ (sp.end - sp.start > n /\ WordAt(needle, n)) => ~ WordAt(hay, sp.start + n)
        /\ Levenshtein(window, claim, threshold) <= threshold
        /\ ~ ContainsNumericChange(window, claim)
  BY Zenon DEF Accepts
<1>8. Edges <=> /\ WordAt(needle, 1) => ~ WordAt(hay, sp.start - 1)
                /\ WordAt(needle, n) => ~ WordAt(hay, sp.end)
  BY Zenon DEF HasWordBoundaries
<1>9. Grown(hay, needle, sp) <=>
        sp.end - sp.start > n /\ WordAt(needle, n) /\ WordAt(hay, sp.start + n)
  BY Zenon DEF Grown
<1>10. Close <=> d <= threshold
  BY <1>2
<1> HIDE DEF sp, n, said, claim, window, Edges, Same, Close
<1>11. Said(hay, needle, threshold, sp) /\ ~ Grown(hay, needle, sp) <=>
         Accepts(hay, needle, threshold, sp) /\ ~ (WordAt(needle, 1) /\ WordAt(hay, a - 1))
  BY <1>3, <1>4, <1>5, <1>6, <1>7, <1>8, <1>9, Zenon
<1>12. Close => e - a >= MinSize(needle, threshold) /\ e - a <= n + threshold
  <2>1. a \in Nat /\ e \in Nat
    BY LenProperties
  <2>2. MinSize(needle, threshold) = IF n > threshold THEN n - threshold ELSE 1
    BY DEF MinSize, n
  <2> QED
    BY <1>1, <1>2, <1>10, <2>1, <2>2
<1>13. ExactlyAt(hay, needle, sp) => Edges /\ Same /\ Close
  <2> SUFFICES ASSUME ExactlyAt(hay, needle, sp) PROVE Edges /\ Same /\ Close
    OBVIOUS
  <2>1. Edges /\ window = claim
    BY DEF ExactlyAt, Edges, window, claim
  <2>2. d <= threshold
    BY <1>1, <1>2, <2>1
  <2> QED
    BY <1>1, <1>10, <2>1, <2>2, Zenon DEF Same
<1>14. ASSUME threshold = 0, Edges, Close PROVE ExactlyAt(hay, needle, sp)
  <2>1. d = 0
    BY <1>10, <1>14
  <2>2. said = claim
    BY <1>2, <2>1
  <2>3. Len(claim) = n
    BY LowerIs DEF claim, n
  <2>4. e = a + n /\ e <= Len(hay) + 1
    <3>1. a \in Nat /\ e \in Nat /\ Len(hay) \in Nat
      BY LenProperties
    <3> QED
      BY <1>1, <2>2, <2>3, <3>1
  <2> QED
    BY <1>1, <1>5, <1>14, <2>2, <2>4 DEF ExactlyAt, Edges, window, claim, n
<1> QED
  BY <1>6, <1>11, <1>12, <1>13, <1>14, Zenon DEF sp, n

-----------------------------------------------------------------------------
(* The window search                                                       *)

Clear(sp, exact) == \A c \in ToSet(exact) : ~ Overlap(sp, c)

\* A window that the scan takes at i.
TakenAt(w, i, hay, needle, threshold, exact) ==
  /\ w \in Nat \ {0} /\ i + w <= Len(hay) + 1 /\ Clear(Span(i, i + w), exact)
  /\ Accepts(hay, needle, threshold, Span(i, i + w))

LEMMA FitsAre ==
  ASSUME NEW hay, NEW needle, Len(hay) \in Nat, Len(needle) \in Nat, NEW threshold \in Nat,
         NEW exact, NEW i \in 1 .. Len(hay)
  PROVE  /\ MinSize(needle, threshold) \in Nat \ {0}
         /\ \A w \in Fits(hay, needle, threshold, exact, i) :
              TakenAt(w, i, hay, needle, threshold, exact)
         /\ \A w \in Nat :
              TakenAt(w, i, hay, needle, threshold, exact)
                /\ w >= MinSize(needle, threshold) /\ w <= Len(needle) + threshold
              => w \in Fits(hay, needle, threshold, exact, i)
<1> DEFINE lo == MinSize(needle, threshold)
           hi == Least(Len(needle) + threshold, Len(hay) - i + 1)
           Free(w) == \A k \in DOMAIN exact : ~ Overlap(Span(i, i + w), exact[k])
           Ok(w) == Accepts(hay, needle, threshold, Span(i, i + w))
<1>1. lo \in Nat \ {0}
  BY DEF MinSize
<1>2. \A w : Free(w) <=> Clear(Span(i, i + w), exact)
  BY DEF Clear, ToSet
<1>3. Fits(hay, needle, threshold, exact, i) = {w \in lo .. hi : Free(w) /\ Ok(w)}
  BY Zenon DEF Fits
<1>4. /\ hi \in Int /\ hi <= Len(hay) - i + 1
      /\ \A w \in Nat : w <= Len(needle) + threshold /\ i + w <= Len(hay) + 1 => w <= hi
  BY DEF Least
<1> HIDE DEF lo, hi, Free
<1>5. ASSUME NEW w \in Fits(hay, needle, threshold, exact, i)
      PROVE  TakenAt(w, i, hay, needle, threshold, exact)
  <2>1. w \in lo .. hi /\ Free(w) /\ Ok(w)
    BY <1>3
  <2>2. w \in Nat \ {0} /\ i + w <= Len(hay) + 1
    BY <1>1, <1>4, <2>1
  <2> QED
    BY <1>2, <2>1, <2>2, Zenon DEF TakenAt
<1>6. ASSUME NEW w \in Nat, TakenAt(w, i, hay, needle, threshold, exact),
             w >= lo, w <= Len(needle) + threshold
      PROVE  w \in Fits(hay, needle, threshold, exact, i)
  <2>1. w \in lo .. hi
    BY <1>1, <1>4, <1>6 DEF TakenAt
  <2>2. Free(w) /\ Ok(w)
    BY <1>2, <1>6, Zenon DEF TakenAt
  <2> QED
    BY <1>3, <2>1, <2>2
<1> QED
  BY <1>1, <1>5, <1>6, Zenon DEF lo

\* The size nearest to the claim's is one of them.
LEMMA NearestFits ==
  ASSUME NEW n \in Nat, NEW fits \in SUBSET Nat, fits # {}
  PROVE  (CHOOSE w \in fits : \A v \in fits : SizeOrder(n, w) <= SizeOrder(n, v)) \in fits
<1> DEFINE T == {SizeOrder(n, w) : w \in fits}
<1>1. \A w \in Nat : SizeOrder(n, w) \in Nat
  BY DEF SizeOrder
<1>2. T \in SUBSET Nat /\ T # {}
  BY <1>1
<1> HIDE DEF T
<1>3. PICK g \in T : \A k \in T : g <= k
  BY <1>2, LeastNatural
<1>4. \E w \in fits : \A v \in fits : SizeOrder(n, w) <= SizeOrder(n, v)
  BY <1>3 DEF T
<1> QED
  BY <1>4, Zenon

\* What the scan does at i.
StaysAt(st, next, i, hay, needle, threshold, exact) ==
  /\ next = st
  /\ \/ i < st.at
     \/ i + MinSize(needle, threshold) > Len(hay) + 1
     \/ WordAt(needle, 1) /\ WordAt(hay, i - 1)
     \/ Fits(hay, needle, threshold, exact, i) = {}

SkipsAt(st, next, i, needle, threshold, exact, c) ==
  /\ c \in ToSet(exact) /\ Overlap(Span(i, i + MinSize(needle, threshold)), c)
  /\ i >= st.at /\ next = [st EXCEPT !.at = c.end]

FindsAt(st, next, i, hay, needle, threshold, exact, w) ==
  /\ w \in Fits(hay, needle, threshold, exact, i) /\ i >= st.at
  /\ ~ (WordAt(needle, 1) /\ WordAt(hay, i - 1))
  /\ next = [at |-> i + w, found |-> Append(st.found, Span(i, i + w))]

ScanState == [at : Nat, found : Seq(Spans)]

LEMMA ScanSteps ==
  ASSUME NEW hay, NEW needle, Len(hay) \in Nat, Len(needle) \in Nat, NEW threshold \in Nat,
         NEW exact \in Seq(Spans), NEW st \in ScanState, NEW i \in 1 .. Len(hay)
  PROVE  LET next == ScanAt(hay, needle, threshold, exact, st, i)
         IN /\ next \in ScanState
            /\ \/ StaysAt(st, next, i, hay, needle, threshold, exact)
               \/ \E c : SkipsAt(st, next, i, needle, threshold, exact, c)
               \/ \E w : FindsAt(st, next, i, hay, needle, threshold, exact, w)
<1> DEFINE next == ScanAt(hay, needle, threshold, exact, st, i)
           minW == MinSize(needle, threshold)
           inside == {k \in DOMAIN exact : Overlap(Span(i, i + minW), exact[k])}
           fits == Fits(hay, needle, threshold, exact, i)
           size == CHOOSE w \in fits : \A v \in fits : SizeOrder(Len(needle), w) <= SizeOrder(Len(needle), v)
           c == exact[Min(inside)]
           MidWord == WordAt(needle, 1) /\ WordAt(hay, i - 1)
<1>1. next = IF i < st.at \/ i + minW > Len(hay) + 1 THEN st
             ELSE IF inside # {} THEN [st EXCEPT !.at = c.end]
             ELSE IF MidWord \/ fits = {} THEN st
             ELSE [at |-> i + size, found |-> Append(st.found, Span(i, i + size))]
  BY Zenon DEF ScanAt
<1>2. st.at \in Nat /\ st.found \in Seq(Spans) /\ i \in Nat /\ (i >= st.at <=> ~ (i < st.at))
  BY DEF ScanState
<1>3. ASSUME inside # {} PROVE c \in ToSet(exact) /\ Overlap(Span(i, i + minW), c) /\ c.end \in Nat
  <2>1. Len(exact) \in Nat /\ DOMAIN exact = 1 .. Len(exact)
    BY LenProperties
  <2>2. inside \in SUBSET Nat
    BY <2>1
  <2> HIDE DEF inside
  <2>3. Min(inside) \in inside
    BY <1>3, <2>2, LeastPlace
  <2>4. Min(inside) \in DOMAIN exact /\ Overlap(Span(i, i + minW), exact[Min(inside)])
    BY <2>3 DEF inside
  <2>5. exact[Min(inside)] \in Spans
    BY <2>1, <2>4, ElementOfSeq
  <2>6. exact[Min(inside)] \in ToSet(exact)
    BY <2>4 DEF ToSet
  <2> QED
    BY <2>4, <2>5, <2>6 DEF Spans
<1>4. ASSUME fits # {} PROVE size \in fits /\ size \in Nat
  <2>1. fits \in SUBSET Nat
    BY FitsAre DEF TakenAt
  <2> HIDE DEF fits
  <2> QED
    BY <1>4, <2>1, NearestFits
<1> HIDE DEF next, minW, inside, fits, size, c, MidWord
<1>5. CASE i < st.at \/ i + minW > Len(hay) + 1
  <2>1. next = st
    BY <1>1, <1>5, Zenon
  <2>2. StaysAt(st, next, i, hay, needle, threshold, exact)
    BY <1>5, <2>1, Zenon DEF StaysAt, minW
  <2> QED
    BY <2>1, <2>2, Zenon DEF next
<1>6. CASE ~ (i < st.at \/ i + minW > Len(hay) + 1) /\ inside # {}
  <2>1. next = [st EXCEPT !.at = c.end]
    BY <1>1, <1>6, Zenon
  <2>2. next \in ScanState
    BY <1>3, <1>6, <2>1 DEF ScanState
  <2>3. SkipsAt(st, next, i, needle, threshold, exact, c)
    BY <1>2, <1>3, <1>6, <2>1, Zenon DEF SkipsAt, minW
  <2> QED
    BY <2>2, <2>3, Zenon DEF next
<1>7. CASE ~ (i < st.at \/ i + minW > Len(hay) + 1) /\ inside = {} /\ (MidWord \/ fits = {})
  <2>1. next = st
    BY <1>1, <1>7, Zenon
  <2>2. StaysAt(st, next, i, hay, needle, threshold, exact)
    BY <1>7, <2>1, Zenon DEF StaysAt, MidWord, fits
  <2> QED
    BY <2>1, <2>2, Zenon DEF next
<1>8. CASE ~ (i < st.at \/ i + minW > Len(hay) + 1) /\ inside = {} /\ ~ (MidWord \/ fits = {})
  <2>1. next = [at |-> i + size, found |-> Append(st.found, Span(i, i + size))]
    BY <1>1, <1>8, Zenon
  <2>2. size \in Nat /\ size \in fits
    BY <1>4, <1>8, Zenon
  <2>3. Span(i, i + size) \in Spans
    BY <1>2, <2>2 DEF Span, Spans
  <2>4. Append(st.found, Span(i, i + size)) \in Seq(Spans)
    BY <1>2, <2>3, AppendElements
  <2>5. next \in ScanState
    BY <1>2, <2>1, <2>2, <2>4 DEF ScanState
  <2>6. FindsAt(st, next, i, hay, needle, threshold, exact, size)
    BY <1>2, <1>8, <2>1, <2>2, Zenon DEF FindsAt, MidWord, fits
  <2> QED
    BY <2>5, <2>6, Zenon DEF next
<1> QED
  BY <1>5, <1>6, <1>7, <1>8, Zenon

\* A span that says the claim, clear of the exact ones.
IsFuzzy(m, hay, needle, threshold, exact) ==
  /\ m.start \in 1 .. Len(hay) /\ m.end \in 1 .. Len(hay) + 1 /\ m.start < m.end
  /\ Said(hay, needle, threshold, m) /\ Clear(m, exact)

Caught(sp, exact, found) == \E c \in ToSet(exact) \cup ToSet(found) : Overlap(sp, c)

\* Whatever says the claim from p is caught.
CaughtAt(p, hay, needle, threshold, exact, found) ==
  \A e \in 1 .. Len(hay) + 1 :
    p < e /\ Said(hay, needle, threshold, Span(p, e)) /\ ~ Grown(hay, needle, Span(p, e))
    => Caught(Span(p, e), exact, found)

\* The scan when it has come past place i.  It goes on at the end of a span
\* that a window from any place it skips must meet.
Met(st, i, needle, threshold, exact) ==
  \E c \in ToSet(exact) \cup ToSet(st.found) :
    c.end = st.at /\ c.start < i + MinSize(needle, threshold)

Scanning(st, i, hay, needle, threshold, exact) ==
  /\ st \in ScanState /\ OneByOne(st.found)
  /\ \A m \in ToSet(st.found) : IsFuzzy(m, hay, needle, threshold, exact) /\ m.end <= st.at
  /\ st.at = 1 \/ Met(st, i, needle, threshold, exact)
  /\ \A p \in 1 .. i : CaughtAt(p, hay, needle, threshold, exact, st.found)

LEMMA ScanKeeps ==
  ASSUME NEW S, NEW hay \in Seq(S), NEW needle \in Seq(S), needle # <<>>, NEW threshold \in Nat,
         NEW exact \in Seq(Spans), NEW st, NEW i \in 1 .. Len(hay),
         Scanning(st, i - 1, hay, needle, threshold, exact)
  PROVE  Scanning(ScanAt(hay, needle, threshold, exact, st, i), i, hay, needle, threshold, exact)
<1> DEFINE N == Len(hay)
           n == Len(needle)
           minW == MinSize(needle, threshold)
           next == ScanAt(hay, needle, threshold, exact, st, i)
           fits == Fits(hay, needle, threshold, exact, i)
<1>1. N \in Nat /\ n \in Nat /\ i \in Nat \ {0} /\ i <= N
  BY LenProperties
<1>2. /\ minW \in Nat \ {0}
      /\ \A w \in fits : TakenAt(w, i, hay, needle, threshold, exact)
      /\ \A w \in Nat : TakenAt(w, i, hay, needle, threshold, exact) /\ w >= minW /\ w <= n + threshold
           => w \in fits
  <2>1. Len(hay) \in Nat /\ Len(needle) \in Nat
    BY <1>1
  <2> QED
    BY <2>1, FitsAre, Zenon
<1>3. st \in ScanState /\ st.at \in Nat /\ st.found \in Seq(Spans)
  BY DEF Scanning, ScanState
<1>4. /\ next \in ScanState
      /\ \/ StaysAt(st, next, i, hay, needle, threshold, exact)
         \/ \E c : SkipsAt(st, next, i, needle, threshold, exact, c)
         \/ \E w : FindsAt(st, next, i, hay, needle, threshold, exact, w)
  <2>1. Len(hay) \in Nat /\ Len(needle) \in Nat
    BY <1>1
  <2> QED
    BY <1>3, <2>1, ScanSteps, Zenon
<1>5. /\ OneByOne(st.found)
      /\ \A m \in ToSet(st.found) : IsFuzzy(m, hay, needle, threshold, exact) /\ m.end <= st.at
      /\ st.at = 1 \/ Met(st, i - 1, needle, threshold, exact)
      /\ \A p \in 1 .. i - 1 : CaughtAt(p, hay, needle, threshold, exact, st.found)
  BY Zenon DEF Scanning
<1>6. \A c \in ToSet(exact) \cup ToSet(st.found) : c \in Spans
  <2>1. \A s \in Seq(Spans) : \A c \in ToSet(s) : c \in Spans
    BY DEF ToSet
  <2> QED
    BY <1>3, <2>1
<1>7. Met(st, i - 1, needle, threshold, exact) => Met(st, i, needle, threshold, exact)
  <2> SUFFICES ASSUME NEW c \in ToSet(exact) \cup ToSet(st.found),
                      c.end = st.at, c.start < (i - 1) + minW
               PROVE  c.start < i + minW
    BY DEF Met
  <2>1. c.start \in Nat
    BY <1>6 DEF Spans
  <2> HIDE DEF minW
  <2> QED
    BY <1>1, <1>2, <2>1
\* What says the claim from i, in how many characters.
<1>8. ASSUME NEW e \in 1 .. N + 1, i < e, Said(hay, needle, threshold, Span(i, e)),
             ~ Grown(hay, needle, Span(i, e))
      PROVE  /\ e - i \in Nat \ {0} /\ i + (e - i) = e /\ e - i >= minW /\ e - i <= n + threshold
             /\ ~ (WordAt(needle, 1) /\ WordAt(hay, i - 1))
             /\ Accepts(hay, needle, threshold, Span(i, e))
  <2>1. e - i \in Nat \ {0} /\ i + (e - i) = e
    BY <1>1, <1>8
  <2>2. e - i >= minW /\ e - i <= n + threshold
    BY <1>8, WindowSays, Zenon
  <2>3. /\ Accepts(hay, needle, threshold, Span(i, e))
        /\ ~ (WordAt(needle, 1) /\ WordAt(hay, i - 1))
    BY <1>8, WindowSays, Zenon
  <2> QED
    BY <2>1, <2>2, <2>3
<1> HIDE DEF minW, next, fits, N, n
<1>9. \A e \in 1 .. N + 1 : i < e => /\ Span(i, e).start = i /\ Span(i, e).end = e
                                     /\ Span(i, e) \in Spans
  BY <1>1 DEF Span, Spans
<1>10. CASE StaysAt(st, next, i, hay, needle, threshold, exact)
  <2>1. next = st
    BY <1>10, Zenon DEF StaysAt
  <2>2. \/ i < st.at
        \/ i + minW > N + 1
        \/ WordAt(needle, 1) /\ WordAt(hay, i - 1)
        \/ fits = {}
    BY <1>10, Zenon DEF StaysAt, minW, N, fits
  <2>3. CaughtAt(i, hay, needle, threshold, exact, st.found)
    <3> SUFFICES ASSUME NEW e \in 1 .. N + 1, i < e, Said(hay, needle, threshold, Span(i, e)),
                        ~ Grown(hay, needle, Span(i, e))
                 PROVE  Caught(Span(i, e), exact, st.found)
      BY DEF CaughtAt, N
    <3>1. /\ e - i \in Nat \ {0} /\ i + (e - i) = e /\ e - i >= minW /\ e - i <= n + threshold
          /\ ~ (WordAt(needle, 1) /\ WordAt(hay, i - 1))
          /\ Accepts(hay, needle, threshold, Span(i, e))
      BY <1>8
    <3>2. Span(i, e).start = i /\ Span(i, e).end = e /\ e <= N + 1 /\ e \in Nat
      BY <1>1, <1>9
    <3>3. CASE i < st.at
      <4>1. st.at # 1
        BY <1>1, <1>3, <3>3
      <4>2. PICK c \in ToSet(exact) \cup ToSet(st.found) : c.end = st.at /\ c.start < (i - 1) + minW
        BY <1>5, <4>1, Zenon DEF Met, minW
      <4>3. c.start \in Nat
        BY <1>6 DEF Spans
      <4>4. c.start < e
        BY <1>1, <1>2, <3>1, <3>2, <4>2, <4>3
      <4>5. Overlap(Span(i, e), c)
        BY <3>2, <3>3, <4>2, <4>4 DEF Overlap
      <4> QED
        BY <4>5, Zenon DEF Caught
    <3>4. CASE i + minW > N + 1
      BY <1>1, <1>2, <3>1, <3>2, <3>4
    <3>5. CASE fits = {}
      <4>1. ~ TakenAt(e - i, i, hay, needle, threshold, exact)
        BY <1>2, <3>1, <3>5
      <4>2. ~ Clear(Span(i, e), exact)
        BY <3>1, <3>2, <4>1, Zenon DEF TakenAt, N
      <4> QED
        BY <4>2 DEF Clear, Caught
    <3> QED
      BY <2>2, <3>1, <3>3, <3>4, <3>5
  <2>4. \A p \in 1 .. i : p \in 1 .. i - 1 \/ p = i
    BY <1>1
  <2>5. \A p \in 1 .. i : CaughtAt(p, hay, needle, threshold, exact, st.found)
    BY <1>5, <2>3, <2>4, Zenon
  <2>6. st.at = 1 \/ Met(st, i, needle, threshold, exact)
    BY <1>5, <1>7, Zenon
  <2>7. Scanning(st, i, hay, needle, threshold, exact)
    BY <1>3, <1>5, <2>5, <2>6, Zenon DEF Scanning
  <2> QED
    BY <2>1, <2>7, Zenon DEF next
<1>11. ASSUME NEW c, SkipsAt(st, next, i, needle, threshold, exact, c)
       PROVE  Scanning(next, i, hay, needle, threshold, exact)
  <2>1. /\ c \in ToSet(exact) /\ Overlap(Span(i, i + minW), c) /\ i >= st.at
        /\ next = [st EXCEPT !.at = c.end]
    BY <1>11, Zenon DEF SkipsAt, minW
  <2>2. next.at = c.end /\ next.found = st.found
    BY <1>3, <2>1 DEF ScanState
  <2>3. c \in Spans /\ c.start \in Nat /\ c.end \in Nat
    BY <1>6, <2>1 DEF Spans
  <2>4. i < c.end /\ c.start < i + minW
    BY <1>1, <1>2, <2>1, <2>3 DEF Overlap, Span
  <2>5. Met(next, i, needle, threshold, exact)
    BY <2>1, <2>2, <2>4, Zenon DEF Met, minW
  <2>6. ASSUME NEW m \in ToSet(next.found)
        PROVE  IsFuzzy(m, hay, needle, threshold, exact) /\ m.end <= next.at
    <3>1. IsFuzzy(m, hay, needle, threshold, exact) /\ m.end <= st.at
      BY <1>5, <2>2, <2>6
    <3>2. m.end \in Nat
      BY <1>6, <2>2, <2>6 DEF Spans
    <3> QED
      BY <1>1, <1>3, <2>1, <2>2, <2>3, <2>4, <3>1, <3>2
  <2>7. CaughtAt(i, hay, needle, threshold, exact, st.found)
    <3> SUFFICES ASSUME NEW e \in 1 .. N + 1, i < e, Said(hay, needle, threshold, Span(i, e)),
                        ~ Grown(hay, needle, Span(i, e))
                 PROVE  Caught(Span(i, e), exact, st.found)
      BY DEF CaughtAt, N
    <3>1. e - i \in Nat /\ i + (e - i) = e /\ e - i >= minW
      BY <1>8
    <3>2. Span(i, e).start = i /\ Span(i, e).end = e /\ e \in Nat
      BY <1>1, <1>9
    <3>3. c.start < e
      BY <1>1, <1>2, <2>3, <2>4, <3>1, <3>2
    <3>4. Overlap(Span(i, e), c)
      BY <2>4, <3>2, <3>3 DEF Overlap
    <3> QED
      BY <2>1, <3>4 DEF Caught
  <2>8. \A p \in 1 .. i : p \in 1 .. i - 1 \/ p = i
    BY <1>1
  <2>9. \A p \in 1 .. i : CaughtAt(p, hay, needle, threshold, exact, next.found)
    BY <1>5, <2>2, <2>7, <2>8, Zenon
  <2>10. OneByOne(next.found)
    BY <1>5, <2>2
  <2> QED
    BY <1>4, <2>5, <2>6, <2>9, <2>10, Zenon DEF Scanning
<1>12. ASSUME NEW w, FindsAt(st, next, i, hay, needle, threshold, exact, w)
       PROVE  Scanning(next, i, hay, needle, threshold, exact)
  <2> DEFINE sp == Span(i, i + w)
             found == st.found
  <2>1. /\ w \in fits /\ i >= st.at /\ ~ (WordAt(needle, 1) /\ WordAt(hay, i - 1))
        /\ next = [at |-> i + w, found |-> Append(found, sp)]
    BY <1>12, Zenon DEF FindsAt, fits
  <2>2. next.at = i + w /\ next.found = Append(found, sp)
    BY <2>1
  <2>3. TakenAt(w, i, hay, needle, threshold, exact)
    BY <1>2, <2>1
  <2>4. /\ w \in Nat \ {0} /\ i + w <= N + 1 /\ Clear(sp, exact)
        /\ Accepts(hay, needle, threshold, sp)
    BY <2>3, Zenon DEF TakenAt, N
  <2>5. sp.start = i /\ sp.end = i + w /\ sp \in Spans
    BY <1>1, <2>4 DEF Span, Spans
  <2>6. Said(hay, needle, threshold, sp)
    <3> DEFINE e == i + w
    <3>1. e \in 1 .. Len(hay) + 1 /\ i < e
      BY <1>1, <2>4 DEF N
    <3> HIDE DEF e
    <3>2. sp = Span(i, e)
      BY Zenon DEF e
    <3> HIDE DEF sp
    <3>3. Said(hay, needle, threshold, Span(i, e))
      BY <2>1, <2>4, <3>1, <3>2, WindowSays, Zenon
    <3> QED
      BY <3>2, <3>3, Zenon
  <2>7. sp.start \in 1 .. Len(hay) /\ sp.end \in 1 .. Len(hay) + 1 /\ sp.start < sp.end
    BY <1>1, <2>4, <2>5 DEF N
  <2> HIDE DEF sp, found
  <2>8. IsFuzzy(sp, hay, needle, threshold, exact)
    BY <2>4, <2>6, <2>7, Zenon DEF IsFuzzy
  <2>9. /\ found \in Seq(Spans) /\ OneByOne(found)
        /\ \A m \in ToSet(found) : IsFuzzy(m, hay, needle, threshold, exact) /\ m.end <= st.at
        /\ \A m \in ToSet(found) : m.end \in Nat
    BY <1>3, <1>5, <1>6 DEF found, Spans
  <2>10. \A m \in ToSet(found) : m.end <= sp.start
    BY <1>1, <1>3, <2>1, <2>5, <2>9
  <2>11. ToSet(next.found) = ToSet(found) \cup {sp} /\ OneByOne(next.found)
    <3>1. found \in Seq(Spans) /\ sp \in Spans /\ OneByOne(found)
      BY <2>5, <2>9
    <3>2. ToSet(Append(found, sp)) = ToSet(found) \cup {sp}
      BY <3>1, AppendElements
    <3>3. OneByOne(Append(found, sp))
      BY <2>10, <3>1, OneByOneAppend
    <3> QED
      BY <2>2, <3>2, <3>3, Zenon
  <2>12. ASSUME NEW m \in ToSet(next.found)
         PROVE  IsFuzzy(m, hay, needle, threshold, exact) /\ m.end <= next.at
    <3>1. CASE m = sp
      BY <1>1, <2>2, <2>4, <2>5, <2>8, <3>1
    <3>2. CASE m \in ToSet(found)
      <4>1. m.end <= i /\ m.end \in Nat
        BY <2>5, <2>9, <2>10, <3>2
      <4> QED
        BY <1>1, <2>2, <2>4, <2>9, <3>2, <4>1
    <3> QED
      BY <2>11, <2>12, <3>1, <3>2
  <2>13. Met(next, i, needle, threshold, exact)
    <3>1. sp.start < i + minW
      BY <1>1, <1>2, <2>5
    <3> QED
      BY <2>2, <2>5, <2>11, <3>1 DEF Met, minW
  <2>14. ASSUME NEW p \in 1 .. i PROVE CaughtAt(p, hay, needle, threshold, exact, next.found)
    <3>1. CASE p = i
      <4> SUFFICES ASSUME NEW e \in 1 .. N + 1, i < e
                   PROVE  Caught(Span(i, e), exact, next.found)
        BY <3>1 DEF CaughtAt, N
      <4>1. Span(i, e).start = i /\ Span(i, e).end = e /\ e \in Nat
        BY <1>1, <1>9
      <4>2. Overlap(Span(i, e), sp)
        BY <1>1, <2>4, <2>5, <4>1 DEF Overlap
      <4> QED
        BY <2>11, <4>2 DEF Caught
    <3>2. CASE p # i
      <4>1. p \in 1 .. i - 1
        BY <1>1, <3>2
      <4>2. CaughtAt(p, hay, needle, threshold, exact, found)
        BY <1>5, <4>1 DEF found
      <4>3. \A q : Caught(q, exact, found) => Caught(q, exact, next.found)
        BY <2>11 DEF Caught
      <4> QED
        BY <4>2, <4>3, Zenon DEF CaughtAt
    <3> QED
      BY <3>1, <3>2
  <2> QED
    BY <1>4, <2>11, <2>12, <2>13, <2>14, Zenon DEF Scanning
<1> QED
  BY <1>4, <1>10, <1>11, <1>12, Zenon DEF next

LEMMA WindowsSearched ==
  ASSUME NEW S, NEW hay \in Seq(S), NEW needle \in Seq(S), needle # <<>>, NEW threshold \in Nat,
         NEW exact \in Seq(Spans)
  PROVE  \E st : /\ Scanning(st, Len(hay), hay, needle, threshold, exact)
                 /\ FuzzyMatches(hay, needle, threshold, exact) = st.found
<1> DEFINE N == Len(hay)
           base == [at |-> 1, found |-> <<>>]
           Body(st, i) == ScanAt(hay, needle, threshold, exact, st, i)
           Is(f) == f = [i \in 0 .. N |-> IF i = 0 THEN base ELSE Body(f[i - 1], i)]
           step == [p \in ScanState \X (1 .. N) |-> Body(p[1], p[2])]
           after == CHOOSE f : Is(f)
<1>1. N \in Nat /\ Len(needle) \in Nat
  BY LenProperties
<1>2. FuzzyMatches(hay, needle, threshold, exact) = after[N].found
  BY Zenon DEF FuzzyMatches
<1>3. ASSUME NEW st \in ScanState, NEW i \in 1 .. N PROVE Body(st, i) \in ScanState
  <2>1. Len(hay) \in Nat /\ i \in 1 .. Len(hay)
    BY <1>1
  <2> QED
    BY <1>1, <2>1, ScanSteps, Zenon
<1>4. base \in ScanState /\ base.at = 1 /\ base.found = <<>>
  BY DEF ScanState
<1>5. Scanning(base, 0, hay, needle, threshold, exact)
  <2>1. OneByOne(<<>>) /\ ToSet(<<>>) = {}
    BY DEF OneByOne, ToSet
  <2>2. 1 .. 0 = {}
    OBVIOUS
  <2> HIDE DEF base
  <2> QED
    BY <1>4, <2>1, <2>2 DEF Scanning
<1> HIDE DEF base, Body
<1>6. Is(after)
  <2>1. step \in [ScanState \X (1 .. N) -> ScanState]
    BY <1>3
  <2> HIDE DEF step, N
  <2>2. \E g : Recursive(g, base, step, N) /\ \A i \in 0 .. N : g[i] \in ScanState
    BY <1>1, <1>4, <2>1, RecursionExists, Zenon
  <2>3. PICK g : /\ g = [i \in 0 .. N |-> IF i = 0 THEN base ELSE step[<<g[i - 1], i>>]]
                 /\ \A i \in 0 .. N : g[i] \in ScanState
    BY <2>2, Zenon DEF Recursive
  <2>4. \A i \in 1 .. N : g[i - 1] \in ScanState
    BY <1>1, <2>3
  <2>5. \A i \in 1 .. N : step[<<g[i - 1], i>>] = Body(g[i - 1], i)
    BY <2>4 DEF step
  <2>6. \A i \in 0 .. N : (IF i = 0 THEN base ELSE step[<<g[i - 1], i>>])
                           = (IF i = 0 THEN base ELSE Body(g[i - 1], i))
    BY <1>1, <2>5
  <2>7. [i \in 0 .. N |-> IF i = 0 THEN base ELSE step[<<g[i - 1], i>>]]
          = [i \in 0 .. N |-> IF i = 0 THEN base ELSE Body(g[i - 1], i)]
    BY <2>6, Zenon
  <2>8. Is(g)
    BY <2>3, <2>7, Zenon
  <2> QED
    BY <2>8, Zenon
<1> HIDE DEF after, step, N
<1>7. after = [i \in 0 .. N |-> IF i = 0 THEN base ELSE Body(after[i - 1], i)]
  BY <1>6, Zenon
<1>8. after[0] = base /\ \A i \in 1 .. N : after[i] = Body(after[i - 1], i)
  BY <1>1, <1>7
<1> DEFINE T == {i \in 0 .. N : Scanning(after[i], i, hay, needle, threshold, exact)}
<1>9. 0 \in T
  BY <1>1, <1>5, <1>8
<1>10. ASSUME NEW i \in 1 .. N, i - 1 \in T PROVE i \in T
  <2>1. Scanning(after[i - 1], i - 1, hay, needle, threshold, exact) /\ i \in 1 .. Len(hay)
    BY <1>10 DEF N
  <2>2. Scanning(Body(after[i - 1], i), i, hay, needle, threshold, exact)
    BY <2>1, ScanKeeps, Zenon DEF Body
  <2>3. i \in 0 .. N
    BY <1>1
  <2> QED
    BY <1>8, <2>2, <2>3
<1> HIDE DEF T
<1>11. \A i \in 0 .. N : i \in T
  BY <1>1, <1>9, <1>10, UpTo
<1>12. Scanning(after[N], N, hay, needle, threshold, exact)
  BY <1>1, <1>11 DEF T
<1> QED
  BY <1>2, <1>12, Zenon DEF N

-----------------------------------------------------------------------------
(* Two lists in one                                                        *)

MergeNext(st, a, b) ==
  IF /\ st.i < Len(a)
     /\ st.j < Len(b) => a[st.i + 1].start <= b[st.j + 1].start
  THEN [st EXCEPT !.i = @ + 1, !.out = Append(@, a[st.i + 1])]
  ELSE [st EXCEPT !.j = @ + 1, !.out = Append(@, b[st.j + 1])]

MergeState == [i : Nat, j : Nat, out : Seq(Spans)]

\* All of list, before what is left of s.
Before(list, s, from) ==
  \A m \in ToSet(list) : \A x \in from + 1 .. Len(s) : m.end <= s[x].start

Merging(st, k, a, b) ==
  /\ st \in MergeState /\ st.i + st.j = k /\ st.i <= Len(a) /\ st.j <= Len(b)
  /\ OneByOne(st.out) /\ Before(st.out, a, st.i) /\ Before(st.out, b, st.j)
  /\ ToSet(st.out) = {a[x] : x \in 1 .. st.i} \cup {b[y] : y \in 1 .. st.j}

\* The next of one list, which no span of the other begins before.
LEMMA MergeTakes ==
  ASSUME NEW list \in Seq(Spans), NEW a \in Seq(Spans), NEW b \in Seq(Spans),
         NEW i \in Nat, NEW j \in Nat, i < Len(a), j <= Len(b),
         OneByOne(list), OneByOne(a), OneByOne(b), Before(list, a, i), Before(list, b, j),
         \A y \in 1 .. Len(b) : b[y].start < b[y].end /\ ~ Overlap(a[i + 1], b[y]),
         j < Len(b) => a[i + 1].start <= b[j + 1].start
  PROVE  LET more == Append(list, a[i + 1])
         IN /\ more \in Seq(Spans) /\ OneByOne(more) /\ ToSet(more) = ToSet(list) \cup {a[i + 1]}
            /\ Before(more, a, i + 1) /\ Before(more, b, j)
<1> DEFINE c == a[i + 1]
           more == Append(list, c)
<1>1. /\ Len(a) \in Nat /\ DOMAIN a = 1 .. Len(a) /\ \A x \in 1 .. Len(a) : a[x] \in Spans
      /\ Len(b) \in Nat /\ DOMAIN b = 1 .. Len(b) /\ \A y \in 1 .. Len(b) : b[y] \in Spans
  BY LenProperties
<1>2. i + 1 \in 1 .. Len(a) /\ c \in Spans
  BY <1>1
<1>3. \A m \in ToSet(list) : m.end <= c.start
  BY <1>2 DEF Before
<1>4. \A x \in i + 2 .. Len(a) : c.end <= a[x].start
  <2> SUFFICES ASSUME NEW x \in i + 2 .. Len(a) PROVE c.end <= a[x].start
    OBVIOUS
  <2>1. x \in 1 .. Len(a) /\ i + 1 < x
    BY <1>1
  <2> QED
    BY <1>1, <1>2, <2>1 DEF OneByOne
<1>5. \A y \in j + 1 .. Len(b) : c.end <= b[y].start
  <2> SUFFICES ASSUME NEW y \in j + 1 .. Len(b) PROVE c.end <= b[y].start
    OBVIOUS
  <2>1. y \in 1 .. Len(b) /\ j + 1 \in 1 .. Len(b) /\ j < Len(b)
    BY <1>1
  <2> DEFINE d == b[j + 1]
             e == b[y]
  <2>2. c.start <= d.start /\ d.start < d.end /\ e.start < e.end /\ ~ Overlap(c, e)
    BY <2>1
  <2>3. d \in Spans /\ e \in Spans
    BY <1>1, <2>1
  <2>6. y # j + 1 => d.end <= e.start
    <3> SUFFICES ASSUME y # j + 1 PROVE d.end <= e.start
      OBVIOUS
    <3>1. j + 1 < y
      BY <1>1
    <3> QED
      BY <1>1, <2>1, <3>1 DEF OneByOne
  <2>7. y = j + 1 => d = e
    OBVIOUS
  <2> HIDE DEF c, d, e
  <2>8. /\ c.start \in Nat /\ c.end \in Nat /\ d.start \in Nat /\ d.end \in Nat
        /\ e.start \in Nat /\ e.end \in Nat
    BY <1>2, <2>3 DEF Spans
  <2>4. d.start <= e.start
    BY <2>2, <2>6, <2>7, <2>8, SMTT(30)
  <2>5. c.end <= e.start
    <3>1. ~ (c.start < e.end /\ e.start < c.end)
      BY <2>2, Zenon DEF Overlap
    <3> DEFINE c1 == c.start
               c2 == c.end
               d1 == d.start
               e1 == e.start
               e2 == e.end
    <3>2. /\ ~ (c1 < e2 /\ e1 < c2) /\ c1 <= d1 /\ d1 <= e1 /\ e1 < e2
          /\ c1 \in Nat /\ c2 \in Nat /\ d1 \in Nat /\ e1 \in Nat /\ e2 \in Nat
      BY <2>2, <2>4, <2>8, <3>1, Zenon
    <3> HIDE DEF c1, c2, d1, e1, e2
    <3>3. c2 <= e1
      BY <3>2
    <3> QED
      BY <3>3, Zenon DEF c2, e1
  <2> QED
    BY <2>5 DEF e
<1> HIDE DEF c
<1>6. more \in Seq(Spans) /\ ToSet(more) = ToSet(list) \cup {c} /\ OneByOne(more)
  BY <1>2, <1>3, AppendElements, OneByOneAppend
<1> HIDE DEF more
<1>7. Before(more, a, i + 1)
  <2>1. (i + 1) + 1 .. Len(a) = i + 2 .. Len(a) /\ i + 2 .. Len(a) \subseteq i + 1 .. Len(a)
    BY <1>1
  <2> QED
    BY <1>4, <1>6, <2>1 DEF Before
<1>8. Before(more, b, j)
  BY <1>5, <1>6 DEF Before
<1> QED
  BY <1>6, <1>7, <1>8 DEF more, c

LEMMA MergeKeeps ==
  ASSUME NEW a \in Seq(Spans), NEW b \in Seq(Spans), OneByOne(a), OneByOne(b),
         \A x \in 1 .. Len(a) : a[x].start < a[x].end,
         \A y \in 1 .. Len(b) : b[y].start < b[y].end,
         \A x \in 1 .. Len(a) : \A y \in 1 .. Len(b) : ~ Overlap(a[x], b[y]),
         NEW k \in 1 .. Len(a) + Len(b), NEW st, Merging(st, k - 1, a, b)
  PROVE  Merging(MergeNext(st, a, b), k, a, b)
<1> DEFINE next == MergeNext(st, a, b)
           i == st.i
           j == st.j
           list == st.out
<1>1. /\ i \in Nat /\ j \in Nat /\ list \in Seq(Spans) /\ i + j = k - 1 /\ i <= Len(a) /\ j <= Len(b)
      /\ OneByOne(list) /\ Before(list, a, i) /\ Before(list, b, j)
      /\ ToSet(list) = {a[x] : x \in 1 .. i} \cup {b[y] : y \in 1 .. j}
      /\ st \in MergeState
  BY DEF Merging, MergeState
<1>2. Len(a) \in Nat /\ Len(b) \in Nat
  BY LenProperties
<1>7. i \in Nat /\ j \in Nat /\ i + j = k - 1 /\ i <= Len(a) /\ j <= Len(b) /\ k \in Nat
  BY <1>1, <1>2
<1>3. \A x, y \in Spans : Overlap(x, y) <=> Overlap(y, x)
  BY DEF Overlap
<1>4. (\A x \in 1 .. Len(a) : a[x] \in Spans) /\ (\A y \in 1 .. Len(b) : b[y] \in Spans)
  BY LenProperties
<1>5. CASE i < Len(a) /\ (j < Len(b) => a[i + 1].start <= b[j + 1].start)
  <2> DEFINE more == Append(list, a[i + 1])
  <2>1. next = [st EXCEPT !.i = i + 1, !.out = more]
    BY <1>5, Zenon DEF MergeNext
  <2> HIDE DEF i, j, list
  <2>2. i + 1 \in 1 .. Len(a) /\ 1 .. i + 1 = (1 .. i) \cup {i + 1}
    BY <1>1, <1>2, <1>5
  <2>3. \A y \in 1 .. Len(b) : b[y].start < b[y].end /\ ~ Overlap(a[i + 1], b[y])
    BY <2>2
  <2>4. /\ more \in Seq(Spans) /\ OneByOne(more) /\ ToSet(more) = ToSet(list) \cup {a[i + 1]}
        /\ Before(more, a, i + 1) /\ Before(more, b, j)
    BY <1>1, <1>5, <2>3, MergeTakes
  <2> HIDE DEF more
  <2>10. next = [i |-> i + 1, j |-> j, out |-> more]
    <3>1. st \in [i : Nat, j : Nat, out : Seq(Spans)]
      BY <1>1 DEF MergeState
    <3>2. next = [i |-> i + 1, j |-> st.j, out |-> more]
      BY <2>1, <3>1
    <3> QED
      BY <3>2, Zenon DEF i, j
  <2>11. i + 1 \in Nat
    BY <1>1
  <2>5. next.i = i + 1 /\ next.j = j /\ next.out = more /\ next \in MergeState
    <3> HIDE DEF next
    <3> QED
      BY <1>1, <2>4, <2>10, <2>11 DEF MergeState
  <2>6. next.i + next.j = k /\ next.i <= Len(a) /\ next.j <= Len(b)
    <3> HIDE DEF next
    <3>2. i < Len(a)
      BY <1>5, Zenon
    <3>1. (i + 1) + j = k /\ i + 1 <= Len(a) /\ j <= Len(b)
      <4> DEFINE la == Len(a)
                 lb == Len(b)
      <4>1. /\ i \in Nat /\ j \in Nat /\ k \in Nat /\ la \in Nat /\ lb \in Nat
            /\ i + j = k - 1 /\ j <= lb /\ i < la
        BY <1>2, <1>7, <3>2, Zenon
      <4> HIDE DEF la, lb
      <4>2. (i + 1) + j = k /\ i + 1 <= la /\ j <= lb
        BY <4>1
      <4> QED
        BY <4>2, Zenon DEF la, lb
    <3> QED
      BY <2>5, <3>1, Zenon
  <2>7. ToSet(more) = {a[x] : x \in 1 .. i + 1} \cup {b[y] : y \in 1 .. j}
    BY <1>1, <2>2, <2>4
  <2> QED
    BY <2>4, <2>5, <2>6, <2>7, Zenon DEF Merging, next
<1>6. CASE ~ (i < Len(a) /\ (j < Len(b) => a[i + 1].start <= b[j + 1].start))
  <2> DEFINE more == Append(list, b[j + 1])
  <2>1. next = [st EXCEPT !.j = j + 1, !.out = more]
    BY <1>6, Zenon DEF MergeNext
  <2> HIDE DEF i, j, list
  <2>8. j < Len(b)
    BY <1>1, <1>2, <1>6
  <2>2. j + 1 \in 1 .. Len(b) /\ 1 .. j + 1 = (1 .. j) \cup {j + 1}
    BY <1>1, <1>2, <2>8
  <2>3. \A x \in 1 .. Len(a) : a[x].start < a[x].end /\ ~ Overlap(b[j + 1], a[x])
    BY <1>3, <1>4, <2>2
  <2>9. i < Len(a) => b[j + 1].start <= a[i + 1].start
    <3> SUFFICES ASSUME i < Len(a) PROVE b[j + 1].start <= a[i + 1].start
      OBVIOUS
    <3>1. i + 1 \in 1 .. Len(a)
      BY <1>1, <1>2
    <3>2. a[i + 1].start \in Nat /\ b[j + 1].start \in Nat
      BY <1>4, <2>2, <3>1 DEF Spans
    <3> QED
      BY <1>6, <2>8, <3>2
  <2>4. /\ more \in Seq(Spans) /\ OneByOne(more) /\ ToSet(more) = ToSet(list) \cup {b[j + 1]}
        /\ Before(more, b, j + 1) /\ Before(more, a, i)
    BY <1>1, <2>3, <2>8, <2>9, MergeTakes
  <2> HIDE DEF more
  <2>10. next = [i |-> i, j |-> j + 1, out |-> more]
    <3>1. st \in [i : Nat, j : Nat, out : Seq(Spans)]
      BY <1>1 DEF MergeState
    <3>2. next = [i |-> st.i, j |-> j + 1, out |-> more]
      BY <2>1, <3>1
    <3> QED
      BY <3>2, Zenon DEF i, j
  <2>11. j + 1 \in Nat
    BY <1>1
  <2>5. next.i = i /\ next.j = j + 1 /\ next.out = more /\ next \in MergeState
    <3> HIDE DEF next
    <3> QED
      BY <1>1, <2>4, <2>10, <2>11 DEF MergeState
  <2>6. next.i + next.j = k /\ next.i <= Len(a) /\ next.j <= Len(b)
    <3> HIDE DEF next
    <3>1. i + (j + 1) = k /\ i <= Len(a) /\ j + 1 <= Len(b)
      BY <1>2, <1>7, <2>2
    <3> QED
      BY <2>5, <3>1, Zenon
  <2>7. ToSet(more) = {a[x] : x \in 1 .. i} \cup {b[y] : y \in 1 .. j + 1}
    BY <1>1, <2>2, <2>4
  <2> QED
    BY <2>4, <2>5, <2>6, <2>7, Zenon DEF Merging, next
<1> QED
  BY <1>5, <1>6

LEMMA MergedInOrder ==
  ASSUME NEW a \in Seq(Spans), NEW b \in Seq(Spans), OneByOne(a), OneByOne(b),
         \A x \in 1 .. Len(a) : a[x].start < a[x].end,
         \A y \in 1 .. Len(b) : b[y].start < b[y].end,
         \A x \in 1 .. Len(a) : \A y \in 1 .. Len(b) : ~ Overlap(a[x], b[y])
  PROVE  /\ MergeSpans(a, b) \in Seq(Spans) /\ OneByOne(MergeSpans(a, b))
         /\ ToSet(MergeSpans(a, b)) = ToSet(a) \cup ToSet(b)
<1> DEFINE N == Len(a) + Len(b)
           Element == Spans \cup {a[x] : x \in Nat} \cup {b[y] : y \in Nat}
           X == [i : Nat, j : Nat, out : Seq(Element)]
           base == [i |-> 0, j |-> 0, out |-> <<>>]
           Body(st, k) == MergeNext(st, a, b)
           Is(f) == f = [k \in 0 .. N |-> IF k = 0 THEN base ELSE Body(f[k - 1], k)]
           step == [p \in X \X (1 .. N) |-> Body(p[1], p[2])]
           merged == CHOOSE f : Is(f)
<1>1. Len(a) \in Nat /\ Len(b) \in Nat /\ DOMAIN a = 1 .. Len(a) /\ DOMAIN b = 1 .. Len(b) /\ N \in Nat
  BY LenProperties
<1>2. MergeSpans(a, b) = merged[N].out
  BY Zenon DEF MergeSpans, MergeNext
<1>3. ASSUME NEW st \in X, NEW k \in 1 .. N PROVE Body(st, k) \in X
  <2> DEFINE i == st.i
             j == st.j
             list == st.out
  <2>1. i \in Nat /\ j \in Nat /\ list \in Seq(Element)
    OBVIOUS
  <2>2. a[i + 1] \in Element /\ b[j + 1] \in Element
    <3>1. i + 1 \in Nat /\ j + 1 \in Nat
      BY <2>1
    <3> HIDE DEF i, j
    <3> QED
      BY <3>1
  <2> HIDE DEF Element
  <2>3. Append(list, a[i + 1]) \in Seq(Element) /\ Append(list, b[j + 1]) \in Seq(Element)
    BY <2>1, <2>2, AppendProperties
  <2>4. \/ Body(st, k) = [st EXCEPT !.i = i + 1, !.out = Append(list, a[i + 1])]
        \/ Body(st, k) = [st EXCEPT !.j = j + 1, !.out = Append(list, b[j + 1])]
    BY Zenon DEF MergeNext
  <2> DEFINE m1 == Append(list, a[i + 1])
             m2 == Append(list, b[j + 1])
  <2> HIDE DEF m1, m2, Body
  <2>5. m1 \in Seq(Element) /\ m2 \in Seq(Element)
    BY <2>3 DEF m1, m2
  <2>6. \/ Body(st, k) = [st EXCEPT !.i = i + 1, !.out = m1]
        \/ Body(st, k) = [st EXCEPT !.j = j + 1, !.out = m2]
    BY <2>4, Zenon DEF m1, m2
  <2>7. i + 1 \in Nat /\ j + 1 \in Nat
    BY <2>1
  <2> QED
    BY <2>5, <2>6, <2>7
<1>4. base \in X
  OBVIOUS
<1>5. Merging(base, 0, a, b)
  <2>1. OneByOne(<<>>) /\ ToSet(<<>>) = {} /\ Before(<<>>, a, 0) /\ Before(<<>>, b, 0)
    BY DEF OneByOne, ToSet, Before
  <2>2. base \in MergeState /\ base.i = 0 /\ base.j = 0 /\ base.out = <<>>
    BY DEF MergeState
  <2>3. {a[x] : x \in 1 .. 0} \cup {b[y] : y \in 1 .. 0} = {}
    OBVIOUS
  <2>4. 0 <= Len(a) /\ 0 <= Len(b) /\ 0 + 0 = 0
    BY <1>1
  <2> HIDE DEF base
  <2> QED
    BY <2>1, <2>2, <2>3, <2>4, Zenon DEF Merging
<1> HIDE DEF base, Body, X, N
<1>6. Is(merged)
  <2>1. step \in [X \X (1 .. N) -> X]
    BY <1>3
  <2> HIDE DEF step
  <2>2. \E g : Recursive(g, base, step, N) /\ \A k \in 0 .. N : g[k] \in X
    BY <1>1, <1>4, <2>1, RecursionExists, Zenon
  <2>3. PICK g : /\ g = [k \in 0 .. N |-> IF k = 0 THEN base ELSE step[<<g[k - 1], k>>]]
                 /\ \A k \in 0 .. N : g[k] \in X
    BY <2>2, Zenon DEF Recursive
  <2>4. \A k \in 1 .. N : g[k - 1] \in X
    BY <1>1, <2>3
  <2>5. \A k \in 1 .. N : step[<<g[k - 1], k>>] = Body(g[k - 1], k)
    BY <2>4 DEF step
  <2>6. \A k \in 0 .. N : (IF k = 0 THEN base ELSE step[<<g[k - 1], k>>])
                           = (IF k = 0 THEN base ELSE Body(g[k - 1], k))
    BY <1>1, <2>5
  <2>7. [k \in 0 .. N |-> IF k = 0 THEN base ELSE step[<<g[k - 1], k>>]]
          = [k \in 0 .. N |-> IF k = 0 THEN base ELSE Body(g[k - 1], k)]
    BY <2>6, Zenon
  <2>8. Is(g)
    BY <2>3, <2>7, Zenon
  <2> QED
    BY <2>8, Zenon
<1> HIDE DEF merged, step
<1>7. merged = [k \in 0 .. N |-> IF k = 0 THEN base ELSE Body(merged[k - 1], k)]
  BY <1>6, Zenon
<1>8. merged[0] = base /\ \A k \in 1 .. N : merged[k] = Body(merged[k - 1], k)
  BY <1>1, <1>7
<1> DEFINE T == {k \in 0 .. N : Merging(merged[k], k, a, b)}
<1>9. 0 \in T
  BY <1>1, <1>5, <1>8
<1>10. ASSUME NEW k \in 1 .. N, k - 1 \in T PROVE k \in T
  <2>1. Merging(merged[k - 1], k - 1, a, b) /\ k \in 1 .. Len(a) + Len(b)
    BY <1>10 DEF N
  <2>2. Merging(Body(merged[k - 1], k), k, a, b)
    BY <2>1, MergeKeeps, Zenon DEF Body
  <2>3. k \in 0 .. N
    BY <1>1
  <2> QED
    BY <1>8, <2>2, <2>3
<1> HIDE DEF T
<1>11. \A k \in 0 .. N : k \in T
  BY <1>1, <1>9, <1>10, UpTo
<1>12. Merging(merged[N], N, a, b)
  BY <1>1, <1>11 DEF T
<1> DEFINE st == merged[N]
<1> HIDE DEF st
<1>13. /\ st \in MergeState /\ st.i + st.j = N /\ st.i <= Len(a) /\ st.j <= Len(b)
       /\ OneByOne(st.out)
       /\ ToSet(st.out) = {a[x] : x \in 1 .. st.i} \cup {b[y] : y \in 1 .. st.j}
  BY <1>12, Zenon DEF Merging, st
<1>14. st.i \in Nat /\ st.j \in Nat /\ st.out \in Seq(Spans)
  BY <1>13 DEF MergeState
<1>15. st.i = Len(a) /\ st.j = Len(b)
  BY <1>1, <1>13, <1>14 DEF N
<1>16. ToSet(st.out) = ToSet(a) \cup ToSet(b)
  BY <1>1, <1>13, <1>15 DEF ToSet
<1> QED
  BY <1>2, <1>13, <1>14, <1>16, Zenon DEF st

-----------------------------------------------------------------------------
(* Forbidden claims are found                                              *)

\* FuzzyMatchesAreRight, of any text and claim.
Matched(found, hay, needle, threshold) ==
  /\ \A k \in DOMAIN found : Said(hay, needle, threshold, found[k])
  /\ \A j \in 1 .. Len(found) - 1 : found[j].end <= found[j + 1].start
  /\ Len(needle) = 0 => found = <<>>
  /\ \A sp \in {s \in [start : DOMAIN hay, end : 2 .. Len(hay) + 1] : s.start < s.end} :
       Len(needle) > 0 /\ Said(hay, needle, threshold, sp) /\ ~ Grown(hay, needle, sp)
       => \E j \in DOMAIN found : Overlap(sp, found[j])

LEMMA FuzzyFinds ==
  ASSUME NEW S, NEW hay \in Seq(S), NEW needle \in Seq(S), NEW threshold \in Nat
  PROVE  Matched(FindFuzzyOccurrences(hay, needle, threshold), hay, needle, threshold)
<1> DEFINE found == FindFuzzyOccurrences(hay, needle, threshold)
           exact == FindAllOccurrences(hay, needle)
           fuzzy == FuzzyMatches(hay, needle, threshold, exact)
           spans == {s \in [start : DOMAIN hay, end : 2 .. Len(hay) + 1] : s.start < s.end}
<1>1. /\ Len(hay) \in Nat /\ DOMAIN hay = 1 .. Len(hay) /\ Len(needle) \in Nat
      /\ needle = <<>> <=> Len(needle) = 0
  BY LenProperties, EmptySeq
<1>2. CASE needle = <<>>
  <2>1. exact = <<>>
    BY <1>2, Zenon DEF FindAllOccurrences
  <2>2. found = <<>>
    BY <1>2, <2>1, Zenon DEF FindFuzzyOccurrences
  <2>3. DOMAIN <<>> = {} /\ Len(<<>>) = 0
    OBVIOUS
  <2>4. Len(needle) = 0 /\ 1 .. Len(<<>>) - 1 = {} /\ ~ (Len(needle) > 0)
    BY <1>1, <1>2
  <2> QED
    BY <2>2, <2>3, <2>4, Zenon DEF Matched
<1>3. CASE needle # <<>>
  <2>1. Len(needle) \in Nat \ {0} /\ needle # <<>>
    BY <1>1, <1>3
  <2>2. ExactFound(exact, hay, needle)
    BY <1>1, <2>1, ExactOccurrences, Zenon
  <2>3. /\ exact \in Seq(Spans) /\ OneByOne(exact)
        /\ \A m \in ToSet(exact) : ExactlyAt(hay, needle, m)
    BY <2>2, Zenon DEF ExactFound
  <2>4. \A sp \in spans : \E p \in 1 .. Len(hay) : \E e \in 1 .. Len(hay) + 1 :
          sp = Span(p, e) /\ p < e
    BY <1>1 DEF Span
  <2>5. ASSUME NEW m, ExactlyAt(hay, needle, m)
        PROVE  /\ m.start \in 1 .. Len(hay) /\ m.end \in 1 .. Len(hay) + 1 /\ m.start < m.end
               /\ m \in Spans /\ Said(hay, needle, threshold, m)
    <3>1. /\ m.start \in 1 .. Len(hay) /\ m.end \in 1 .. Len(hay) + 1 /\ m.start < m.end
          /\ m \in Spans
      BY <1>1, <2>1, <2>5 DEF ExactlyAt
    <3>2. m = Span(m.start, m.end)
      BY <3>1 DEF Span, Spans
    <3>3. Said(hay, needle, threshold, Span(m.start, m.end))
      BY <2>1, <2>5, <3>1, <3>2, WindowSays, Zenon
    <3> QED
      BY <3>1, <3>2, <3>3, Zenon
  <2> HIDE DEF exact
  \* What is left, once the list is made, is to read it by its places.
  <2>6. ASSUME NEW all \in Seq(Spans), OneByOne(all),
               \A m \in ToSet(all) : Said(hay, needle, threshold, m),
               \A sp \in spans : Said(hay, needle, threshold, sp) /\ ~ Grown(hay, needle, sp)
                 => \E m \in ToSet(all) : Overlap(sp, m)
        PROVE  Matched(all, hay, needle, threshold)
    <3>1. Len(all) \in Nat /\ DOMAIN all = 1 .. Len(all)
      BY LenProperties
    <3>2. ToSet(all) = {all[k] : k \in DOMAIN all}
      BY DEF ToSet
    <3>3. \A k \in DOMAIN all : Said(hay, needle, threshold, all[k])
      BY <2>6, <3>2
    <3>4. \A j \in 1 .. Len(all) - 1 : all[j].end <= all[j + 1].start
      <4> SUFFICES ASSUME NEW j \in 1 .. Len(all) - 1 PROVE all[j].end <= all[j + 1].start
        OBVIOUS
      <4>1. j \in DOMAIN all /\ j + 1 \in DOMAIN all /\ j < j + 1
        BY <3>1
      <4> QED
        BY <2>6, <4>1, Zenon DEF OneByOne
    <3>5. \A sp \in spans :
            Len(needle) > 0 /\ Said(hay, needle, threshold, sp) /\ ~ Grown(hay, needle, sp)
            => \E j \in DOMAIN all : Overlap(sp, all[j])
      BY <2>6, <3>2
    <3>6. Len(needle) # 0
      BY <2>1
    <3> QED
      BY <3>3, <3>4, <3>5, <3>6, Zenon DEF Matched
  <2>7. CASE threshold = 0
    <3>1. found = exact
      BY <2>7, Zenon DEF FindFuzzyOccurrences, exact
    <3>2. ASSUME NEW sp \in spans, Said(hay, needle, threshold, sp)
          PROVE  \E m \in ToSet(exact) : Overlap(sp, m)
      <4>1. PICK p \in 1 .. Len(hay), e \in 1 .. Len(hay) + 1 : sp = Span(p, e) /\ p < e
        BY <2>4
      <4>2. ExactlyAt(hay, needle, sp)
        BY <2>1, <2>7, <3>2, <4>1, WindowSays, Zenon
      <4>3. sp.start = p /\ sp.end = e
        BY <4>1 DEF Span
      <4>4. sp = Span(p, p + Len(needle))
        BY <4>1, <4>2, <4>3, Zenon DEF ExactlyAt
      <4> QED
        BY <2>2, <4>2, <4>4, Zenon DEF ExactFound
    <3>3. \A m \in ToSet(exact) : Said(hay, needle, threshold, m)
      BY <2>3, <2>5
    <3>4. Matched(exact, hay, needle, threshold)
      BY <2>3, <2>6, <3>2, <3>3
    <3> QED
      BY <3>1, <3>4
  <2>8. CASE threshold # 0
    <3>1. found = MergeSpans(exact, fuzzy)
      BY <1>3, <2>8, Zenon DEF FindFuzzyOccurrences, exact
    <3>2. PICK st : /\ Scanning(st, Len(hay), hay, needle, threshold, exact)
                    /\ fuzzy = st.found
      BY <2>1, <2>3, WindowsSearched, Zenon
    <3> HIDE DEF fuzzy
    <3>3. /\ fuzzy \in Seq(Spans) /\ OneByOne(fuzzy)
          /\ \A m \in ToSet(fuzzy) : IsFuzzy(m, hay, needle, threshold, exact)
          /\ \A p \in 1 .. Len(hay) : CaughtAt(p, hay, needle, threshold, exact, fuzzy)
      BY <3>2 DEF Scanning, ScanState
    <3>4. /\ \A x \in 1 .. Len(exact) : exact[x] \in ToSet(exact)
          /\ \A y \in 1 .. Len(fuzzy) : fuzzy[y] \in ToSet(fuzzy)
      <4>1. DOMAIN exact = 1 .. Len(exact) /\ DOMAIN fuzzy = 1 .. Len(fuzzy)
        BY <2>3, <3>3, LenProperties
      <4> QED
        BY <4>1 DEF ToSet
    <3>5. /\ \A x \in 1 .. Len(exact) : exact[x].start < exact[x].end
          /\ \A y \in 1 .. Len(fuzzy) : fuzzy[y].start < fuzzy[y].end
      BY <2>3, <2>5, <3>3, <3>4, Zenon DEF IsFuzzy
    <3>6. \A x \in 1 .. Len(exact) : \A y \in 1 .. Len(fuzzy) : ~ Overlap(exact[x], fuzzy[y])
      <4>1. \A s, t \in Spans : Overlap(s, t) => Overlap(t, s)
        BY DEF Overlap
      <4> SUFFICES ASSUME NEW x \in 1 .. Len(exact), NEW y \in 1 .. Len(fuzzy)
                   PROVE  ~ Overlap(exact[x], fuzzy[y])
        OBVIOUS
      <4>2. ~ Overlap(fuzzy[y], exact[x])
        BY <3>3, <3>4, Zenon DEF IsFuzzy, Clear
      <4>3. fuzzy[y] \in Spans /\ exact[x] \in Spans
        BY <2>3, <3>3, ElementOfSeq
      <4> QED
        BY <4>1, <4>2, <4>3, Zenon
    <3> DEFINE all == MergeSpans(exact, fuzzy)
    <3>7. all \in Seq(Spans) /\ OneByOne(all) /\ ToSet(all) = ToSet(exact) \cup ToSet(fuzzy)
      BY <2>3, <3>3, <3>5, <3>6, MergedInOrder, Zenon
    <3> HIDE DEF all
    <3>8. \A m \in ToSet(all) : Said(hay, needle, threshold, m)
      BY <2>3, <2>5, <3>3, <3>7 DEF IsFuzzy
    <3>9. ASSUME NEW sp \in spans, Said(hay, needle, threshold, sp), ~ Grown(hay, needle, sp)
          PROVE  \E m \in ToSet(all) : Overlap(sp, m)
      <4>1. PICK p \in 1 .. Len(hay), e \in 1 .. Len(hay) + 1 : sp = Span(p, e) /\ p < e
        BY <2>4
      <4>2. Caught(sp, exact, fuzzy)
        BY <3>3, <3>9, <4>1, Zenon DEF CaughtAt
      <4> QED
        BY <3>7, <4>2, Zenon DEF Caught
    <3>10. Matched(all, hay, needle, threshold)
      BY <2>6, <3>7, <3>8, <3>9
    <3> QED
      BY <3>1, <3>10 DEF all
  <2> QED
    BY <2>7, <2>8
<1> QED
  BY <1>2, <1>3

\* In every text of the alphabet, whatever its length, the search finds the
\* claim wherever it stands within so many edits, and nothing else.
THEOREM FuzzyMatchesAreAllRight == ClaimSpec => []FuzzyMatchesAreRight
<1>1. ClaimInv => FuzzyMatchesAreRight
  <2> SUFFICES ASSUME ClaimInv, done, input.form = "fuzzy" PROVE FuzzyMatchesAreRight
    BY DEF FuzzyMatchesAreRight, Done
  <2>1. PICK hay \in BoundedSeq(Alphabet, MaxText), needle \in Needles, threshold \in Thresholds :
          /\ input = [form |-> "fuzzy", hay |-> hay, needle |-> needle, threshold |-> threshold]
          /\ answer = FindFuzzyOccurrences(hay, needle, threshold)
    <3>1. \A text, facts, rules : ~ IsClaims(text, facts, rules)
      BY DEF IsClaims
    <3> QED
      BY <3>1, Zenon DEF ClaimInv, IsForbidden
  <2>2. input.hay = hay /\ input.needle = needle /\ input.threshold = threshold
    BY <2>1
  <2>3. threshold \in Nat /\ IsSequence(needle)
    BY ClaimAssumption
  <2> DEFINE S == Alphabet \cup ToSet(needle)
  <2>4. hay \in Seq(S)
    <3>1. PICK m \in Nat : hay \in [1 .. m -> Alphabet]
      BY ClaimAssumption DEF BoundedSeq, SeqOf
    <3> QED
      BY <3>1
  <2>5. needle \in Seq(S)
    <3>1. needle \in Seq(ToSet(needle)) /\ ToSet(needle) \subseteq S
      BY <2>3 DEF IsSequence
    <3> QED
      BY <3>1, SeqMonotonic
  <2> HIDE DEF S
  <2>6. Matched(answer, hay, needle, threshold)
    BY <2>1, <2>3, <2>4, <2>5, FuzzyFinds, Zenon
  <2>7. \A sp : SaidAt(sp) <=> Said(hay, needle, threshold, sp)
    BY <2>2, Zenon DEF SaidAt, Said
  <2>8. \A sp : /\ sp.end - sp.start > Len(input.needle) /\ WordAt(input.needle, Len(input.needle))
                /\ WordAt(input.hay, sp.start + Len(input.needle))
                <=> Grown(hay, needle, sp)
    BY <2>2, Zenon DEF Grown
  <2> QED
    BY <2>2, <2>6, <2>7, <2>8, Zenon DEF FuzzyMatchesAreRight, Matched
<1> QED
  BY <1>1, ClaimInvHolds, PTL

-----------------------------------------------------------------------------
(* Where the scans of the TypeScript parser stop                           *)

TokenList(ts) == Len(ts) \in Nat /\ DOMAIN ts = 1 .. Len(ts)

\* A search from i on has found a place, or is past the end.
Sought(x, i, n) == x \in Nat /\ (x = n + 1 \/ (i <= x /\ x <= n))

LEMMA FirstPlace ==
  ASSUME NEW n \in Nat, NEW i \in Nat, NEW js \in SUBSET (i .. n)
  PROVE  Sought(IF js = {} THEN n + 1 ELSE Min(js), i, n)
<1>1. CASE js = {}
  BY <1>1 DEF Sought
<1>2. CASE js # {}
  <2>1. js \in SUBSET Nat
    OBVIOUS
  <2>2. Min(js) \in js
    BY <1>2, <2>1, LeastPlace
  <2> DEFINE x == Min(js)
  <2>3. x \in i .. n
    BY <2>2
  <2> HIDE DEF x
  <2>4. Sought(x, i, n)
    BY <2>3 DEF Sought
  <2> QED
    BY <1>2, <2>4 DEF x
<1> QED
  BY <1>1, <1>2

LEMMA AtInside ==
  ASSUME NEW ts, TokenList(ts), NEW i, At(ts, i) # ""
  PROVE  i \in 1 .. Len(ts) /\ At(ts, i) = ts[i]
BY Zenon DEF At, TokenList

LEMMA MatchFound ==
  ASSUME NEW ts, TokenList(ts), NEW i \in Nat, NEW open, NEW close
  PROVE  Sought(Match(ts, i, open, close), i + 1, Len(ts))
<1> DEFINE js == {j \in i + 1 .. Len(ts) : ts[j] = close /\ Depth(ts, i, j, {open}, {close}) = 1}
<1>1. Match(ts, i, open, close) = IF js = {} THEN Len(ts) + 1 ELSE Min(js)
  BY Zenon DEF Match, FirstFrom
<1>2. js \in SUBSET (i + 1 .. Len(ts))
  OBVIOUS
<1> HIDE DEF js
<1>3. Len(ts) \in Nat /\ i + 1 \in Nat
  BY DEF TokenList
<1> QED
  BY <1>1, <1>2, <1>3, FirstPlace

LEMMA PastIs ==
  ASSUME NEW ts, TokenList(ts), NEW j \in Nat
  PROVE  Past(ts, j) = IF j <= Len(ts) THEN j + 1 ELSE Len(ts) + 1
<1>1. Len(ts) \in Nat
  BY DEF TokenList
<1>2. Past(ts, j) \in {j + 1, Len(ts) + 1} /\ \A x \in {j + 1, Len(ts) + 1} : Past(ts, j) <= x
  <2> DEFINE T == {j + 1, Len(ts) + 1}
  <2>1. \E m \in T : \A y \in T : m =< y
    BY <1>1
  <2> HIDE DEF T
  <2>2. Min(T) \in T /\ \A y \in T : Min(T) =< y
    BY <2>1, Zenon DEF Min
  <2> QED
    BY <2>2, Zenon DEF Past, T
<1> HIDE DEF Past
<1> QED
  BY <1>1, <1>2

LEMMA SkippedBalanced ==
  ASSUME NEW ts, TokenList(ts), NEW i \in Nat
  PROVE  /\ SkipBalanced(ts, i) \in Nat
         /\ \/ SkipBalanced(ts, i) = i
            \/ i + 1 <= SkipBalanced(ts, i) /\ SkipBalanced(ts, i) <= Len(ts) + 1
         /\ At(ts, i) \in {"{", "[", "("} => SkipBalanced(ts, i) > i
<1>1. Len(ts) \in Nat
  BY DEF TokenList
<1>2. ASSUME NEW open, NEW close, At(ts, i) = open, open # ""
      PROVE  /\ Past(ts, Match(ts, i, open, close)) \in Nat
             /\ i + 1 <= Past(ts, Match(ts, i, open, close))
             /\ Past(ts, Match(ts, i, open, close)) <= Len(ts) + 1
  <2> DEFINE x == Match(ts, i, open, close)
  <2>1. Sought(x, i + 1, Len(ts))
    BY MatchFound
  <2>2. i \in 1 .. Len(ts)
    BY <1>2, AtInside, Zenon
  <2> HIDE DEF x
  <2>3. x \in Nat
    BY <2>1 DEF Sought
  <2>4. Past(ts, x) = IF x <= Len(ts) THEN x + 1 ELSE Len(ts) + 1
    BY <2>3, PastIs
  <2>5. Past(ts, x) \in Nat /\ i + 1 <= Past(ts, x) /\ Past(ts, x) <= Len(ts) + 1
    BY <1>1, <2>1, <2>2, <2>3, <2>4 DEF Sought
  <2> QED
    BY <2>5 DEF x
<1>3. CASE At(ts, i) = "{"
  <2> DEFINE x == Past(ts, Match(ts, i, "{", "}"))
  <2>1. SkipBalanced(ts, i) = x
    BY <1>3, Zenon DEF SkipBalanced
  <2>2. x \in Nat /\ i + 1 <= x /\ x <= Len(ts) + 1
    BY <1>2, <1>3, Zenon
  <2> HIDE DEF x
  <2>3. (x = i \/ (i + 1 <= x /\ x <= Len(ts) + 1)) /\ x > i
    BY <1>1, <2>2
  <2> QED
    BY <2>1, <2>2, <2>3, Zenon
<1>4. CASE At(ts, i) = "["
  <2> DEFINE x == Past(ts, Match(ts, i, "[", "]"))
  <2>1. SkipBalanced(ts, i) = x
    BY <1>4 DEF SkipBalanced
  <2>2. x \in Nat /\ i + 1 <= x /\ x <= Len(ts) + 1
    BY <1>2, <1>4, Zenon
  <2> HIDE DEF x
  <2>3. (x = i \/ (i + 1 <= x /\ x <= Len(ts) + 1)) /\ x > i
    BY <1>1, <2>2
  <2> QED
    BY <2>1, <2>2, <2>3, Zenon
<1>5. CASE At(ts, i) = "("
  <2> DEFINE x == Past(ts, Match(ts, i, "(", ")"))
  <2>1. SkipBalanced(ts, i) = x
    BY <1>5 DEF SkipBalanced
  <2>2. x \in Nat /\ i + 1 <= x /\ x <= Len(ts) + 1
    BY <1>2, <1>5, Zenon
  <2> HIDE DEF x
  <2>3. (x = i \/ (i + 1 <= x /\ x <= Len(ts) + 1)) /\ x > i
    BY <1>1, <2>2
  <2> QED
    BY <2>1, <2>2, <2>3, Zenon
<1>6. CASE At(ts, i) \notin {"{", "[", "("}
  BY <1>6, Zenon DEF SkipBalanced
<1> QED
  BY <1>3, <1>4, <1>5, <1>6, Zenon

LEMMA SkippedGenericParams ==
  ASSUME NEW ts, TokenList(ts), NEW i \in Nat
  PROVE  /\ SkipGenericParams(ts, i) \in Nat
         /\ \/ SkipGenericParams(ts, i) = i
            \/ i + 1 <= SkipGenericParams(ts, i) /\ SkipGenericParams(ts, i) <= Len(ts) + 1
<1>1. CASE At(ts, i) = "<"
  <2> DEFINE x == Match(ts, i, "<", ">")
  <2>1. Sought(x, i + 1, Len(ts))
    BY MatchFound
  <2>2. i \in 1 .. Len(ts) /\ Len(ts) \in Nat
    BY <1>1, AtInside, Zenon DEF TokenList
  <2>3. SkipGenericParams(ts, i) = Past(ts, x)
    BY <1>1 DEF SkipGenericParams
  <2> HIDE DEF x
  <2>4. x \in Nat
    BY <2>1 DEF Sought
  <2>5. Past(ts, x) = IF x <= Len(ts) THEN x + 1 ELSE Len(ts) + 1
    BY <2>4, PastIs
  <2> QED
    BY <2>1, <2>2, <2>3, <2>4, <2>5 DEF Sought
<1>2. CASE At(ts, i) # "<"
  BY <1>2 DEF SkipGenericParams
<1> QED
  BY <1>1, <1>2

\* An initializer, a declaration and the modifiers of a member end at a place
\* that is searched for; so does an annotation, if there is one.
LEMMA SkippedInitializer ==
  ASSUME NEW ts, TokenList(ts), NEW i \in Nat
  PROVE  Sought(SkipInitializer(ts, i), i, Len(ts))
<1> DEFINE js == {j \in i .. Len(ts) :
                    /\ ts[j] \in {";", ",", "export", "import"} \cup Closers
                    /\ Depth(ts, i, j, Brackets, Closers) = 0}
<1>1. SkipInitializer(ts, i) = IF js = {} THEN Len(ts) + 1 ELSE Min(js)
  BY Zenon DEF SkipInitializer, FirstFrom
<1>2. js \in SUBSET (i .. Len(ts))
  BY Zenon
<1> HIDE DEF js
<1> QED
  BY <1>1, <1>2, FirstPlace DEF TokenList

LEMMA SkippedModifiers ==
  ASSUME NEW ts, TokenList(ts), NEW i \in Nat
  PROVE  Sought(SkipModifiers(ts, i), i, Len(ts))
<1> DEFINE js == {j \in i .. Len(ts) : \/ ts[j] \notin MemberModifiers
                                       \/ At(ts, j + 1) = "("}
<1>1. SkipModifiers(ts, i) = IF js = {} THEN Len(ts) + 1 ELSE Min(js)
  BY Zenon DEF SkipModifiers, FirstFrom
<1>2. js \in SUBSET (i .. Len(ts))
  OBVIOUS
<1> HIDE DEF js
<1> QED
  BY <1>1, <1>2, FirstPlace DEF TokenList

LEMMA SkippedTypeAnnotation ==
  ASSUME NEW ts, TokenList(ts), NEW i \in Nat
  PROVE  \/ SkipTypeAnnotation(ts, i) = i
         \/ At(ts, i) = ":" /\ Sought(SkipTypeAnnotation(ts, i), i + 1, Len(ts))
<1> DEFINE js == {j \in i + 1 .. Len(ts) :
                    /\ ts[j] \in {";", ",", "="} \cup AngledClosers
                    /\ Depth(ts, i + 1, j, Angled, AngledClosers) = 0}
<1>1. CASE At(ts, i) = ":"
  <2>1. SkipTypeAnnotation(ts, i) = IF js = {} THEN Len(ts) + 1 ELSE Min(js)
    BY <1>1, Zenon DEF SkipTypeAnnotation, FirstFrom
  <2>2. js \in SUBSET (i + 1 .. Len(ts))
    BY Zenon
  <2>3. i + 1 \in Nat
    OBVIOUS
  <2> HIDE DEF js
  <2> QED
    BY <1>1, <2>1, <2>2, <2>3, FirstPlace DEF TokenList
<1>2. CASE At(ts, i) # ":"
  BY <1>2 DEF SkipTypeAnnotation
<1> QED
  BY <1>1, <1>2

LEMMA SkippedReturnType ==
  ASSUME NEW ts, TokenList(ts), NEW i \in Nat
  PROVE  \/ SkipReturnType(ts, i) = i
         \/ At(ts, i) = ":" /\ Sought(SkipReturnType(ts, i), i + 1, Len(ts))
<1> DEFINE js == {j \in i + 1 .. Len(ts) :
         /\ \/ ts[j] = "{" /\ ts[j - 1] \notin AtomExpected
            \/ ts[j] \in {";", "default"} \cup DeclarationWords \cup AngledClosers
         /\ Depth(ts, i + 1, j, Angled, AngledClosers) = 0}
<1>1. CASE At(ts, i) = ":"
  <2>1. SkipReturnType(ts, i) = IF js = {} THEN Len(ts) + 1 ELSE Min(js)
    BY <1>1, Zenon DEF SkipReturnType, FirstFrom
  <2>2. js \in SUBSET (i + 1 .. Len(ts))
    BY Zenon
  <2>3. i + 1 \in Nat
    OBVIOUS
  <2> HIDE DEF js
  <2> QED
    BY <1>1, <2>1, <2>2, <2>3, FirstPlace DEF TokenList
<1>2. CASE At(ts, i) # ":"
  BY <1>2 DEF SkipReturnType
<1> QED
  BY <1>1, <1>2

LEMMA SkippedArrowReturnType ==
  ASSUME NEW ts, TokenList(ts), NEW i \in Nat
  PROVE  \/ SkipArrowReturnType(ts, i) = i
         \/ At(ts, i) = ":" /\ Sought(SkipArrowReturnType(ts, i), i + 1, Len(ts))
<1> DEFINE js == {j \in i + 1 .. Len(ts) :
         /\ \/ ts[j] = "=>" /\ ts[j - 1] # ")"
            \/ ts[j] \in {";", ","}
         /\ ClampedDepth(ts, i + 1, j, Angled, AngledClosers) = 0}
<1>1. CASE At(ts, i) = ":"
  <2>1. SkipArrowReturnType(ts, i) = IF js = {} THEN Len(ts) + 1 ELSE Min(js)
    BY <1>1, Zenon DEF SkipArrowReturnType, FirstFrom
  <2>2. js \in SUBSET (i + 1 .. Len(ts))
    BY Zenon
  <2>3. i + 1 \in Nat
    OBVIOUS
  <2> HIDE DEF js
  <2> QED
    BY <1>1, <2>1, <2>2, <2>3, FirstPlace DEF TokenList
<1>2. CASE At(ts, i) # ":"
  BY <1>2 DEF SkipArrowReturnType
<1> QED
  BY <1>1, <1>2

LEMMA SkippedUntilSemiOrEnd ==
  ASSUME NEW ts, TokenList(ts), NEW i \in Nat
  PROVE  Sought(SkipUntilSemiOrEnd(ts, i), i, Len(ts))
<1> DEFINE js == {k \in i .. Len(ts) :
                    /\ ts[k] \in {";"} \cup Closers
                    /\ Depth(ts, i, k, Brackets, Closers) = 0}
           x == IF js = {} THEN Len(ts) + 1 ELSE Min(js)
<1>1. SkipUntilSemiOrEnd(ts, i) = IF At(ts, x) = ";" THEN x + 1 ELSE x
  BY Zenon DEF SkipUntilSemiOrEnd, FirstFrom
<1>2. Sought(x, i, Len(ts))
  <2>1. js \in SUBSET (i .. Len(ts))
    BY Zenon
  <2> HIDE DEF js
  <2> QED
    BY <2>1, FirstPlace DEF TokenList
<1> HIDE DEF x
<1>3. At(ts, x) = ";" => x \in 1 .. Len(ts)
  BY AtInside, Zenon
<1>4. Len(ts) \in Nat
  BY DEF TokenList
<1>5. CASE At(ts, x) = ";"
  <2>1. x \in 1 .. Len(ts)
    BY <1>3, <1>5, Zenon
  <2>2. Sought(x + 1, i, Len(ts))
    BY <1>2, <1>4, <2>1 DEF Sought
  <2> QED
    BY <1>1, <1>5, <2>2, Zenon
<1>6. CASE At(ts, x) # ";"
  BY <1>1, <1>2, <1>6, Zenon
<1> QED
  BY <1>5, <1>6, Zenon

LEMMA SkippedDecl ==
  ASSUME NEW ts, TokenList(ts), NEW i \in Nat
  PROVE  /\ SkipDecl(ts, i) \in Nat
         /\ \/ SkipDecl(ts, i) = Len(ts) + 1
            \/ i + 1 <= SkipDecl(ts, i) /\ SkipDecl(ts, i) <= Len(ts) + 1
<1> DEFINE js == {j \in i .. Len(ts) :
                    \/ ts[j] = "}" /\ Depth(ts, i, j, {"{"}, {"}"}) <= 1
                    \/ ts[j] = ";" /\ Depth(ts, i, j, {"{"}, {"}"}) = 0}
           x == IF js = {} THEN Len(ts) + 1 ELSE Min(js)
<1>1. SkipDecl(ts, i) = Past(ts, x)
  BY Zenon DEF SkipDecl, FirstFrom
<1>2. Sought(x, i, Len(ts))
  <2>1. js \in SUBSET (i .. Len(ts))
    BY Zenon
  <2> HIDE DEF js
  <2> QED
    BY <2>1, FirstPlace DEF TokenList
<1> HIDE DEF x
<1>3. x \in Nat
  BY <1>2 DEF Sought
<1>4. Past(ts, x) = IF x <= Len(ts) THEN x + 1 ELSE Len(ts) + 1
  BY <1>3, PastIs
<1> QED
  BY <1>1, <1>2, <1>4 DEF Sought, TokenList

LEMMA SkippedDecorator ==
  ASSUME NEW ts, TokenList(ts), NEW i \in 1 .. Len(ts)
  PROVE  SkipDecorator(ts, i) \in i + 1 .. Len(ts) + 1
<1> DEFINE name(j) == At(ts, j) \in Names \cup Keywords
           js == {j \in i + 2 .. Len(ts) :
                    ~ \/ ts[j] = "." /\ name(j - 1)
                      \/ ts[j - 1] = "." /\ name(j)}
           dots == IF js = {} THEN Len(ts) + 1 ELSE Min(js)
<1>1. SkipDecorator(ts, i) =
        CASE ~ name(i + 1) -> i + 1
          [] name(i + 1) /\ At(ts, dots) = "(" -> SkipBalanced(ts, dots)
          [] OTHER -> dots
  BY Zenon DEF SkipDecorator, FirstFrom
<1>2. Sought(dots, i + 2, Len(ts))
  <2>1. js \in SUBSET (i + 2 .. Len(ts)) /\ i + 2 \in Nat
    OBVIOUS
  <2> HIDE DEF js
  <2> QED
    BY <2>1, FirstPlace DEF TokenList
<1> HIDE DEF dots, name
<1>3. dots \in Nat /\ Len(ts) \in Nat /\ i + 1 <= dots /\ dots <= Len(ts) + 1
  BY <1>2 DEF Sought, TokenList
<1> DEFINE y == SkipBalanced(ts, dots)
<1>4. y \in Nat /\ (y = dots \/ (dots + 1 <= y /\ y <= Len(ts) + 1))
  BY <1>3, SkippedBalanced, Zenon
<1> HIDE DEF y
<1>5. SkipDecorator(ts, i) \in {i + 1, y, dots}
  BY <1>1, Zenon DEF y
<1> QED
  BY <1>3, <1>4, <1>5

-----------------------------------------------------------------------------
(* Loops                                                                   *)

\* A function over i .. N takes its values in G from later ones.
FromLater(i, N, X, last, G, next, join) ==
  /\ i \in Nat /\ N \in Nat /\ i <= N /\ last \in [i .. N -> X] /\ G \in SUBSET (i .. N)
  /\ next \in [G -> i .. N] /\ join \in [G \X X -> X] /\ \A k \in G : next[k] > k

LEMMA LaterExists ==
  ASSUME NEW i, NEW N, NEW X, NEW last, NEW G, NEW next, NEW join,
         FromLater(i, N, X, last, G, next, join)
  PROVE  \E f \in [i .. N -> X] :
           f = [k \in i .. N |-> IF k \in G THEN join[<<k, f[next[k]]>>] ELSE last[k]]
<1>0. /\ i \in Nat /\ N \in Nat /\ i <= N /\ last \in [i .. N -> X] /\ G \in SUBSET (i .. N)
      /\ next \in [G -> i .. N] /\ join \in [G \X X -> X] /\ \A k \in G : next[k] > k
  BY DEF FromLater
<1> USE <1>0
<1> DEFINE Is(f, m) == \A k \in N - m .. N :
                         f[k] = IF k \in G THEN join[<<k, f[next[k]]>>] ELSE last[k]
           T == {m \in 0 .. N - i : \E f \in [i .. N -> X] : Is(f, m)}
<1>1. 0 \in T
  <2>1. Is(last, 0)
    <3> SUFFICES ASSUME NEW k \in N - 0 .. N PROVE last[k] = IF k \in G THEN join[<<k, last[next[k]]>>] ELSE last[k]
      OBVIOUS
    <3>1. k = N
      OBVIOUS
    <3>2. k \notin G
      <4> SUFFICES ASSUME k \in G PROVE FALSE
        OBVIOUS
      <4>1. next[k] \in i .. N /\ next[k] > k
        OBVIOUS
      <4> QED
        BY <3>1, <4>1
    <3> QED
      BY <3>2
  <2> HIDE DEF Is
  <2> QED
    BY <2>1
<1>2. ASSUME NEW m \in 1 .. N - i, m - 1 \in T PROVE m \in T
  <2> DEFINE p == N - m
  <2>1. PICK f \in [i .. N -> X] : Is(f, m - 1)
    BY <1>2
  <2> DEFINE value == IF p \in G THEN join[<<p, f[next[p]]>>] ELSE last[p]
             g == [f EXCEPT ![p] = value]
  <2>2. p \in i .. N /\ p \in Nat /\ N - (m - 1) = p + 1
    OBVIOUS
  <2>3. value \in X
    BY <2>2
  <2>4. \A k \in p + 1 .. N : f[k] = IF k \in G THEN join[<<k, f[next[k]]>>] ELSE last[k]
    BY <2>1, <2>2
  <2> HIDE DEF p, value, Is
  <2>5. g \in [i .. N -> X] /\ g[p] = value /\ \A k \in p + 1 .. N : g[k] = f[k]
    BY <2>2, <2>3
  <2> HIDE DEF g
  <2>6. ASSUME NEW k \in G, k >= p PROVE g[next[k]] = f[next[k]]
    <3>1. next[k] \in i .. N /\ next[k] > k
      OBVIOUS
    <3>2. next[k] \in p + 1 .. N
      BY <2>2, <2>6, <3>1
    <3> QED
      BY <2>5, <3>2
  <2>7. Is(g, m)
    <3>1. ASSUME NEW k \in p .. N
          PROVE  g[k] = IF k \in G THEN join[<<k, g[next[k]]>>] ELSE last[k]
      <4>1. k \in G => g[next[k]] = f[next[k]]
        BY <2>2, <2>6
      <4>2. CASE k = p
        BY <2>5, <4>1, <4>2 DEF value
      <4>3. CASE k # p
        <5>1. k \in p + 1 .. N
          BY <2>2, <4>3
        <5> QED
          BY <2>4, <2>5, <4>1, <5>1
      <4> QED
        BY <4>2, <4>3
    <3> QED
      BY <3>1 DEF Is, p
  <2>8. m \in 0 .. N - i
    OBVIOUS
  <2> QED
    BY <2>5, <2>7, <2>8
<1> HIDE DEF T, Is
<1>3. N - i \in Nat
  OBVIOUS
<1>4. \A m \in 0 .. N - i : m \in T
  BY <1>1, <1>2, <1>3, UpTo
<1>5. N - i \in T
  BY <1>3, <1>4
<1>6. PICK f \in [i .. N -> X] : Is(f, N - i)
  BY <1>5 DEF T
<1>7. N - (N - i) = i
  OBVIOUS
<1>8. \A k \in i .. N : f[k] = IF k \in G THEN join[<<k, f[next[k]]>>] ELSE last[k]
  BY <1>6, <1>7 DEF Is
<1>9. f = [k \in i .. N |-> f[k]]
  OBVIOUS
<1>10. f = [k \in i .. N |-> IF k \in G THEN join[<<k, f[next[k]]>>] ELSE last[k]]
  BY <1>8, <1>9, Zenon
<1> QED
  BY <1>10

\* What holds of each step of a loop, and of a step put before a loop of which
\* it holds, holds of the loop.
LEMMA ItemsHold ==
  ASSUME NEW n \in Nat, NEW src, Len(src) = n, NEW i \in 1 .. n + 1, NEW item, NEW State,
         NEW good, \A k \in i .. n + 1 : good[k] \subseteq State,
         Parsed(n + 1, <<>>) \in good[n + 1],
         \A k \in i .. n : item[k] \in good[k],
         \A k \in i .. n : item[k].more /\ item[k].at \in k + 1 .. n + 1 =>
           \A st \in State : /\ [st EXCEPT !.out = item[k].out \o @] \in State
                             /\ st \in good[item[k].at] =>
                                  [st EXCEPT !.out = item[k].out \o @] \in good[k]
  PROVE  Items(src, i, item) \in good[i]
<1> DEFINE N == n + 1
           On(k) == item[k].more /\ item[k].at \in k + 1 .. n + 1
           Joined(k, st) == [st EXCEPT !.out = item[k].out \o @]
           Is(f) == f = [k \in i .. N |->
                      IF k = N THEN Parsed(k, <<>>)
                      ELSE IF On(k) THEN Joined(k, f[item[k].at]) ELSE item[k]]
           from == CHOOSE f : Is(f)
           G == {k \in i .. n : On(k)}
           next == [k \in G |-> item[k].at]
           last == [k \in i .. N |-> IF k = N THEN Parsed(k, <<>>) ELSE item[k]]
           join == [p \in G \X State |-> Joined(p[1], p[2])]
<1>1. Items(src, i, item) = from[i]
  BY Zenon DEF Items
<1>2. N \in Nat /\ i \in Nat /\ i <= N /\ \A k \in i .. N : k # N => k \in i .. n
  OBVIOUS
<1>3. /\ \A k \in G : \A st \in State : Joined(k, st) \in State
      /\ \A k \in G : \A st \in good[item[k].at] : st \in State => Joined(k, st) \in good[k]
  OBVIOUS
<1>4. \A k \in G : k \in i .. n /\ item[k].at \in i .. N /\ item[k].at > k
  OBVIOUS
<1>5. \A k \in i .. N : last[k] \in good[k] /\ last[k] \in State
  OBVIOUS
<1>6. G \in SUBSET (i .. N)
  OBVIOUS
<1>7. \A k \in i .. N : k \in G <=> k # N /\ On(k)
  OBVIOUS
<1>8. last = [k \in i .. N |-> last[k]]
  OBVIOUS
<1>9. \A k \in i .. N : last[k] = IF k = N THEN Parsed(k, <<>>) ELSE item[k]
  OBVIOUS
<1> HIDE DEF last, G, N, Joined, On
<1>10. last \in [i .. N -> State]
  BY <1>5, <1>8
<1>11. next \in [G -> i .. N] /\ \A k \in G : next[k] > k /\ next[k] = item[k].at
  BY <1>4
<1>12. join \in [G \X State -> State]
  BY <1>3
<1> HIDE DEF next, join
<1>13. PICK f \in [i .. N -> State] :
         f = [k \in i .. N |-> IF k \in G THEN join[<<k, f[next[k]]>>] ELSE last[k]]
  <2>1. \A k \in G : next[k] > k
    BY <1>11
  <2>2. next \in [G -> i .. N]
    BY <1>11
  <2> QED
    <3>1. FromLater(i, N, State, last, G, next, join)
      BY <1>2, <1>6, <1>10, <1>12, <2>1, <2>2, Zenon DEF FromLater
    <3> QED
      BY <3>1, LaterExists
<1>14. \A k \in i .. N :
         (IF k \in G THEN join[<<k, f[next[k]]>>] ELSE last[k])
           = IF k = N THEN Parsed(k, <<>>)
             ELSE IF On(k) THEN Joined(k, f[item[k].at]) ELSE item[k]
  <2> SUFFICES ASSUME NEW k \in i .. N
               PROVE  (IF k \in G THEN join[<<k, f[next[k]]>>] ELSE last[k])
                        = IF k = N THEN Parsed(k, <<>>)
                          ELSE IF On(k) THEN Joined(k, f[item[k].at]) ELSE item[k]
    OBVIOUS
  <2>1. CASE k \in G
    <3>1. f[next[k]] \in State /\ next[k] = item[k].at
      BY <1>11, <2>1
    <3>2. join[<<k, f[next[k]]>>] = Joined(k, f[item[k].at])
      BY <2>1, <3>1 DEF join
    <3> QED
      BY <1>7, <2>1, <3>2
  <2>2. CASE k \notin G
    BY <1>7, <1>9, <2>2
  <2> QED
    BY <2>1, <2>2
<1>15. Is(f)
  <2>1. [k \in i .. N |-> IF k \in G THEN join[<<k, f[next[k]]>>] ELSE last[k]]
          = [k \in i .. N |-> IF k = N THEN Parsed(k, <<>>)
                              ELSE IF On(k) THEN Joined(k, f[item[k].at]) ELSE item[k]]
    BY <1>14, Zenon
  <2> QED
    BY <1>13, <2>1, Zenon
<1>16. Is(from)
  BY <1>15, Zenon
<1> HIDE DEF from
<1>17. \A k \in i .. N : from[k] = IF k = N THEN Parsed(k, <<>>)
                                   ELSE IF On(k) THEN Joined(k, from[item[k].at]) ELSE item[k]
  BY <1>16
<1> HIDE DEF Is
<1> DEFINE T == {m \in 0 .. N - i : \A k \in N - m .. N : from[k] \in good[k]}
<1>18. 0 \in T
  <2>1. from[N] = last[N] /\ N \in i .. N
    BY <1>2, <1>9, <1>17
  <2>2. from[N] \in good[N]
    BY <1>5, <2>1
  <2>3. \A k \in N - 0 .. N : k = N
    BY <1>2
  <2> QED
    BY <1>2, <2>2, <2>3
<1>19. ASSUME NEW m \in 1 .. N - i, m - 1 \in T PROVE m \in T
  <2> DEFINE p == N - m
  <2>1. p \in i .. N /\ p \in Nat /\ N - (m - 1) = p + 1 /\ p # N
    BY <1>2
  <2>2. \A k \in p + 1 .. N : from[k] \in good[k]
    BY <1>19, <2>1
  <2>3. from[p] = IF On(p) THEN Joined(p, from[item[p].at]) ELSE item[p]
    BY <1>17, <2>1
  <2>4. last[p] = item[p] /\ item[p] \in good[p]
    BY <1>5, <1>9, <2>1
  <2> HIDE DEF p
  <2>5. ASSUME On(p) PROVE from[p] \in good[p]
    <3>1. p \in G
      BY <1>7, <2>1, <2>5
    <3> DEFINE at == item[p].at
    <3>2. at \in i .. N /\ at > p
      BY <1>4, <3>1
    <3>3. at \in p + 1 .. N
      BY <1>2, <2>1, <3>2
    <3>4. from[at] \in good[at] /\ good[at] \subseteq State
      BY <2>2, <3>2, <3>3 DEF N
    <3>5. Joined(p, from[at]) \in good[p]
      BY <1>3, <3>1, <3>4
    <3> QED
      BY <2>3, <2>5, <3>5, Zenon
  <2>6. ASSUME ~ On(p) PROVE from[p] \in good[p]
    BY <2>3, <2>4, <2>6
  <2>7. from[p] \in good[p]
    BY <2>5, <2>6
  <2>8. \A k \in p .. N : from[k] \in good[k]
    <3> SUFFICES ASSUME NEW k \in p .. N PROVE from[k] \in good[k]
      OBVIOUS
    <3>1. k = p \/ k \in p + 1 .. N
      BY <1>2, <2>1
    <3> QED
      BY <2>2, <2>7, <3>1
  <2> QED
    BY <2>8 DEF p
<1> HIDE DEF T
<1>20. N - i \in Nat
  BY <1>2
<1>21. \A m \in 0 .. N - i : m \in T
  BY <1>18, <1>19, <1>20, UpTo
<1>22. N - i \in T /\ i \in N - (N - i) .. N
  BY <1>2, <1>20, <1>21
<1>23. from[i] \in good[i]
  BY <1>22 DEF T
<1> QED
  BY <1>1, <1>23

\* Where a run of decorators and modifiers ends.
LEMMA SkippedDecorators ==
  ASSUME NEW ts, TokenList(ts), NEW i \in 1 .. Len(ts) + 1
  PROVE  SkipDecorators(ts, i) \in i .. Len(ts) + 1
<1> DEFINE n == Len(ts)
           to(k) == SkipDecorator(ts, SkipModifiers(ts, k))
           one(k) == IF At(ts, SkipModifiers(ts, k)) = "@" THEN Parsed(to(k), <<>>)
                     ELSE LastParsed(k, <<>>)
           item == [k \in DOMAIN ts |-> one(k)]
           State == [at : i .. n + 1, out : {<<>>}, more : BOOLEAN]
           of(k) == [at : k .. n + 1, out : {<<>>}, more : BOOLEAN]
           good == [k \in i .. n + 1 |-> of(k)]
<1>1. n \in Nat /\ DOMAIN ts = 1 .. n
  BY DEF TokenList
<1>2. SkipDecorators(ts, i) = Items(ts, i, item).at
  BY Zenon DEF SkipDecorators
<1>3. ASSUME NEW k \in i .. n
      PROVE  item[k] \in of(k)
  <2>1. item[k] = one(k) /\ k \in 1 .. n
    BY <1>1
  <2>2. CASE At(ts, SkipModifiers(ts, k)) = "@"
    <3> DEFINE m == SkipModifiers(ts, k)
    <3>1. Sought(m, k, n)
      BY <2>1, SkippedModifiers
    <3>2. m \in 1 .. n
      BY <2>2, AtInside, Zenon
    <3> HIDE DEF m
    <3>3. SkipDecorator(ts, m) \in m + 1 .. n + 1
      BY <3>2, SkippedDecorator
    <3>4. SkipDecorator(ts, m) \in k .. n + 1
      BY <1>1, <2>1, <3>1, <3>2, <3>3 DEF Sought
    <3>5. to(k) \in k .. n + 1
      BY <3>4 DEF m
    <3>6. one(k) = Parsed(to(k), <<>>)
      BY <2>2
    <3>7. item[k] = [at |-> to(k), out |-> <<>>, more |-> TRUE]
      BY <2>1, <3>6, Zenon DEF Parsed
    <3> HIDE DEF to, item, n
    <3> QED
      BY <3>5, <3>7
  <2>3. CASE At(ts, SkipModifiers(ts, k)) # "@"
    <3>1. one(k) = LastParsed(k, <<>>)
      BY <2>3
    <3>2. k \in k .. n + 1
      BY <1>1, <2>1
    <3>3. item[k] = [at |-> k, out |-> <<>>, more |-> FALSE]
      BY <2>1, <3>1, Zenon DEF LastParsed
    <3> HIDE DEF item, n
    <3> QED
      BY <3>2, <3>3
  <2> QED
    BY <2>2, <2>3
<1>4. Parsed(n + 1, <<>>) \in of(n + 1)
  BY <1>1 DEF Parsed
<1>5. \A k \in i .. n + 1 : of(k) \subseteq State
  OBVIOUS
<1>6. \A k \in i .. n : \A x : \A st \in [at : x .. n + 1, out : {<<>>}, more : BOOLEAN] :
        [st EXCEPT !.out = item[k].out \o @] = st
  <2> SUFFICES ASSUME NEW k \in i .. n, NEW x,
                      NEW st \in [at : x .. n + 1, out : {<<>>}, more : BOOLEAN]
               PROVE  [st EXCEPT !.out = item[k].out \o @] = st
    OBVIOUS
  <2>1. item[k].out = <<>>
    BY <1>3
  <2>2. <<>> \o <<>> = <<>>
    BY EmptySeq, ConcatEmptySeq
  <2> HIDE DEF item
  <2>3. item[k].out \o st.out = <<>> /\ st.out = <<>>
    BY <2>1, <2>2
  <2> QED
    BY <2>3
<1>7. \A k \in i .. n + 1 : good[k] = of(k)
  OBVIOUS
<1>8. \A k \in i .. n : \A x \in k + 1 .. n + 1 : of(x) \subseteq of(k) /\ x \in i .. n + 1
  OBVIOUS
<1>9. n + 1 \in i .. n + 1 /\ i \in i .. n + 1
  BY <1>1
<1>10. \A k \in i .. n : k \in i .. n + 1
  OBVIOUS
<1>11. \A k \in i .. n + 1 : \A st \in of(k) : st.at \in k .. n + 1
  OBVIOUS
<1> HIDE DEF item, n, State, good
<1>12. \A k \in i .. n : item[k].more /\ item[k].at \in k + 1 .. n + 1 =>
         \A st \in State : /\ [st EXCEPT !.out = item[k].out \o @] \in State
                           /\ st \in good[item[k].at] =>
                                [st EXCEPT !.out = item[k].out \o @] \in good[k]
  <2> SUFFICES ASSUME NEW k \in i .. n, item[k].at \in k + 1 .. n + 1, NEW st \in State
               PROVE  /\ [st EXCEPT !.out = item[k].out \o @] \in State
                      /\ st \in good[item[k].at] => [st EXCEPT !.out = item[k].out \o @] \in good[k]
    OBVIOUS
  <2>1. [st EXCEPT !.out = item[k].out \o @] = st
    BY <1>6 DEF State
  <2>2. good[item[k].at] \subseteq good[k]
    BY <1>7, <1>8, <1>10, Zenon
  <2> QED
    BY <2>1, <2>2, Zenon
<1> HIDE DEF of
<1>13. Items(ts, i, item) \in good[i]
  <2>1. /\ \A k \in i .. n + 1 : good[k] \subseteq State
        /\ Parsed(n + 1, <<>>) \in good[n + 1]
        /\ \A k \in i .. n : item[k] \in good[k]
    BY <1>3, <1>4, <1>5, <1>7, <1>9, <1>10
  <2>2. Len(ts) = n /\ n \in Nat
    BY <1>1 DEF n
  <2>3. i \in 1 .. n + 1
    BY DEF n
  <2> QED
    BY <1>12, <2>1, <2>2, <2>3, ItemsHold, Zenon
<1> QED
  BY <1>2, <1>7, <1>9, <1>11, <1>13 DEF n

-----------------------------------------------------------------------------
(* Extents that nest                                                       *)

\* The extent of a symbol is in lo .. hi - 1, and no further than n.
ExtentIn(s, lo, hi, n) ==
  /\ "start" \in DOMAIN s /\ "end" \in DOMAIN s /\ s.start \in Nat /\ s.end \in Nat
  /\ lo <= s.start /\ s.start <= s.end /\ s.end < hi /\ s.end <= n

Nest(s, t) ==
  \/ s.end < t.start \/ t.end < s.start
  \/ s.start <= t.start /\ t.end <= s.end
  \/ t.start <= s.start /\ s.end <= t.end

Nested(syms, lo, hi, n) ==
  /\ IsSequence(syms)
  /\ \A s \in ToSet(syms) : ExtentIn(s, lo, hi, n)
  /\ \A s, t \in ToSet(syms) : Nest(s, t)

LEMMA NestedNone ==
  ASSUME NEW lo, NEW hi, NEW n
  PROVE  Nested(<<>>, lo, hi, n)
<1>1. ToSet(<<>>) = {} /\ <<>> \in Seq({})
  BY DEF ToSet
<1> QED
  BY <1>1 DEF Nested, IsSequence

LEMMA NestedOne ==
  ASSUME NEW s, NEW lo, NEW hi, NEW n, ExtentIn(s, lo, hi, n)
  PROVE  Nested(<<s>>, lo, hi, n)
<1>1. ToSet(<<s>>) = {s}
  BY DEF ToSet
<1>2. <<s>> \in Seq({s})
  OBVIOUS
<1>3. Nest(s, s)
  BY DEF ExtentIn, Nest
<1> QED
  BY <1>1, <1>2, <1>3, Zenon DEF Nested, IsSequence

LEMMA NestedWider ==
  ASSUME NEW syms, NEW n, NEW lo \in Nat, NEW hi \in Nat, Nested(syms, lo, hi, n),
         NEW low \in Nat, NEW high \in Nat, low <= lo, hi <= high
  PROVE  Nested(syms, low, high, n)
<1>1. ASSUME NEW s \in ToSet(syms) PROVE ExtentIn(s, low, high, n)
  <2>1. ExtentIn(s, lo, hi, n)
    BY DEF Nested
  <2> QED
    BY <2>1 DEF ExtentIn
<1> QED
  BY <1>1, Zenon DEF Nested

LEMMA NestedJoin ==
  ASSUME NEW a, NEW b, NEW lo \in Nat, NEW mid \in Nat, NEW hi \in Nat, NEW n,
         Nested(a, lo, mid, n), Nested(b, mid, hi, n), lo <= mid, mid <= hi
  PROVE  Nested(a \o b, lo, hi, n)
<1> DEFINE S == ToSet(a) \cup ToSet(b)
<1>1. a \in Seq(S) /\ b \in Seq(S)
  <2>1. a \in Seq(ToSet(a)) /\ b \in Seq(ToSet(b))
    BY Zenon DEF Nested, IsSequence
  <2>2. ToSet(a) \subseteq S /\ ToSet(b) \subseteq S
    OBVIOUS
  <2> HIDE DEF S
  <2> QED
    BY <2>1, <2>2, SeqMonotonic, Zenon
<1>2. a \o b \in Seq(S) /\ ToSet(a \o b) = S
  <2> HIDE DEF S
  <2>1. a \o b \in Seq(S) /\ ToSet(a \o b) = ToSet(a) \cup ToSet(b)
    BY <1>1, ToSetConcat
  <2> QED
    BY <2>1 DEF S
<1>3. \A s \in ToSet(a) : ExtentIn(s, lo, mid, n) /\ ExtentIn(s, lo, hi, n)
  BY DEF Nested, ExtentIn
<1>4. \A s \in ToSet(b) : ExtentIn(s, mid, hi, n) /\ ExtentIn(s, lo, hi, n)
  BY DEF Nested, ExtentIn
<1>5. ASSUME NEW s \in S, NEW t \in S PROVE Nest(s, t)
  <2>1. CASE s \in ToSet(a) /\ t \in ToSet(a)
    BY <2>1 DEF Nested
  <2>2. CASE s \in ToSet(b) /\ t \in ToSet(b)
    BY <2>2 DEF Nested
  <2>3. CASE s \in ToSet(a) /\ t \in ToSet(b)
    <3>1. ExtentIn(s, lo, mid, n) /\ ExtentIn(t, mid, hi, n)
      BY <1>3, <1>4, <2>3
    <3> QED
      BY <3>1 DEF ExtentIn, Nest
  <2>4. CASE s \in ToSet(b) /\ t \in ToSet(a)
    <3>1. ExtentIn(t, lo, mid, n) /\ ExtentIn(s, mid, hi, n)
      BY <1>3, <1>4, <2>4
    <3> QED
      BY <3>1 DEF ExtentIn, Nest
  <2> QED
    BY <2>1, <2>2, <2>3, <2>4
<1> QED
  BY <1>2, <1>3, <1>4, <1>5, Zenon DEF Nested, IsSequence

\* The places of a list of symbols.
LoopState(S, lo, n) == [at : lo .. n + 1, out : Seq(S), more : BOOLEAN]

\* A loop that is over, and a list that is put before a loop's.
LEMMA LoopOver ==
  ASSUME NEW S, NEW n \in Nat
  PROVE  /\ Parsed(n + 1, <<>>) \in LoopState(S, n + 1, n)
         /\ Parsed(n + 1, <<>>).out = <<>> /\ Parsed(n + 1, <<>>).at = n + 1
<1> DEFINE T == Seq(S)
<1>1. <<>> \in T /\ n + 1 \in n + 1 .. n + 1
  BY EmptySeq
<1> HIDE DEF T
<1>2. [at |-> n + 1, out |-> <<>>, more |-> TRUE] \in [at : n + 1 .. n + 1, out : T, more : BOOLEAN]
  BY <1>1
<1>3. Parsed(n + 1, <<>>) = [at |-> n + 1, out |-> <<>>, more |-> TRUE]
  BY Zenon DEF Parsed
<1>4. Parsed(n + 1, <<>>) \in LoopState(S, n + 1, n)
  BY <1>2, <1>3, Zenon DEF LoopState, T
<1> QED
  BY <1>3, <1>4

LoopJoin(next, before, st, S, k, n) ==
  next \in LoopState(S, k, n) /\ next.out = before \o st.out /\ next.at = st.at

LEMMA LoopJoined ==
  ASSUME NEW S, NEW i, NEW k, NEW n, NEW st \in LoopState(S, i, n), st.at \in k .. n + 1,
         NEW a \in Seq(S), NEW next, next = [st EXCEPT !.out = a \o @]
  PROVE  LoopJoin(next, a, st, S, k, n)
<1> DEFINE T == Seq(S)
           x == a \o st.out
<1>1. st \in [at : i .. n + 1, out : T, more : BOOLEAN]
  BY DEF LoopState
<1>2. st.out \in T
  BY <1>1
<1>3. x \in T
  BY <1>2, ToSetConcat
<1> HIDE DEF T, x
<1>4. next = [st EXCEPT !.out = x]
  BY DEF x
<1>5. next \in [at : k .. n + 1, out : T, more : BOOLEAN] /\ next.out = x /\ next.at = st.at
  BY <1>1, <1>3, <1>4
<1> QED
  BY <1>5, Zenon DEF LoopJoin, LoopState, x, T

\* A loop whose items nest, each from its place to the next, makes a list that
\* does.
LEMMA NestedItems ==
  ASSUME NEW src, NEW n \in Nat, Len(src) = n, NEW i \in 1 .. n + 1, NEW item,
         \A k \in i .. n : /\ item[k] \in [at : k .. n + 1, out : {item[k].out}, more : BOOLEAN]
                           /\ Nested(item[k].out, k, item[k].at, n)
  PROVE  /\ Items(src, i, item).at \in i .. n + 1
         /\ Nested(Items(src, i, item).out, i, Items(src, i, item).at, n)
<1> DEFINE S == UNION {ToSet(item[k].out) : k \in i .. n}
           State == LoopState(S, i, n)
           of(k) == {st \in LoopState(S, k, n) : Nested(st.out, k, st.at, n)}
           good == [k \in i .. n + 1 |-> of(k)]
<1>1. \A k \in i .. n + 1 : good[k] = of(k)
  OBVIOUS
<1>2. \A k \in i .. n + 1 : LoopState(S, k, n) \subseteq State
  <2> SUFFICES ASSUME NEW k \in i .. n + 1 PROVE LoopState(S, k, n) \subseteq LoopState(S, i, n)
    OBVIOUS
  <2>1. k .. n + 1 \subseteq i .. n + 1
    OBVIOUS
  <2> HIDE DEF S
  <2> QED
    BY <2>1 DEF LoopState
<1>3. Parsed(n + 1, <<>>) \in of(n + 1)
  <2>1. /\ Parsed(n + 1, <<>>) \in LoopState(S, n + 1, n)
        /\ Parsed(n + 1, <<>>).out = <<>> /\ Parsed(n + 1, <<>>).at = n + 1
    BY LoopOver
  <2> HIDE DEF S
  <2> QED
    BY <2>1, NestedNone
<1>4. ASSUME NEW k \in i .. n
      PROVE  item[k] \in of(k) /\ item[k].out \in Seq(S)
  <2> DEFINE syms == item[k].out
  <2>1. item[k] \in [at : k .. n + 1, out : {syms}, more : BOOLEAN] /\ Nested(syms, k, item[k].at, n)
    OBVIOUS
  <2>2. syms \in Seq(S)
    <3>1. syms \in Seq(ToSet(syms))
      BY <2>1, Zenon DEF Nested, IsSequence
    <3>2. ToSet(syms) \subseteq S
      OBVIOUS
    <3> HIDE DEF S, syms
    <3> QED
      BY <3>1, <3>2, SeqMonotonic, Zenon
  <2> HIDE DEF S
  <2>3. item[k] \in LoopState(S, k, n)
    BY <2>1, <2>2 DEF LoopState
  <2> QED
    BY <2>1, <2>2, <2>3
<1>5. ASSUME NEW k \in i .. n, item[k].at \in k + 1 .. n + 1, NEW st \in State
      PROVE  /\ [st EXCEPT !.out = item[k].out \o @] \in State
             /\ st \in good[item[k].at] => [st EXCEPT !.out = item[k].out \o @] \in good[k]
  <2> DEFINE a == item[k].out
             mid == item[k].at
             next == [st EXCEPT !.out = a \o @]
  <2>1. a \in Seq(S) /\ Nested(a, k, mid, n)
    BY <1>4
  <2>0. next = [st EXCEPT !.out = a \o @]
    OBVIOUS
  <2> HIDE DEF S, a, mid, next
  <2>2. st.at \in i .. n + 1
    BY DEF LoopState
  <2>3. next \in State
    <3>1. LoopJoin(next, a, st, S, i, n)
      BY <2>1, <2>2, <2>0, LoopJoined, Zenon
    <3> QED
      BY <3>1, Zenon DEF LoopJoin
  <2>4. ASSUME st \in good[mid] PROVE next \in good[k]
    <3>1. mid \in k + 1 .. n + 1 /\ mid \in i .. n + 1 /\ k \in i .. n + 1 /\ mid \in Nat /\ k \in Nat
      BY <1>5 DEF mid
    <3>2. st \in LoopState(S, mid, n) /\ Nested(st.out, mid, st.at, n)
      BY <1>1, <2>4, <3>1
    <3>3. st.at \in mid .. n + 1
      BY <3>2 DEF LoopState
    <3>4. st.at \in Nat /\ mid <= st.at /\ k <= mid /\ st.at \in k .. n + 1
      BY <3>1, <3>3
    <3>5. Nested(a \o st.out, k, st.at, n)
      BY <2>1, <3>1, <3>2, <3>4, NestedJoin
    <3>6. next \in LoopState(S, k, n) /\ next.out = a \o st.out /\ next.at = st.at
      <4>1. a \in Seq(S) /\ st.at \in k .. n + 1 /\ st \in LoopState(S, mid, n)
        BY <2>1, <3>2, <3>4
      <4>2. LoopJoin(next, a, st, S, k, n)
        BY <2>0, <4>1, LoopJoined, Zenon
      <4> QED
        BY <4>2, Zenon DEF LoopJoin
    <3>7. next \in of(k)
      BY <3>5, <3>6
    <3> QED
      BY <1>1, <3>1, <3>7
  <2> QED
    BY <2>3, <2>4 DEF a, mid, next
<1>6. n + 1 \in i .. n + 1 /\ i \in i .. n + 1 /\ \A k \in i .. n : k \in i .. n + 1
  OBVIOUS
<1>7. \A k \in i .. n + 1 : of(k) \subseteq State
  BY <1>2
<1>8. \A k \in i .. n : item[k].more /\ item[k].at \in k + 1 .. n + 1 =>
         \A st \in State : /\ [st EXCEPT !.out = item[k].out \o @] \in State
                           /\ st \in good[item[k].at] =>
                                [st EXCEPT !.out = item[k].out \o @] \in good[k]
  BY <1>5
<1>9. \A st \in of(i) : st.at \in i .. n + 1 /\ Nested(st.out, i, st.at, n)
  BY DEF LoopState
<1> HIDE DEF State, good, of
<1>10. Items(src, i, item) \in good[i]
  <2>1. /\ \A k \in i .. n + 1 : good[k] \subseteq State
        /\ Parsed(n + 1, <<>>) \in good[n + 1]
        /\ \A k \in i .. n : item[k] \in good[k]
    BY <1>1, <1>3, <1>4, <1>6, <1>7
  <2> QED
    BY <1>8, <2>1, ItemsHold, Zenon
<1> QED
  BY <1>1, <1>6, <1>9, <1>10

-----------------------------------------------------------------------------
(* What the parsers make of a place                                        *)

\* A function or method that was read ends within what was read of it.
EndsWithin(c, start, i, n) ==
  \/ c.at = 0
  \/ /\ c.at \in i + 1 .. n + 1 /\ c.end \in start .. n /\ c.end < c.at

LEMMA CallableFromEnds ==
  ASSUME NEW ts, TokenList(ts), NEW start \in Nat, NEW i \in Nat, NEW r \in i + 1 .. Len(ts) + 1,
         start <= i, NEW params
  PROVE  EndsWithin(CallableFrom(ts, r, start, params), start, i, Len(ts))
<1> DEFINE c == CallableFrom(ts, r, start, params)
           end == Match(ts, r, "{", "}")
           n == Len(ts)
<1>1. c = CASE At(ts, r) = "{" -> IF end > Len(ts) THEN [at |-> 0]
                                  ELSE [at |-> end + 1, end |-> end, params |-> params]
            [] At(ts, r) = ";" -> [at |-> r + 1, end |-> r, params |-> params]
            [] OTHER -> [at |-> r, end |-> start, params |-> params]
  BY Zenon DEF CallableFrom
<1>2. n \in Nat /\ r \in Nat
  BY DEF TokenList
<1>3. Sought(end, r + 1, n)
  BY <1>2, MatchFound, Zenon
<1>4. ASSUME At(ts, r) \in {"{", ";"} PROVE r <= n
  <2>1. At(ts, r) # ""
    BY <1>4, Zenon
  <2>2. r \in 1 .. Len(ts)
    BY <2>1, AtInside, Zenon
  <2> QED
    BY <1>2, <2>2
<1> HIDE DEF c, end, n
<1>5. CASE At(ts, r) = "{" /\ end > n
  <2>1. c = [at |-> 0]
    BY <1>1, <1>5, Zenon DEF n
  <2>2. c.at = 0
    BY <2>1
  <2> QED
    BY <2>2 DEF EndsWithin, c
<1>6. CASE At(ts, r) = "{" /\ end <= n
  <2>1. c = [at |-> end + 1, end |-> end, params |-> params]
    <3>1. end \in Nat
      BY <1>3 DEF Sought
    <3>2. end <= n
      BY <1>6, Zenon
    <3>3. ~ (end > n)
      BY <1>2, <3>1, <3>2
    <3> QED
      BY <1>1, <1>6, <3>3, Zenon DEF n
  <2>2. c.at = end + 1 /\ c.end = end
    BY <2>1
  <2>3. r \in i + 1 .. n + 1
    BY DEF n
  <2>4. end \in Nat /\ end <= n
    BY <1>3, <1>6, Zenon DEF Sought
  <2>5. end >= r + 1
    BY <1>2, <1>3, <2>3, <2>4 DEF Sought
  <2>6. end + 1 \in i + 1 .. n + 1 /\ end \in start .. n /\ end < end + 1
    BY <1>2, <2>3, <2>4, <2>5
  <2> QED
    BY <2>2, <2>6 DEF EndsWithin, c, n
<1>7. CASE At(ts, r) = ";"
  <2>1. c = [at |-> r + 1, end |-> r, params |-> params]
    BY <1>1, <1>7, Zenon
  <2>2. c.at = r + 1 /\ c.end = r
    BY <2>1
  <2>3. r \in i + 1 .. n
    <3>1. r <= n
      BY <1>4, <1>7, Zenon
    <3> QED
      BY <1>2, <3>1 DEF n
  <2>6. r + 1 \in i + 1 .. n + 1 /\ r \in start .. n /\ r < r + 1
    BY <1>2, <2>3
  <2> QED
    BY <2>2, <2>6 DEF EndsWithin, c, n
<1>8. CASE At(ts, r) \notin {"{", ";"}
  <2>1. c = [at |-> r, end |-> start, params |-> params]
    BY <1>1, <1>8, Zenon
  <2>2. c.at = r /\ c.end = start
    BY <2>1
  <2>3. r \in i + 1 .. n + 1
    BY DEF n
  <2>6. r \in i + 1 .. n + 1 /\ start \in start .. n /\ start < r
    BY <1>2, <2>3
  <2> QED
    BY <2>2, <2>6 DEF EndsWithin, c, n
<1>9. end > n \/ end <= n
  BY <1>2, <1>3 DEF Sought
<1> QED
  BY <1>5, <1>6, <1>7, <1>8, <1>9, Zenon DEF c, n

LEMMA CallableEnds ==
  ASSUME NEW ts, TokenList(ts), NEW start \in Nat, NEW i \in Nat, start <= i
  PROVE  EndsWithin(Callable(ts, i, start), start, i, Len(ts))
<1> DEFINE close == Match(ts, i, "(", ")")
           r == SkipReturnType(ts, close + 1)
           params == ParamNames(SubSeq(ts, i + 1, close - 1))
<1>1. Callable(ts, i, start) = IF ~ Captured(ts, i, "(", ")") THEN [at |-> 0]
                               ELSE CallableFrom(ts, r, start, params)
  BY Zenon DEF Callable
<1> HIDE DEF params
<1>2. CASE ~ Captured(ts, i, "(", ")")
  <2>1. Callable(ts, i, start).at = 0
    BY <1>1, <1>2
  <2> QED
    BY <2>1 DEF EndsWithin
<1>3. CASE Captured(ts, i, "(", ")")
  <2>1. Sought(close, i + 1, Len(ts))
    BY MatchFound
  <2>2. close <= Len(ts) /\ At(ts, i) = "("
    BY <1>3 DEF Captured
  <2> HIDE DEF close
  <2>3. Len(ts) \in Nat /\ close \in i + 1 .. Len(ts)
    BY <2>1, <2>2 DEF Sought, TokenList
  <2>4. close + 1 \in Nat
    BY <2>3
  <2>5. r = close + 1 \/ Sought(r, close + 2, Len(ts))
    <3>1. r = close + 1 \/ Sought(r, (close + 1) + 1, Len(ts))
      BY <2>4, SkippedReturnType
    <3>2. (close + 1) + 1 = close + 2
      BY <2>3
    <3> QED
      BY <3>1, <3>2
  <2> HIDE DEF r
  <2>6. r \in i + 1 .. Len(ts) + 1
    BY <2>3, <2>5 DEF Sought
  <2>7. EndsWithin(CallableFrom(ts, r, start, params), start, i, Len(ts))
    BY <2>6, CallableFromEnds
  <2> QED
    BY <1>1, <1>3, <2>7
<1> QED
  BY <1>2, <1>3

\* What a parser makes of the place i: nothing, or it goes on after i, and the
\* symbols it records begin at `start` or later and nest.
Advances(d, start, i, n) ==
  d.at = 0 \/ /\ d \in [at : i + 1 .. n + 1, out : {d.out}, more : BOOLEAN]
              /\ Nested(d.out, start, d.at, n)

LEMMA NothingAdvances ==
  ASSUME NEW start, NEW i, NEW n
  PROVE  Advances(Nothing, start, i, n)
<1>1. Nothing.at = 0
  BY DEF Nothing, Parsed
<1> QED
  BY <1>1 DEF Advances

LEMMA ParsedAdvances ==
  ASSUME NEW at, NEW syms, NEW start, NEW i \in Nat, NEW n \in Nat,
         at \in i + 1 .. n + 1, Nested(syms, start, at, n)
  PROVE  Advances(Parsed(at, syms), start, i, n)
<1> DEFINE d == Parsed(at, syms)
<1>1. d = [at |-> at, out |-> syms, more |-> TRUE]
  BY DEF Parsed
<1>2. d.at = at /\ d.out = syms
  BY <1>1
<1>3. d \in [at : i + 1 .. n + 1, out : {syms}, more : BOOLEAN]
  BY <1>1
<1> HIDE DEF d
<1> QED
  BY <1>2, <1>3, Zenon DEF Advances, d

\* The extent of a symbol that is recorded.
LEMMA SymbolExtent ==
  ASSUME NEW name, NEW kind, NEW exported, NEW params, NEW start \in Nat, NEW end \in Nat,
         NEW hi \in Nat, NEW n \in Nat, start <= end, end < hi, end <= n
  PROVE  ExtentIn(Symbol(name, kind, exported, start, end, params), start, hi, n)
<1> DEFINE s == Symbol(name, kind, exported, start, end, params)
<1>1. s = [name |-> name, kind |-> kind, exported |-> exported, start |-> start,
           end |-> end, params |-> params, class |-> ""]
  BY DEF Symbol
<1> HIDE DEF s
<1>2. s.start = start /\ s.end = end
  BY <1>1, Zenon
<1>4. DOMAIN s = {"name", "kind", "exported", "start", "end", "params", "class"}
  BY <1>1, Zenon
<1>3. ExtentIn(s, start, hi, n)
  BY <1>2, <1>4 DEF ExtentIn
<1> QED
  BY <1>3 DEF s

LEMMA FunctionAdvances ==
  ASSUME NEW ts, TokenList(ts), NEW i \in Nat, NEW exported, NEW start \in Nat, start <= i
  PROVE  Advances(ParseFunction(ts, i, exported, start), start, i, Len(ts))
<1> DEFINE n == IF At(ts, i + 1) = "*" THEN i + 2 ELSE i + 1
           p == SkipGenericParams(ts, n + 1)
           c == Callable(ts, p, start)
           name == At(ts, n)
           f == Symbol(name, "function", exported, start, c.end, c.params)
<1>1. ParseFunction(ts, i, exported, start)
        = IF name \notin Names \/ c.at = 0 THEN Nothing ELSE Parsed(c.at, <<f>>)
  BY Zenon DEF ParseFunction, FunctionOf
<1> HIDE DEF f
<1>2. CASE name \notin Names \/ c.at = 0
  BY <1>1, <1>2, NothingAdvances
<1>3. CASE ~ (name \notin Names \/ c.at = 0)
  <2>1. Len(ts) \in Nat
    BY DEF TokenList
  <2>2. n \in Nat /\ n > i
    OBVIOUS
  <2> HIDE DEF n
  <2>3. n \in 1 .. Len(ts)
    <3>1. name # ""
      BY <1>3, Zenon DEF Names
    <3> QED
      BY <3>1, AtInside, Zenon
  <2>4. p \in Nat /\ p >= n + 1
    <3>1. /\ p \in Nat
          /\ p = n + 1 \/ ((n + 1) + 1 <= p /\ p <= Len(ts) + 1)
      BY <2>2, SkippedGenericParams
    <3> HIDE DEF p
    <3> QED
      BY <2>2, <3>1
  <2> HIDE DEF p
  <2>5. EndsWithin(c, start, p, Len(ts))
    <3>1. start <= p
      BY <2>2, <2>4
    <3> QED
      BY <2>4, <3>1, CallableEnds
  <2> HIDE DEF c
  <2>6. c.at \in p + 1 .. Len(ts) + 1 /\ c.end \in start .. Len(ts) /\ c.end < c.at
    BY <1>3, <2>5 DEF EndsWithin
  <2> DEFINE end == c.end
             at == c.at
  <2>7. end \in Nat /\ at \in Nat /\ start <= end /\ end < at /\ end <= Len(ts)
        /\ at \in i + 1 .. Len(ts) + 1
    BY <2>1, <2>2, <2>4, <2>6
  <2>8. f = Symbol(name, "function", exported, start, end, c.params)
    BY DEF f
  <2> HIDE DEF end, at, name
  <2>9. ExtentIn(f, start, at, Len(ts))
    BY <2>1, <2>7, <2>8, SymbolExtent
  <2>10. Nested(<<f>>, start, at, Len(ts))
    BY <2>9, NestedOne
  <2>11. Advances(Parsed(at, <<f>>), start, i, Len(ts))
    BY <2>1, <2>7, <2>10, ParsedAdvances
  <2> QED
    BY <1>1, <1>3, <2>11 DEF at
<1> QED
  BY <1>2, <1>3

\* To which class a symbol belongs changes no extent.
LEMMA ClassKeepsExtent ==
  ASSUME NEW s, NEW lo, NEW hi, NEW n, ExtentIn(s, lo, hi, n), NEW x
  PROVE  /\ [s EXCEPT !.class = x].start = s.start /\ [s EXCEPT !.class = x].end = s.end
         /\ ExtentIn([s EXCEPT !.class = x], lo, hi, n)
<1> DEFINE t == [s EXCEPT !.class = x]
<1>1. "start" \in DOMAIN s /\ "end" \in DOMAIN s
  BY DEF ExtentIn
<1>2. t = [f \in DOMAIN s |-> IF f = "class" THEN x ELSE s[f]]
  BY Zenon
<1> HIDE DEF t
<1>3. t.start = s.start /\ t.end = s.end /\ "start" \in DOMAIN t /\ "end" \in DOMAIN t
  BY <1>1, <1>2
<1>4. ExtentIn(t, lo, hi, n)
  BY <1>3 DEF ExtentIn
<1> QED
  BY <1>3, <1>4 DEF t

LEMMA NestedMembers ==
  ASSUME NEW syms, NEW lo, NEW hi, NEW n, Nested(syms, lo, hi, n), NEW x
  PROVE  Nested([k \in DOMAIN syms |-> [syms[k] EXCEPT !.class = x]], lo, hi, n)
<1> DEFINE of(s) == [s EXCEPT !.class = x]
           ms == [k \in DOMAIN syms |-> of(syms[k])]
           S == {of(s) : s \in ToSet(syms)}
<1>1. syms \in Seq(ToSet(syms))
  BY Zenon DEF Nested, IsSequence
<1>2. Len(syms) \in Nat /\ DOMAIN syms = 1 .. Len(syms) /\ \A k \in 1 .. Len(syms) : syms[k] \in ToSet(syms)
  <2>1. Len(syms) \in Nat /\ DOMAIN syms = 1 .. Len(syms)
    BY <1>1, LenProperties
  <2> QED
    BY <2>1 DEF ToSet
<1>3. \A s \in ToSet(syms) : /\ of(s).start = s.start /\ of(s).end = s.end
                             /\ ExtentIn(of(s), lo, hi, n)
  BY ClassKeepsExtent DEF Nested
<1>4. \A s, t \in ToSet(syms) : Nest(s, t)
  BY DEF Nested
<1> HIDE DEF of
<1>5. ms = [k \in 1 .. Len(syms) |-> of(syms[k])] /\ \A k \in 1 .. Len(syms) : of(syms[k]) \in S
  BY <1>2
<1>6. ms \in Seq(S) /\ Len(ms) = Len(syms) /\ DOMAIN ms = 1 .. Len(syms)
  <2> HIDE DEF S, ms
  <2>1. ms \in Seq(S)
    BY <1>2, <1>5, IsASeq
  <2>2. DOMAIN ms = 1 .. Len(syms)
    BY <1>5
  <2> QED
    BY <1>2, <2>1, <2>2, LenProperties
<1>7. ToSet(ms) \subseteq S
  BY <1>2, <1>5, <1>6 DEF ToSet
<1>8. IsSequence(ms)
  <2>1. ms \in Seq(ToSet(ms))
    <3>1. \A k \in 1 .. Len(syms) : ms[k] \in ToSet(ms)
      BY <1>6 DEF ToSet
    <3>2. ms = [k \in 1 .. Len(syms) |-> ms[k]]
      BY <1>5, Zenon
    <3> HIDE DEF ms
    <3> QED
      BY <1>2, <3>1, <3>2, IsASeq
  <2> QED
    BY <2>1 DEF IsSequence
<1> HIDE DEF ms
<1>9. \A s \in S : ExtentIn(s, lo, hi, n)
  BY <1>3
<1>10. \A s, t \in S : Nest(s, t)
  <2> SUFFICES ASSUME NEW a \in ToSet(syms), NEW b \in ToSet(syms) PROVE Nest(of(a), of(b))
    OBVIOUS
  <2>1. Nest(a, b)
    BY <1>4
  <2> QED
    BY <1>3, <2>1 DEF Nest
<1> HIDE DEF S
<1>11. Nested(ms, lo, hi, n)
  BY <1>7, <1>8, <1>9, <1>10 DEF Nested
<1> QED
  BY <1>11 DEF ms, of

LEMMA NestedAppend ==
  ASSUME NEW syms, NEW lo, NEW hi, NEW n, Nested(syms, lo, hi, n),
         NEW c, ExtentIn(c, lo, hi, n), \A s \in ToSet(syms) : Nest(s, c)
  PROVE  Nested(Append(syms, c), lo, hi, n)
<1> DEFINE S == ToSet(syms) \cup {c}
           more == Append(syms, c)
<1>1. syms \in Seq(ToSet(syms))
  BY Zenon DEF Nested, IsSequence
<1>2. syms \in Seq(S) /\ c \in S
  <2>1. ToSet(syms) \subseteq S /\ c \in S
    OBVIOUS
  <2> HIDE DEF S
  <2> QED
    BY <1>1, <2>1, SeqMonotonic, Zenon
<1>3. more \in Seq(S) /\ ToSet(more) = S
  <2> HIDE DEF S
  <2>1. more \in Seq(S)
    BY <1>2, AppendProperties
  <2>2. ToSet(more) = ToSet(syms) \cup {c}
    BY <1>2, AppendElements
  <2> QED
    BY <2>1, <2>2 DEF S
<1> HIDE DEF more
<1>4. \A s \in S : ExtentIn(s, lo, hi, n)
  BY DEF Nested
<1>5. Nest(c, c)
  BY DEF ExtentIn, Nest
<1>6. \A s \in ToSet(syms) : Nest(c, s)
  <2> SUFFICES ASSUME NEW s \in ToSet(syms), Nest(s, c) PROVE Nest(c, s)
    OBVIOUS
  <2> QED
    BY Zenon DEF Nest
<1>7. \A s, t \in S : Nest(s, t)
  BY <1>5, <1>6 DEF Nested
<1>8. Nested(more, lo, hi, n)
  BY <1>3, <1>4, <1>7, Zenon DEF Nested, IsSequence
<1> QED
  BY <1>8 DEF more

-----------------------------------------------------------------------------
(* Classes                                                                 *)

\* A member from i on: the loop goes on at i or later.
Member(m, i, n) ==
  m \in [at : i .. n + 1, out : {m.out}, more : BOOLEAN] /\ Nested(m.out, i, m.at, n)

LEMMA MemberIs ==
  ASSUME NEW at, NEW syms, NEW i \in Nat, NEW n \in Nat, NEW m,
         m = Parsed(at, syms) \/ m = LastParsed(at, syms),
         at \in i .. n + 1, Nested(syms, i, at, n)
  PROVE  Member(m, i, n)
<1>1. PICK b \in BOOLEAN : m = [at |-> at, out |-> syms, more |-> b]
  BY DEF Parsed, LastParsed
<1>2. m.at = at /\ m.out = syms
  BY <1>1
<1>3. m \in [at : i .. n + 1, out : {syms}, more : BOOLEAN]
  BY <1>1
<1> QED
  BY <1>2, <1>3, Zenon DEF Member

LEMMA MethodIsMember ==
  ASSUME NEW ts, TokenList(ts), NEW i \in 1 .. Len(ts) + 1, NEW p \in Nat, p >= i,
         NEW name, NEW exported
  PROVE  Member(MemberFrom(ts, i, p, name, exported), i, Len(ts))
<1> DEFINE n == Len(ts)
           c == Callable(ts, p, i)
           symbol == Symbol(name, "method", exported, i, c.end, c.params)
           method == [symbol EXCEPT !.class = "this"]
           m == MemberFrom(ts, i, p, name, exported)
           x == SkipUntilSemiOrEnd(ts, p)
           syms == IF name = "" THEN <<>> ELSE <<method>>
<1>1. /\ At(ts, p) # "(" => m = Parsed(x, <<>>)
      /\ At(ts, p) = "(" /\ c.at = 0 => m = Parsed(i, <<>>)
      /\ At(ts, p) = "(" /\ c.at # 0 => m = Parsed(c.at, syms)
  BY Zenon DEF MemberFrom, MethodOf
<1>2. n \in Nat /\ i \in Nat /\ i <= n + 1
  BY DEF TokenList
<1> HIDE DEF method, m
<1>3. CASE m = Parsed(x, <<>>)
  <2>1. Sought(x, p, n)
    BY SkippedUntilSemiOrEnd
  <2> HIDE DEF x, n
  <2>2. x \in i .. n + 1
    BY <1>2, <2>1 DEF Sought
  <2>3. Nested(<<>>, i, x, n)
    BY NestedNone
  <2>4. Member(m, i, n)
    BY <1>2, <1>3, <2>2, <2>3, MemberIs
  <2> QED
    BY <2>4 DEF m, n
<1>4. CASE m = Parsed(i, <<>>)
  <2>1. i \in i .. n + 1
    BY <1>2
  <2>2. Nested(<<>>, i, i, n)
    BY NestedNone
  <2> HIDE DEF n
  <2>3. Member(m, i, n)
    BY <1>2, <1>4, <2>1, <2>2, MemberIs
  <2> QED
    BY <2>3 DEF m, n
<1>5. CASE m = Parsed(c.at, syms) /\ c.at # 0
  <2> DEFINE at == c.at
             end == c.end
  <2>1. EndsWithin(c, i, p, n)
    BY <1>2, CallableEnds
  <2>2. at \in p + 1 .. n + 1 /\ end \in i .. n /\ end < at
    BY <1>5, <2>1, Zenon DEF EndsWithin
  <2>3. symbol = Symbol(name, "method", exported, i, end, c.params)
    OBVIOUS
  <2>4. m = Parsed(at, syms)
    BY <1>5, Zenon
  <2> HIDE DEF c, at, end, n, symbol
  <2>5. at \in Nat /\ end \in Nat /\ i <= end /\ end < at /\ end <= n /\ at \in i .. n + 1
    BY <1>2, <2>2
  <2>6. ExtentIn(symbol, i, at, n)
    BY <1>2, <2>3, <2>5, SymbolExtent
  <2>7. ExtentIn(method, i, at, n)
    BY <2>6, ClassKeepsExtent DEF method
  <2>8. Nested(<<method>>, i, at, n) /\ Nested(<<>>, i, at, n)
    BY <2>7, NestedOne, NestedNone
  <2>9. Nested(syms, i, at, n)
    BY <2>8, Zenon
  <2> HIDE DEF syms
  <2>10. Member(m, i, n)
    BY <1>2, <2>4, <2>5, <2>9, MemberIs
  <2> QED
    BY <2>10 DEF m, n
<1> QED
  BY <1>1, <1>3, <1>4, <1>5, Zenon

LEMMA MemberAtIs ==
  ASSUME NEW ts, TokenList(ts), NEW i \in 1 .. Len(ts) + 1, NEW exported
  PROVE  Member(MemberAt(ts, i, exported), i, Len(ts))
<1> DEFINE N == Len(ts)
           m == SkipModifiers(ts, i)
           isStatic == \E j \in i .. m - 1 : ts[j] = "static"
           star == At(ts, m) = "*"
           n == IF star THEN m + 1 ELSE m
           named == At(ts, n) \in Names \cup Keywords
           computed == Captured(ts, n, "[", "]")
           close == Match(ts, n, "[", "]")
           q == CASE named -> n + 1 [] computed -> close + 1 [] OTHER -> n
           optional == At(ts, q) = "?"
           q2 == IF optional THEN q + 1 ELSE q
           p == SkipGenericParams(ts, q2)
           name == IF named THEN ts[n] ELSE ""
           d == MemberAt(ts, i, exported)
           x == SkipBalanced(ts, m)
<1>1. d = IF isStatic /\ At(ts, m) = "{" THEN Parsed(x, <<>>)
          ELSE IF ~ named /\ ~ computed /\ At(ts, n) # "(" THEN Parsed(i, <<>>)
          ELSE MemberFrom(ts, i, p, name, exported)
  BY Zenon DEF MemberAt
<1>2. N \in Nat /\ i \in Nat /\ i <= N + 1
  BY DEF TokenList
<1>3. Sought(m, i, N)
  BY <1>2, SkippedModifiers
<1> HIDE DEF isStatic, name
<1>4. CASE isStatic /\ At(ts, m) = "{"
  <2>1. At(ts, m) # "" /\ At(ts, m) \in {"{", "[", "("}
    BY <1>4, Zenon
  <2>2. m \in 1 .. N
    BY <2>1, AtInside, Zenon
  <2>3. m \in Nat
    BY <2>2
  <2>4. x \in Nat /\ x > m /\ (x = m \/ (m + 1 <= x /\ x <= N + 1))
    BY <2>1, <2>3, SkippedBalanced, Zenon
  <2>5. d = Parsed(x, <<>>)
    BY <1>1, <1>4, Zenon
  <2> HIDE DEF m, x, N, d
  <2>6. x \in i .. N + 1
    BY <1>2, <1>3, <2>2, <2>4 DEF Sought
  <2>7. Nested(<<>>, i, x, N)
    BY NestedNone
  <2>8. Member(d, i, N)
    BY <1>2, <2>5, <2>6, <2>7, MemberIs
  <2> QED
    BY <2>8 DEF d, N
<1>5. CASE d = Parsed(i, <<>>)
  <2>1. i \in i .. N + 1
    BY <1>2
  <2>2. Nested(<<>>, i, i, N)
    BY NestedNone
  <2> HIDE DEF N, d
  <2>3. Member(d, i, N)
    BY <1>2, <1>5, <2>1, <2>2, MemberIs
  <2> QED
    BY <2>3 DEF d, N
<1>6. CASE d = MemberFrom(ts, i, p, name, exported)
  <2>1. m \in Nat /\ m >= i
    <3> HIDE DEF m, N
    <3> QED
      BY <1>2, <1>3 DEF Sought
  <2>2. n \in Nat /\ n >= i
    <3> HIDE DEF m, star
    <3> QED
      BY <1>2, <2>1
  <2>3. q \in Nat /\ q >= i
    <3>1. Sought(close, n + 1, N)
      BY <2>2, MatchFound
    <3>2. q \in {n, n + 1, close + 1}
      BY Zenon
    <3>3. computed /\ ~ named => close <= N /\ At(ts, n) = "["
      BY Zenon DEF Captured
    <3>4. computed /\ ~ named => n \in 1 .. N
      <4>1. computed /\ ~ named => At(ts, n) # ""
        BY <3>3, Zenon
      <4> QED
        BY <4>1, AtInside, Zenon
    <3>5. computed /\ ~ named => q = close + 1
      BY Zenon
    <3>6. ~ (computed /\ ~ named) => q = n \/ q = n + 1
      <4>3. "[" \notin Names \cup Keywords
        BY DEF Names, Keywords, ModifierWords, MemberModifiers, Visibility, DeclarationWords
      <4>4. named => ~ computed
        BY <4>3, Zenon DEF Captured
      <4>1. named => q = n + 1
        BY <4>4, Zenon
      <4>2. ~ named /\ ~ computed => q = n
        BY Zenon
      <4> QED
        BY <4>1, <4>2, Zenon
    <3> HIDE DEF q, n, close, N, computed, named
    <3>7. close \in Nat
      BY <3>1 DEF Sought
    <3>8. CASE computed /\ ~ named
      <4>1. close >= n + 1
        BY <1>2, <2>2, <3>1, <3>3, <3>8 DEF Sought
      <4> QED
        BY <2>2, <3>5, <3>7, <3>8, <4>1, <1>2
    <3>9. CASE ~ (computed /\ ~ named)
      BY <2>2, <3>6, <3>9, <1>2
    <3> QED
      BY <3>8, <3>9
  <2>4. q2 \in Nat /\ q2 >= i
    <3> HIDE DEF q, optional
    <3> QED
      BY <1>2, <2>3
  <2>5. p \in Nat /\ (p = q2 \/ (q2 + 1 <= p /\ p <= Len(ts) + 1))
    BY <2>4, SkippedGenericParams
  <2> HIDE DEF p, q2
  <2>6. p >= i
    BY <1>2, <2>4, <2>5
  <2>7. Member(MemberFrom(ts, i, p, name, exported), i, Len(ts))
    BY <2>5, <2>6, MethodIsMember
  <2> QED
    BY <1>6, <2>7, Zenon
<1> QED
  BY <1>1, <1>4, <1>5, <1>6, Zenon

LEMMA ClassMemberIs ==
  ASSUME NEW ts, TokenList(ts), NEW i \in 1 .. Len(ts), NEW exported
  PROVE  Member(ParseClassMember(ts, i, exported), i, Len(ts))
<1> DEFINE n == Len(ts)
           d == ParseClassMember(ts, i, exported)
           s == SkipDecorators(ts, i)
           m == MemberAt(ts, s, exported)
<1>1. d = IF ts[i] = "}" THEN LastParsed(i, <<>>)
          ELSE IF m.at = i THEN [m EXCEPT !.at = i + 1] ELSE m
  BY Zenon DEF ParseClassMember
<1>2. n \in Nat /\ i \in Nat /\ i <= n
  BY DEF TokenList
<1>3. s \in i .. n + 1
  <2>1. i \in 1 .. n + 1
    BY <1>2
  <2> QED
    BY <2>1, SkippedDecorators
<1>4. Member(m, s, n)
  <2>1. s \in 1 .. n + 1
    BY <1>2, <1>3
  <2> QED
    BY <2>1, MemberAtIs
<1> HIDE DEF d, s, m, n
<1>5. m \in [at : s .. n + 1, out : {m.out}, more : BOOLEAN] /\ Nested(m.out, s, m.at, n)
  BY <1>4 DEF Member
<1>6. CASE d = LastParsed(i, <<>>)
  <2>1. i \in i .. n + 1
    BY <1>2
  <2>2. Nested(<<>>, i, i, n)
    BY NestedNone
  <2>3. Member(d, i, n)
    BY <1>2, <1>6, <2>1, <2>2, MemberIs
  <2> QED
    BY <2>3 DEF d, n
<1>7. CASE m.at = i /\ d = [m EXCEPT !.at = i + 1]
  <2>1. d = [at |-> i + 1, out |-> m.out, more |-> m.more]
    BY <1>5, <1>7
  <2>2. m.more \in BOOLEAN /\ i + 1 \in i .. n + 1
    BY <1>2, <1>5
  <2>3. s = i
    BY <1>2, <1>3, <1>5, <1>7
  <2>4. Nested(m.out, i, i, n)
    BY <1>5, <1>7, <2>3
  <2>5. Nested(m.out, i, i + 1, n)
    BY <1>2, <2>4, NestedWider
  <2>6. d.at = i + 1 /\ d.out = m.out /\ d \in [at : i .. n + 1, out : {m.out}, more : BOOLEAN]
    BY <2>1, <2>2
  <2>7. Member(d, i, n)
    BY <2>5, <2>6, Zenon DEF Member
  <2> QED
    BY <2>7 DEF d, n
<1>8. CASE d = m
  <2>1. m.at \in i .. n + 1 /\ m.at \in Nat /\ s \in Nat /\ i <= s
    BY <1>2, <1>3, <1>5
  <2>2. Nested(m.out, i, m.at, n)
    BY <1>2, <1>5, <2>1, NestedWider
  <2>3. m \in [at : i .. n + 1, out : {m.out}, more : BOOLEAN]
    BY <1>5, <2>1
  <2>4. Member(d, i, n)
    BY <1>8, <2>2, <2>3, Zenon DEF Member
  <2> QED
    BY <2>4 DEF d, n
<1> QED
  BY <1>1, <1>6, <1>7, <1>8, Zenon

LEMMA MembersAre ==
  ASSUME NEW ts, TokenList(ts), NEW i \in 1 .. Len(ts) + 1, NEW exported
  PROVE  /\ ParseMembers(ts, i, exported).at \in i .. Len(ts) + 1
         /\ Nested(ParseMembers(ts, i, exported).out, i, ParseMembers(ts, i, exported).at, Len(ts))
<1> DEFINE n == Len(ts)
           one(k) == ParseClassMember(ts, k, exported)
           item == [k \in DOMAIN ts |-> one(k)]
<1>1. ParseMembers(ts, i, exported) = Items(ts, i, item)
  BY Zenon DEF ParseMembers
<1>2. n \in Nat /\ DOMAIN ts = 1 .. n /\ i \in Nat
  BY DEF TokenList
<1>3. \A k \in i .. n : Member(item[k], k, n)
  <2> SUFFICES ASSUME NEW k \in i .. n PROVE Member(item[k], k, n)
    OBVIOUS
  <2>1. k \in 1 .. n
    BY <1>2
  <2>2. Member(one(k), k, n)
    BY <2>1, ClassMemberIs
  <2> HIDE DEF one
  <2>3. item[k] = one(k)
    BY <1>2, <2>1
  <2> QED
    BY <2>2, <2>3
<1> HIDE DEF item, n
<1>4. \A k \in i .. n : /\ item[k] \in [at : k .. n + 1, out : {item[k].out}, more : BOOLEAN]
                        /\ Nested(item[k].out, k, item[k].at, n)
  BY <1>3, Zenon DEF Member
<1>5. Len(ts) = n /\ i \in 1 .. n + 1
  BY DEF n
<1>6. /\ Items(ts, i, item).at \in i .. n + 1
      /\ Nested(Items(ts, i, item).out, i, Items(ts, i, item).at, n)
  BY <1>2, <1>4, <1>5, NestedItems
<1> QED
  BY <1>1, <1>6 DEF n

LEMMA ClassAdvances ==
  ASSUME NEW ts, TokenList(ts), NEW i \in Nat, NEW exported, NEW start \in Nat, start <= i
  PROVE  Advances(ParseClass(ts, i, exported, start), start, i, Len(ts))
<1> DEFINE n == Len(ts)
           g == SkipGenericParams(ts, i + 2)
           js == {j \in g .. Len(ts) : ts[j] \in {"{", ";", "}", ")"}
                                       /\ Depth(ts, g, j, {"("}, {")"}) = 0}
           open == IF js = {} THEN Len(ts) + 1 ELSE Min(js)
           name == ts[i + 1]
           body == ParseMembers(ts, open + 1, exported)
           last == IF body.at <= Len(ts) THEN body.at ELSE start
           class == Symbol(name, "type", exported, start, last, <<>>)
           members == [k \in DOMAIN body.out |-> [body.out[k] EXCEPT !.class = name]]
           to == Past(ts, body.at)
           d == ParseClass(ts, i, exported, start)
<1>1. d = IF At(ts, i + 1) \notin Names \/ At(ts, open) # "{" THEN Nothing
          ELSE Parsed(to, Append(members, class))
  BY Zenon DEF ParseClass, FirstFrom
<1>2. n \in Nat
  BY DEF TokenList
<1>3. g \in Nat /\ g >= i + 2
  <2>1. i + 2 \in Nat
    OBVIOUS
  <2>2. g \in Nat /\ (g = i + 2 \/ ((i + 2) + 1 <= g /\ g <= n + 1))
    BY <2>1, SkippedGenericParams
  <2> HIDE DEF g
  <2> QED
    BY <2>2
<1>4. Sought(open, g, n)
  <2>1. js \in SUBSET (g .. Len(ts))
    BY Zenon
  <2> HIDE DEF js, g
  <2> QED
    BY <1>2, <1>3, <2>1, FirstPlace
<1> HIDE DEF d, open, g, members, class
<1>5. CASE d = Nothing
  BY <1>5, NothingAdvances DEF d
<1>6. CASE d = Parsed(to, Append(members, class)) /\ At(ts, open) = "{"
  <2> DEFINE at == body.at
  <2>1. open \in 1 .. n
    <3>1. At(ts, open) # ""
      BY <1>6, Zenon
    <3> QED
      BY <3>1, AtInside, Zenon
  <2>2. open >= i + 2
    BY <1>2, <1>3, <1>4, <2>1 DEF Sought
  <2>3. at \in open + 1 .. n + 1 /\ Nested(body.out, open + 1, at, n)
    <3>1. open + 1 \in 1 .. n + 1
      BY <1>2, <2>1
    <3> HIDE DEF n
    <3> QED
      BY <3>1, MembersAre DEF n
  <2>4. Nested(members, open + 1, at, n)
    <3> DEFINE syms == body.out
    <3>1. Nested(syms, open + 1, at, n)
      BY <2>3
    <3>2. members = [k \in DOMAIN syms |-> [syms[k] EXCEPT !.class = name]]
      BY DEF members
    <3> HIDE DEF syms, name, at, body
    <3> QED
      BY <3>1, <3>2, NestedMembers
  <2>5. at \in Nat /\ open + 1 \in Nat /\ open \in Nat
    BY <1>2, <2>1, <2>3
  <2>6. to = IF at <= n THEN at + 1 ELSE n + 1
    BY <2>5, PastIs
  <2>7. class = Symbol(name, "type", exported, start, last, <<>>) /\ last = IF at <= n THEN at ELSE start
    BY DEF class
  <2>8. d = Parsed(to, Append(members, class))
    BY <1>6, Zenon
  <2> HIDE DEF body, at, n, to, last
  <2>9. /\ to \in Nat /\ to \in i + 1 .. n + 1 /\ at <= to
        /\ last \in Nat /\ start <= last /\ last < to /\ last <= n
        /\ start <= open + 1
    BY <1>2, <2>1, <2>2, <2>3, <2>5, <2>6, <2>7
  <2>10. Nested(members, start, to, n)
    BY <2>4, <2>5, <2>9, NestedWider
  <2>11. ExtentIn(class, start, to, n) /\ class.start = start /\ class.end = last
    <3>1. ExtentIn(class, start, to, n)
      BY <1>2, <2>7, <2>9, SymbolExtent
    <3>2. class = [name |-> name, kind |-> "type", exported |-> exported, start |-> start,
                   end |-> last, params |-> <<>>, class |-> ""]
      BY <2>7, Zenon DEF Symbol
    <3> HIDE DEF class, name
    <3> QED
      BY <3>1, <3>2, Zenon
  <2>12. ASSUME NEW s \in ToSet(members) PROVE Nest(s, class)
    <3>1. ExtentIn(s, open + 1, at, n)
      BY <2>4 DEF Nested
    <3> QED
      BY <1>2, <2>2, <2>5, <2>7, <2>11, <3>1 DEF ExtentIn, Nest
  <2> HIDE DEF class, members
  <2>13. Nested(Append(members, class), start, to, n)
    BY <2>10, <2>11, <2>12, NestedAppend
  <2>14. Advances(d, start, i, n)
    BY <1>2, <2>8, <2>9, <2>13, ParsedAdvances
  <2> QED
    BY <2>14 DEF d, n
<1> QED
  BY <1>1, <1>5, <1>6, Zenon

LEMMA InterfaceAdvances ==
  ASSUME NEW ts, TokenList(ts), NEW i \in Nat, NEW exported, NEW start \in Nat, start <= i
  PROVE  Advances(ParseInterface(ts, i, exported, start), start, i, Len(ts))
<1> DEFINE n == Len(ts)
           g == SkipGenericParams(ts, i + 2)
           js == {j \in g .. Len(ts) : ts[j] \in {"{", ";", "}"}}
           open == IF js = {} THEN Len(ts) + 1 ELSE Min(js)
           close == Match(ts, open, "{", "}")
           end == IF close > open + 1 THEN close - 1 ELSE close
           s == Symbol(ts[i + 1], "interface", exported, start, end, <<>>)
           d == ParseInterface(ts, i, exported, start)
<1>1. d = IF At(ts, i + 1) \notin Names \/ ~ Captured(ts, open, "{", "}") THEN Nothing
          ELSE Parsed(close + 1, <<s>>)
  BY Zenon DEF ParseInterface, FirstFrom
<1>2. n \in Nat
  BY DEF TokenList
<1>3. g \in Nat /\ g >= i + 2
  <2>1. i + 2 \in Nat
    OBVIOUS
  <2>2. g \in Nat /\ (g = i + 2 \/ ((i + 2) + 1 <= g /\ g <= n + 1))
    BY <2>1, SkippedGenericParams
  <2> HIDE DEF g
  <2> QED
    BY <2>2
<1>4. Sought(open, g, n)
  <2>1. js \in SUBSET (g .. Len(ts))
    BY Zenon
  <2> HIDE DEF js, g
  <2> QED
    BY <1>2, <1>3, <2>1, FirstPlace
<1> HIDE DEF d, open, g, s
<1>5. CASE d = Nothing
  BY <1>5, NothingAdvances DEF d
<1>6. CASE d = Parsed(close + 1, <<s>>) /\ Captured(ts, open, "{", "}")
  <2>1. At(ts, open) = "{" /\ close <= n
    BY <1>6, Zenon DEF Captured
  <2>2. open \in 1 .. n
    <3>1. At(ts, open) # ""
      BY <2>1, Zenon
    <3> QED
      BY <3>1, AtInside, Zenon
  <2>3. close <= n
    BY <2>1, Zenon
  <2>4. open \in Nat
    BY <2>2
  <2>5. Sought(close, open + 1, n)
    BY <2>4, MatchFound, Zenon
  <2>6. d = Parsed(close + 1, <<s>>)
    BY <1>6, Zenon
  <2>7. s = Symbol(ts[i + 1], "interface", exported, start, end, <<>>)
    BY DEF s
  <2>8. end = IF close > open + 1 THEN close - 1 ELSE close
    OBVIOUS
  <2> HIDE DEF close, end, n
  <2>9. close \in open + 1 .. n
    BY <1>2, <2>2, <2>3, <2>5 DEF Sought
  <2>10. close \in Nat /\ close + 1 \in Nat /\ close + 1 \in i + 1 .. n + 1 /\ end \in Nat /\ start <= end
         /\ end < close + 1 /\ end <= n
    BY <1>2, <1>3, <1>4, <2>2, <2>8, <2>9 DEF Sought
  <2>11. ExtentIn(s, start, close + 1, n)
    BY <1>2, <2>7, <2>10, SymbolExtent
  <2>12. Nested(<<s>>, start, close + 1, n)
    BY <2>11, NestedOne
  <2>13. Advances(d, start, i, n)
    BY <1>2, <2>6, <2>10, <2>12, ParsedAdvances
  <2> QED
    BY <2>13 DEF d, n
<1> QED
  BY <1>1, <1>5, <1>6, Zenon

LEMMA TypeAliasAdvances ==
  ASSUME NEW ts, TokenList(ts), NEW i \in Nat, NEW exported, NEW start \in Nat, start <= i
  PROVE  Advances(ParseTypeAlias(ts, i, exported, start), start, i, Len(ts))
<1> DEFINE n == Len(ts)
           g == SkipGenericParams(ts, i + 2)
           js == {j \in g + 1 .. Len(ts) :
               /\ ts[j] \in {";"} \cup DeclarationWords \cup AngledClosers
               /\ Depth(ts, g + 1, j, Angled, AngledClosers) = 0}
           end == IF js = {} THEN Len(ts) + 1 ELSE Min(js)
           last == CASE At(ts, end) = ";" -> end
                     [] At(ts, end) # ";" /\ g = Len(ts) -> start
                     [] OTHER -> Len(ts)
           s == Symbol(ts[i + 1], "type", exported, start, last, <<>>)
           to == Past(ts, end)
           d == ParseTypeAlias(ts, i, exported, start)
<1>1. d = IF At(ts, i + 1) \notin Names \/ At(ts, g) # "=" THEN Nothing
          ELSE IF At(ts, end) \in {";", ""} THEN Parsed(to, <<s>>)
          ELSE Parsed(end, <<>>)
  BY Zenon DEF ParseTypeAlias, FirstFrom
<1>2. n \in Nat
  BY DEF TokenList
<1>3. g \in Nat /\ g >= i + 2
  <2>1. i + 2 \in Nat
    OBVIOUS
  <2>2. g \in Nat /\ (g = i + 2 \/ ((i + 2) + 1 <= g /\ g <= n + 1))
    BY <2>1, SkippedGenericParams
  <2> HIDE DEF g
  <2> QED
    BY <2>2
<1>4. Sought(end, g + 1, n)
  <2>1. js \in SUBSET (g + 1 .. Len(ts))
    BY Zenon
  <2> HIDE DEF js, g
  <2>2. g + 1 \in Nat
    BY <1>3
  <2> QED
    BY <1>2, <2>1, <2>2, FirstPlace
<1>5. end = n + 1 \/ At(ts, end) # ""
  <2>1. CASE js = {}
    BY <2>1, Zenon
  <2>2. CASE js # {}
    <3>1. end = Min(js)
      BY <2>2, Zenon
    <3>2. Min(js) \in js
      <4>1. js \in SUBSET Nat
        <5>1. js \in SUBSET (g + 1 .. Len(ts))
          BY Zenon
        <5> HIDE DEF js, g
        <5>2. (g + 1 .. Len(ts)) \subseteq Nat
          BY <1>3
        <5> QED
          BY <5>1, <5>2
      <4> HIDE DEF js
      <4> QED
        BY <2>2, <4>1, LeastPlace
    <3>3. end \in js
      BY <3>1, <3>2, Zenon
    <3>4. "" \notin {";"} \cup DeclarationWords \cup AngledClosers
      BY DEF DeclarationWords, AngledClosers, Closers
    <3> HIDE DEF end
    <3>5. end \in 1 .. n /\ ts[end] # ""
      <4>1. ts[end] \in {";"} \cup DeclarationWords \cup AngledClosers /\ end \in g + 1 .. n
        BY <3>3, Zenon
      <4>2. end \in 1 .. n
        <5>1. end \in g + 1 .. n
          BY <4>1, Zenon
        <5> HIDE DEF g
        <5> QED
          BY <1>2, <1>3, <5>1
      <4> QED
        BY <3>4, <4>1, <4>2, Zenon
    <3>6. At(ts, end) = ts[end]
      BY <3>5, Zenon DEF At, TokenList
    <3> QED
      BY <3>5, <3>6, Zenon
  <2> QED
    BY <2>1, <2>2, Zenon
<1> HIDE DEF d, end, g, s
<1>6. CASE d = Nothing
  BY <1>6, NothingAdvances DEF d
<1>7. ASSUME At(ts, g) = "=" PROVE i + 2 <= n
  <2>1. At(ts, g) # ""
    BY <1>7, Zenon
  <2>2. g \in 1 .. n
    BY <2>1, AtInside, Zenon
  <2> QED
    BY <1>2, <1>3, <2>2
<1>8. CASE d = Parsed(to, <<s>>) /\ At(ts, end) \in {";", ""} /\ At(ts, g) = "="
  <2>1. i + 2 <= n
    BY <1>7, <1>8, Zenon
  <2>2. end \in Nat
    BY <1>4 DEF Sought
  <2>3. to = IF end <= n THEN end + 1 ELSE n + 1
    BY <2>2, PastIs
  <2>4. d = Parsed(to, <<s>>) /\ s = Symbol(ts[i + 1], "type", exported, start, last, <<>>)
    BY <1>8, Zenon DEF s
  <2>5. \/ last = end /\ end \in 1 .. n
        \/ (last = start \/ last = n) /\ end = n + 1
    <3>1. CASE At(ts, end) = ";"
      <4>1. last = end
        BY <3>1, Zenon
      <4>2. end \in 1 .. n
        <5>1. At(ts, end) # ""
          BY <3>1, Zenon
        <5> QED
          BY <5>1, AtInside, Zenon
      <4> QED
        BY <4>1, <4>2, Zenon
    <3>2. CASE At(ts, end) = ""
      <4>1. last = start \/ last = n
        BY <3>2, Zenon
      <4> QED
        BY <1>5, <3>2, <4>1, Zenon
    <3> QED
      BY <1>8, <3>1, <3>2, Zenon
  <2> HIDE DEF to, last, n
  <2>6. to \in Nat /\ to \in i + 1 .. n + 1 /\ last \in Nat /\ start <= last /\ last < to /\ last <= n
    BY <1>2, <1>3, <1>4, <2>1, <2>2, <2>3, <2>5 DEF Sought
  <2>7. ExtentIn(s, start, to, n)
    BY <1>2, <2>4, <2>6, SymbolExtent
  <2>8. Nested(<<s>>, start, to, n)
    BY <2>7, NestedOne
  <2>9. Advances(d, start, i, n)
    BY <1>2, <2>4, <2>6, <2>8, ParsedAdvances
  <2> QED
    BY <2>9 DEF d, n
<1>9. CASE d = Parsed(end, <<>>) /\ At(ts, g) = "="
  <2>1. i + 2 <= n
    BY <1>7, <1>9
  <2>2. d = Parsed(end, <<>>)
    BY <1>9, Zenon
  <2> HIDE DEF n
  <2>3. end \in i + 1 .. n + 1
    BY <1>2, <1>3, <1>4, <2>1 DEF Sought
  <2>4. Nested(<<>>, start, end, n)
    BY NestedNone
  <2>5. Advances(d, start, i, n)
    BY <1>2, <2>2, <2>3, <2>4, ParsedAdvances
  <2> QED
    BY <2>5 DEF d, n
<1> QED
  BY <1>1, <1>6, <1>8, <1>9, Zenon

\* The symbols of one statement: they begin where it does.
Siblings(syms, start, hi, n) ==
  /\ IsSequence(syms)
  /\ \A s \in ToSet(syms) : ExtentIn(s, start, hi, n) /\ s.start = start

LEMMA SiblingsNest ==
  ASSUME NEW syms, NEW start, NEW hi, NEW n, Siblings(syms, start, hi, n)
  PROVE  Nested(syms, start, hi, n)
<1>1. ASSUME NEW s \in ToSet(syms), NEW t \in ToSet(syms) PROVE Nest(s, t)
  <2>1. ExtentIn(s, start, hi, n) /\ ExtentIn(t, start, hi, n) /\ s.start = start /\ t.start = start
    BY DEF Siblings
  <2> QED
    BY <2>1 DEF ExtentIn, Nest
<1> QED
  BY <1>1, Zenon DEF Siblings, Nested

LEMMA SiblingsNone ==
  ASSUME NEW start, NEW hi, NEW n
  PROVE  Siblings(<<>>, start, hi, n)
<1>1. ToSet(<<>>) = {} /\ <<>> \in Seq({})
  BY DEF ToSet
<1> QED
  BY <1>1 DEF Siblings, IsSequence

LEMMA SiblingsOne ==
  ASSUME NEW s, NEW start, NEW hi, NEW n, ExtentIn(s, start, hi, n), s.start = start
  PROVE  Siblings(<<s>>, start, hi, n)
<1>1. ToSet(<<s>>) = {s}
  BY DEF ToSet
<1>2. <<s>> \in Seq({s})
  OBVIOUS
<1> QED
  BY <1>1, <1>2, Zenon DEF Siblings, IsSequence

LEMMA SiblingsJoin ==
  ASSUME NEW a, NEW b, NEW start, NEW mid \in Nat, NEW hi \in Nat, NEW n,
         Siblings(a, start, mid, n), Siblings(b, start, hi, n), mid <= hi
  PROVE  Siblings(a \o b, start, hi, n)
<1> DEFINE S == ToSet(a) \cup ToSet(b)
<1>1. a \in Seq(S) /\ b \in Seq(S)
  <2>1. a \in Seq(ToSet(a)) /\ b \in Seq(ToSet(b))
    BY Zenon DEF Siblings, IsSequence
  <2>2. ToSet(a) \subseteq S /\ ToSet(b) \subseteq S
    OBVIOUS
  <2> HIDE DEF S
  <2> QED
    BY <2>1, <2>2, SeqMonotonic, Zenon
<1>2. a \o b \in Seq(S) /\ ToSet(a \o b) = S
  <2> HIDE DEF S
  <2>1. a \o b \in Seq(S) /\ ToSet(a \o b) = ToSet(a) \cup ToSet(b)
    BY <1>1, ToSetConcat
  <2> QED
    BY <2>1 DEF S
<1>3. \A s \in ToSet(a) : ExtentIn(s, start, hi, n) /\ s.start = start
  BY DEF Siblings, ExtentIn
<1>4. \A s \in ToSet(b) : ExtentIn(s, start, hi, n) /\ s.start = start
  BY DEF Siblings
<1> QED
  BY <1>2, <1>3, <1>4, Zenon DEF Siblings, IsSequence

\* An arrow function that was found ends after the place it begins at.
LEMMA ArrowEnds ==
  ASSUME NEW ts, TokenList(ts), NEW i \in Nat
  PROVE  ArrowInit(ts, i).at = 0 \/ ArrowInit(ts, i).at \in i + 1 .. Len(ts) + 1
<1> DEFINE n == Len(ts)
           a == IF At(ts, i) = "async" THEN i + 1 ELSE i
           g == SkipGenericParams(ts, a)
           close == Match(ts, g, "(", ")")
           arrow == IF At(ts, g) = "(" THEN SkipArrowReturnType(ts, close + 1) ELSE g + 1
           params == IF At(ts, g) = "(" THEN SubSeq(ts, g + 1, close - 1) ELSE <<At(ts, g)>>
           body == Captured(ts, arrow + 1, "{", "}")
           last == Match(ts, arrow + 1, "{", "}")
           at == IF body THEN last + 1 ELSE SkipInitializer(ts, arrow + 1)
<1>1. ArrowInit(ts, i) =
        IF \/ ~ Captured(ts, g, "(", ")") /\ At(ts, g) \notin Names
           \/ At(ts, arrow) # "=>"
           \/ At(ts, arrow + 1) = "{" /\ ~ body
        THEN [at |-> 0]
        ELSE [at |-> at, params |-> ParamNames(params)]
  BY Zenon DEF ArrowInit
<1>2. n \in Nat
  BY DEF TokenList
<1>3. a \in Nat /\ a >= i
  OBVIOUS
<1> HIDE DEF a
<1>4. g \in Nat /\ (g = a \/ (a + 1 <= g /\ g <= n + 1))
  BY <1>3, SkippedGenericParams
<1> HIDE DEF g
<1>5. Sought(close, g + 1, n)
  BY <1>4, MatchFound
<1> HIDE DEF close, params
<1>6. close + 1 \in Nat
  BY <1>5 DEF Sought
<1>7. \/ arrow = close + 1 \/ Sought(arrow, (close + 1) + 1, n)
      \/ arrow = g + 1
  <2>1. CASE At(ts, g) = "("
    <3> DEFINE r == SkipArrowReturnType(ts, close + 1)
    <3>1. arrow = r
      BY <2>1, Zenon
    <3>2. r = close + 1 \/ Sought(r, (close + 1) + 1, n)
      BY <1>6, SkippedArrowReturnType
    <3> HIDE DEF arrow, r
    <3> QED
      BY <3>1, <3>2, Zenon
  <2>2. CASE At(ts, g) # "("
    BY <2>2, Zenon
  <2> QED
    BY <2>1, <2>2
<1> HIDE DEF arrow
<1>8. CASE ArrowInit(ts, i) = [at |-> 0]
  BY <1>8
<1>9. CASE ArrowInit(ts, i) = [at |-> at, params |-> ParamNames(params)] /\ At(ts, arrow) = "=>"
  <2>1. arrow \in 1 .. n
    <3>1. At(ts, arrow) # ""
      BY <1>9, Zenon
    <3> QED
      BY <3>1, AtInside, Zenon
  <2> DEFINE init == SkipInitializer(ts, arrow + 1)
  <2>2. arrow + 1 \in Nat
    BY <2>1
  <2>3. Sought(last, (arrow + 1) + 1, n) /\ Sought(init, arrow + 1, n)
    BY <2>2, MatchFound, SkippedInitializer, Zenon
  <2>4. body => last <= n
    BY Zenon DEF Captured
  <2>5. at = IF body THEN last + 1 ELSE init
    OBVIOUS
  <2>6. ArrowInit(ts, i).at = at
    <3> DEFINE ps == ParamNames(params)
    <3>1. ArrowInit(ts, i) = [at |-> at, params |-> ps]
      BY <1>9, Zenon
    <3> HIDE DEF at, ps
    <3> QED
      BY <3>1
  <2> HIDE DEF at, body, last, init, n
  <2>7. arrow >= i + 1
    BY <1>2, <1>3, <1>4, <1>5, <1>7, <2>1 DEF Sought
  <2>8. at \in i + 1 .. n + 1
    BY <1>2, <1>3, <2>1, <2>3, <2>4, <2>5, <2>7 DEF Sought
  <2> QED
    BY <2>6, <2>8 DEF n
<1> QED
  BY <1>1, <1>8, <1>9, Zenon

\* A declarator that begins at i.
Declarator(d, i, start, n) ==
  d \in [at : i .. n + 1, out : {d.out}, more : BOOLEAN] /\ Siblings(d.out, start, d.at, n)

LEMMA DeclaratorIs ==
  ASSUME NEW at, NEW syms, NEW i \in Nat, NEW n \in Nat, NEW d, NEW start,
         d = Parsed(at, syms) \/ d = LastParsed(at, syms),
         at \in i .. n + 1, Siblings(syms, start, at, n)
  PROVE  Declarator(d, i, start, n)
<1>1. PICK b \in BOOLEAN : d = [at |-> at, out |-> syms, more |-> b]
  BY DEF Parsed, LastParsed
<1>2. d.at = at /\ d.out = syms
  BY <1>1
<1>3. d \in [at : i .. n + 1, out : {syms}, more : BOOLEAN]
  BY <1>1
<1> QED
  BY <1>2, <1>3, Zenon DEF Declarator

\* Where the initializer of a declarator ends: after the place the declarator
\* begins at.
LEMMA InitEnds ==
  ASSUME NEW ts, TokenList(ts), NEW i \in 1 .. Len(ts), NEW t \in i + 1 .. Len(ts) + 1,
         NEW d, NEW hasInit \in BOOLEAN, NEW arrow,
         arrow = 0 \/ hasInit,
         arrow = 0 \/ arrow \in t + 1 .. Len(ts) + 1,
         hasInit => t <= Len(ts),
         d = IF arrow # 0 THEN arrow ELSE IF hasInit THEN SkipInitializer(ts, t + 1) ELSE t
  PROVE  d \in i + 1 .. Len(ts) + 1
<1> DEFINE x == SkipInitializer(ts, t + 1)
<1>1. Len(ts) \in Nat
  BY DEF TokenList
<1>2. t + 1 \in Nat
  BY <1>1
<1>3. Sought(x, t + 1, Len(ts))
  BY <1>2, SkippedInitializer
<1> HIDE DEF x
<1>4. d = IF arrow # 0 THEN arrow ELSE IF hasInit THEN x ELSE t
  BY DEF x
<1> QED
  BY <1>1, <1>3, <1>4 DEF Sought

LEMMA DeclaratorIsRead ==
  ASSUME NEW ts, TokenList(ts), NEW i \in 1 .. Len(ts), NEW kind, NEW exported,
         NEW start \in Nat, start <= i
  PROVE  Declarator(ParseDeclarator(ts, i, kind, exported, start), i, start, Len(ts))
<1> DEFINE n == Len(ts)
           pattern == At(ts, i) \in {"{", "["}
           x == IF pattern THEN SkipBalanced(ts, i) ELSE i + 1
           t == SkipTypeAnnotation(ts, x)
           hasInit == At(ts, t) = "="
           arrow == IF hasInit /\ ~ pattern THEN ArrowInit(ts, t + 1) ELSE [at |-> 0]
           to == IF hasInit THEN SkipInitializer(ts, t + 1) ELSE t
           d == IF arrow.at # 0 THEN [at |-> arrow.at, kind |-> "function", params |-> arrow.params]
                ELSE [at |-> to, kind |-> kind, params |-> <<>>]
           s == Symbol(ts[i], d.kind, exported, start, d.at - 1, d.params)
           syms == IF pattern THEN <<>> ELSE <<s>>
           r == ParseDeclarator(ts, i, kind, exported, start)
<1>1. r = IF ~ pattern /\ At(ts, i) \notin Names THEN LastParsed(i, <<>>)
          ELSE IF At(ts, d.at) = "," THEN Parsed(d.at + 1, syms) ELSE LastParsed(d.at, syms)
  BY Zenon DEF ParseDeclarator
<1>2. n \in Nat /\ i \in Nat /\ i <= n
  BY DEF TokenList
<1>3. x \in i + 1 .. n + 1
  <2>1. CASE pattern
    <3> DEFINE y == SkipBalanced(ts, i)
    <3>1. At(ts, i) \in {"{", "[", "("}
      BY <2>1, Zenon
    <3>2. y \in Nat /\ y > i /\ (y = i \/ (i + 1 <= y /\ y <= n + 1))
      BY <1>2, <3>1, SkippedBalanced, Zenon
    <3>3. x = y
      BY <2>1, Zenon
    <3> HIDE DEF x, y, n, pattern
    <3> QED
      BY <1>2, <3>2, <3>3
  <2>2. CASE ~ pattern
    <3>1. x = i + 1
      BY <2>2, Zenon
    <3> HIDE DEF x
    <3> QED
      BY <1>2, <3>1
  <2> QED
    BY <2>1, <2>2, Zenon
<1> HIDE DEF x, pattern, r, s
<1>4. t \in i + 1 .. n + 1
  <2>1. x \in Nat
    BY <1>2, <1>3
  <2>2. t = x \/ Sought(t, x + 1, n)
    BY <2>1, SkippedTypeAnnotation, Zenon
  <2> HIDE DEF t
  <2> QED
    BY <1>2, <1>3, <2>1, <2>2 DEF Sought
<1> HIDE DEF t
<1>5. hasInit => t <= n
  <2>1. hasInit => At(ts, t) # ""
    BY Zenon
  <2>2. hasInit => t \in 1 .. n
    BY <2>1, AtInside, Zenon
  <2> HIDE DEF hasInit
  <2> QED
    BY <1>2, <2>2
<1>6. /\ arrow.at = 0 \/ hasInit
      /\ arrow.at = 0 \/ arrow.at \in t + 1 .. n + 1
  <2>1. CASE hasInit /\ ~ pattern
    <3>1. arrow = ArrowInit(ts, t + 1)
      BY <2>1, Zenon
    <3>2. t + 1 \in Nat
      BY <1>2, <1>4
    <3>3. arrow.at = 0 \/ arrow.at \in (t + 1) + 1 .. n + 1
      BY <3>1, <3>2, ArrowEnds, Zenon
    <3> HIDE DEF arrow, n
    <3>4. arrow.at = 0 \/ arrow.at \in t + 1 .. n + 1
      BY <1>2, <1>4, <3>3
    <3> QED
      BY <2>1, <3>4, Zenon
  <2>2. CASE ~ (hasInit /\ ~ pattern)
    <3>1. arrow = [at |-> 0]
      BY <2>2, Zenon
    <3>2. arrow.at = 0
      BY <3>1
    <3> QED
      BY <3>2, Zenon
  <2> QED
    BY <2>1, <2>2
<1>7. d.at = IF arrow.at # 0 THEN arrow.at ELSE to
  <2> HIDE DEF arrow, to
  <2> QED
    OBVIOUS
<1> DEFINE at == d.at
<1>8. at \in i + 1 .. n + 1
  <2> DEFINE b == arrow.at
  <2>1. at = IF b # 0 THEN b ELSE IF hasInit THEN SkipInitializer(ts, t + 1) ELSE t
    BY <1>7, Zenon
  <2>2. (b = 0 \/ hasInit) /\ (b = 0 \/ b \in t + 1 .. Len(ts) + 1) /\ (hasInit => t <= Len(ts))
        /\ hasInit \in BOOLEAN
    BY <1>5, <1>6, Zenon
  <2> HIDE DEF at, b, hasInit
  <2> QED
    BY <1>4, <2>1, <2>2, InitEnds, Zenon
<1>9. s = Symbol(ts[i], d.kind, exported, start, at - 1, d.params)
  BY DEF s
<1> HIDE DEF d
<1>10. CASE r = LastParsed(i, <<>>)
  <2>1. Siblings(<<>>, start, i, n) /\ i \in i .. n + 1
    BY <1>2, SiblingsNone
  <2> HIDE DEF n
  <2>2. Declarator(r, i, start, n)
    BY <1>2, <1>10, <2>1, DeclaratorIs
  <2> QED
    BY <2>2 DEF r, n
<1>11. ASSUME NEW next \in {at, at + 1}, next <= n + 1, r = Parsed(next, syms) \/ r = LastParsed(next, syms)
       PROVE  Declarator(r, i, start, n)
  <2> HIDE DEF at, n
  <2>1. at - 1 \in Nat /\ start <= at - 1 /\ at - 1 < next /\ at - 1 <= n /\ next \in i .. n + 1
        /\ next \in Nat
    BY <1>2, <1>8, <1>11
  <2>2. ExtentIn(s, start, next, n)
    BY <1>2, <1>9, <2>1, SymbolExtent
  <2>3. s.start = start
    BY <1>9, Zenon DEF Symbol
  <2>4. Siblings(<<s>>, start, next, n) /\ Siblings(<<>>, start, next, n)
    BY <2>2, <2>3, SiblingsOne, SiblingsNone, Zenon
  <2>5. Siblings(syms, start, next, n)
    BY <2>4, Zenon
  <2> HIDE DEF syms
  <2> QED
    BY <1>2, <1>11, <2>1, <2>5, DeclaratorIs
<1>12. CASE At(ts, at) = "," /\ r = Parsed(at + 1, syms)
  <2>1. At(ts, at) # ""
    BY <1>12, Zenon
  <2>2. at \in 1 .. n
    BY <2>1, AtInside, Zenon
  <2>3. at + 1 <= n + 1
    BY <1>2, <2>2
  <2>4. Declarator(r, i, start, n)
    BY <1>11, <1>12, <2>3, Zenon
  <2> QED
    BY <2>4 DEF r, n
<1>13. CASE r = LastParsed(at, syms)
  <2>1. at <= n + 1
    BY <1>2, <1>8
  <2>2. Declarator(r, i, start, n)
    BY <1>11, <1>13, <2>1, Zenon
  <2> QED
    BY <2>2 DEF r, n
<1> QED
  BY <1>1, <1>10, <1>12, <1>13, Zenon DEF r

\* A list of declarators.
LEMMA DeclaratorsAreRead ==
  ASSUME NEW ts, TokenList(ts), NEW i \in 1 .. Len(ts) + 1, NEW kind, NEW exported,
         NEW start \in Nat, start <= i
  PROVE  /\ ParseDeclarators(ts, i, kind, exported, start).at \in i .. Len(ts) + 1
         /\ Siblings(ParseDeclarators(ts, i, kind, exported, start).out, start,
                     ParseDeclarators(ts, i, kind, exported, start).at, Len(ts))
<1> DEFINE n == Len(ts)
           one(k) == ParseDeclarator(ts, k, kind, exported, start)
           item == [k \in DOMAIN ts |-> one(k)]
           S == UNION {ToSet(item[k].out) : k \in i .. n}
           State == LoopState(S, i, n)
           of(k) == {st \in LoopState(S, k, n) : Siblings(st.out, start, st.at, n)}
           good == [k \in i .. n + 1 |-> of(k)]
<1>1. ParseDeclarators(ts, i, kind, exported, start) = Items(ts, i, item)
  BY Zenon DEF ParseDeclarators
<1>2. n \in Nat /\ DOMAIN ts = 1 .. n /\ i \in Nat /\ i \in 1 .. n + 1
  BY DEF TokenList
<1>3. \A k \in i .. n : Declarator(item[k], k, start, n)
  <2> SUFFICES ASSUME NEW k \in i .. n PROVE Declarator(item[k], k, start, n)
    OBVIOUS
  <2>1. k \in 1 .. n /\ start <= k
    BY <1>2
  <2>2. Declarator(one(k), k, start, n)
    BY <2>1, DeclaratorIsRead
  <2> HIDE DEF one
  <2>3. item[k] = one(k)
    BY <1>2, <2>1
  <2> QED
    BY <2>2, <2>3
<1>4. Len(ts) = n
  OBVIOUS
<1> HIDE DEF item, one, n
<1>5. \A k \in i .. n + 1 : good[k] = of(k)
  OBVIOUS
<1>6. \A k \in i .. n + 1 : LoopState(S, k, n) \subseteq State
  <2> SUFFICES ASSUME NEW k \in i .. n + 1 PROVE LoopState(S, k, n) \subseteq LoopState(S, i, n)
    OBVIOUS
  <2>1. k .. n + 1 \subseteq i .. n + 1
    BY <1>2
  <2> HIDE DEF S
  <2> QED
    BY <2>1 DEF LoopState
<1>7. Parsed(n + 1, <<>>) \in of(n + 1)
  <2>1. /\ Parsed(n + 1, <<>>) \in LoopState(S, n + 1, n)
        /\ Parsed(n + 1, <<>>).out = <<>> /\ Parsed(n + 1, <<>>).at = n + 1
    BY <1>2, LoopOver
  <2> HIDE DEF S, n
  <2> QED
    BY <2>1, SiblingsNone
<1>8. ASSUME NEW k \in i .. n
      PROVE  item[k] \in of(k) /\ item[k].out \in Seq(S)
  <2> DEFINE syms == item[k].out
  <2>1. item[k] \in [at : k .. n + 1, out : {syms}, more : BOOLEAN]
        /\ Siblings(syms, start, item[k].at, n)
    BY <1>3 DEF Declarator
  <2>2. syms \in Seq(S)
    <3>1. syms \in Seq(ToSet(syms))
      BY <2>1, Zenon DEF Siblings, IsSequence
    <3>2. ToSet(syms) \subseteq S
      OBVIOUS
    <3> HIDE DEF S, syms
    <3> QED
      BY <3>1, <3>2, SeqMonotonic, Zenon
  <2> HIDE DEF S
  <2>3. item[k] \in LoopState(S, k, n)
    BY <2>1, <2>2 DEF LoopState
  <2> QED
    BY <2>1, <2>2, <2>3
<1>9. ASSUME NEW k \in i .. n, item[k].at \in k + 1 .. n + 1, NEW st \in State
      PROVE  /\ [st EXCEPT !.out = item[k].out \o @] \in State
             /\ st \in good[item[k].at] => [st EXCEPT !.out = item[k].out \o @] \in good[k]
  <2> DEFINE a == item[k].out
             mid == item[k].at
             next == [st EXCEPT !.out = a \o @]
  <2>1. a \in Seq(S) /\ Siblings(a, start, mid, n)
    BY <1>3, <1>8 DEF Declarator
  <2>0. next = [st EXCEPT !.out = a \o @]
    OBVIOUS
  <2> HIDE DEF S, a, mid, next
  <2>2. st.at \in i .. n + 1
    BY DEF LoopState
  <2>3. next \in State
    <3>1. LoopJoin(next, a, st, S, i, n)
      BY <2>1, <2>2, <2>0, LoopJoined, Zenon
    <3> QED
      BY <3>1, Zenon DEF LoopJoin
  <2>4. ASSUME st \in good[mid] PROVE next \in good[k]
    <3>1. mid \in k + 1 .. n + 1 /\ mid \in i .. n + 1 /\ k \in i .. n + 1 /\ mid \in Nat /\ k \in Nat
      BY <1>2, <1>9 DEF mid
    <3>2. st \in LoopState(S, mid, n) /\ Siblings(st.out, start, st.at, n)
      BY <1>5, <2>4, <3>1
    <3>3. st.at \in mid .. n + 1
      BY <3>2 DEF LoopState
    <3>4. st.at \in Nat /\ mid <= st.at /\ k <= mid /\ st.at \in k .. n + 1
      BY <1>2, <3>1, <3>3
    <3>5. Siblings(a \o st.out, start, st.at, n)
      BY <2>1, <3>1, <3>2, <3>4, SiblingsJoin
    <3>6. next \in LoopState(S, k, n) /\ next.out = a \o st.out /\ next.at = st.at
      <4>1. a \in Seq(S) /\ st.at \in k .. n + 1 /\ st \in LoopState(S, mid, n)
        BY <2>1, <3>2, <3>4
      <4>2. LoopJoin(next, a, st, S, k, n)
        BY <2>0, <4>1, LoopJoined, Zenon
      <4> QED
        BY <4>2, Zenon DEF LoopJoin
    <3>7. next \in of(k)
      BY <3>5, <3>6
    <3> QED
      BY <1>5, <3>1, <3>7
  <2> QED
    BY <2>3, <2>4 DEF a, mid, next
<1>10. n + 1 \in i .. n + 1 /\ i \in i .. n + 1 /\ \A k \in i .. n : k \in i .. n + 1
  BY <1>2
<1>11. \A k \in i .. n + 1 : of(k) \subseteq State
  BY <1>6
<1>12. \A k \in i .. n : item[k].more /\ item[k].at \in k + 1 .. n + 1 =>
         \A st \in State : /\ [st EXCEPT !.out = item[k].out \o @] \in State
                           /\ st \in good[item[k].at] =>
                                [st EXCEPT !.out = item[k].out \o @] \in good[k]
  BY <1>9
<1>13. \A st \in of(i) : st.at \in i .. n + 1 /\ Siblings(st.out, start, st.at, n)
  BY DEF LoopState
<1> HIDE DEF State, good, of
<1>14. Items(ts, i, item) \in good[i]
  <2>1. /\ \A k \in i .. n + 1 : good[k] \subseteq State
        /\ Parsed(n + 1, <<>>) \in good[n + 1]
        /\ \A k \in i .. n : item[k] \in good[k]
    BY <1>5, <1>7, <1>8, <1>10, <1>11
  <2> QED
    BY <1>2, <1>4, <1>12, <2>1, ItemsHold, Zenon
<1>15. Items(ts, i, item).at \in i .. n + 1
       /\ Siblings(Items(ts, i, item).out, start, Items(ts, i, item).at, n)
  BY <1>5, <1>10, <1>13, <1>14
<1> QED
  BY <1>1, <1>15 DEF n

\* A declaration that is skipped advances and records nothing.
LEMMA SkippedAdvances ==
  ASSUME NEW ts, TokenList(ts), NEW i \in 1 .. Len(ts), NEW j \in i .. i + 1, NEW start
  PROVE  Advances(Parsed(SkipDecl(ts, j), <<>>), start, i, Len(ts))
<1> DEFINE x == SkipDecl(ts, j)
           n == Len(ts)
<1>1. n \in Nat /\ i \in Nat /\ i <= n /\ j \in Nat /\ i <= j
  BY DEF TokenList
<1>2. x \in Nat /\ (x = n + 1 \/ (j + 1 <= x /\ x <= n + 1))
  BY <1>1, SkippedDecl
<1> HIDE DEF x, n
<1>3. x \in i + 1 .. n + 1
  BY <1>1, <1>2
<1>4. Nested(<<>>, start, x, n)
  BY NestedNone
<1>5. Advances(Parsed(x, <<>>), start, i, n)
  BY <1>1, <1>3, <1>4, ParsedAdvances
<1> QED
  BY <1>5 DEF x, n

LEMMA VarDeclAdvances ==
  ASSUME NEW ts, TokenList(ts), NEW i \in 1 .. Len(ts), NEW exported, NEW start \in Nat, start <= i
  PROVE  Advances(ParseVarDecl(ts, i, exported, start), start, i, Len(ts))
<1> DEFINE n == Len(ts)
           kind == IF ts[i] = "const" THEN "const" ELSE "var"
           d == ParseDeclarators(ts, i + 1, kind, exported, start)
           nameless == d.at <= Len(ts) /\ (d.at = i + 1 \/ At(ts, d.at - 1) = ",")
           to == IF At(ts, d.at) = ";" THEN d.at + 1 ELSE d.at
           r == ParseVarDecl(ts, i, exported, start)
<1>1. \/ r = Parsed(SkipDecl(ts, i + 1), <<>>)
      \/ r = Nothing
      \/ r = Parsed(to, d.out)
  BY Zenon DEF ParseVarDecl
<1>2. n \in Nat /\ i \in Nat /\ i <= n
  BY DEF TokenList
<1> HIDE DEF r, kind
<1>3. CASE r = Parsed(SkipDecl(ts, i + 1), <<>>)
  <2>1. i + 1 \in i .. i + 1
    BY <1>2
  <2> QED
    BY <1>3, <2>1, SkippedAdvances DEF r
<1>4. CASE r = Nothing
  BY <1>4, NothingAdvances DEF r
<1>5. CASE r = Parsed(to, d.out)
  <2> DEFINE at == d.at
             syms == d.out
  <2>1. at \in i + 1 .. n + 1 /\ Siblings(syms, start, at, n)
    <3>1. i + 1 \in 1 .. n + 1 /\ start <= i + 1
      BY <1>2
    <3> QED
      BY <3>1, DeclaratorsAreRead, Zenon
  <2>2. At(ts, at) = ";" => at \in 1 .. n
    <3>1. At(ts, at) = ";" => At(ts, at) # ""
      BY Zenon
    <3> QED
      BY <3>1, AtInside, Zenon
  <2>3. to = at \/ (At(ts, at) = ";" /\ to = at + 1)
    BY Zenon
  <2>4. r = Parsed(to, syms)
    BY <1>5, Zenon
  <2> HIDE DEF to, at, syms, n
  <2>5. to = at \/ (at \in 1 .. n /\ to = at + 1)
    BY <2>2, <2>3, Zenon
  <2>6. at \in Nat /\ to \in Nat /\ to \in i + 1 .. n + 1 /\ at <= to
    BY <1>2, <2>1, <2>5
  <2>7. Nested(syms, start, at, n)
    BY <2>1, SiblingsNest
  <2>8. Nested(syms, start, to, n)
    BY <2>6, <2>7, NestedWider
  <2>9. Advances(r, start, i, n)
    BY <1>2, <2>4, <2>6, <2>8, ParsedAdvances
  <2> QED
    BY <2>9 DEF r, n
<1> QED
  BY <1>1, <1>3, <1>4, <1>5, Zenon

\* A declaration advances from where its modifiers begin.
LEMMA TopLevelAdvances ==
  ASSUME NEW ts, TokenList(ts), NEW i \in 1 .. Len(ts)
  PROVE  Advances(TryTopLevel(ts, i), i, i, Len(ts))
<1> DEFINE n == Len(ts)
           js == {j \in i .. Len(ts) : ts[j] \notin ModifierWords}
           m == IF js = {} THEN Len(ts) + 1 ELSE Min(js)
           exported == \E j \in i .. m - 1 : ts[j] = "export"
           t == At(ts, m)
           d == TryTopLevel(ts, i)
<1>1. \/ t # "" /\ \/ d = ParseFunction(ts, m, exported, i)
                   \/ d = ParseClass(ts, m, exported, i)
                   \/ d = ParseInterface(ts, m, exported, i)
                   \/ d = ParseTypeAlias(ts, m, exported, i)
                   \/ d = ParseVarDecl(ts, m, exported, i)
                   \/ d = Parsed(SkipDecl(ts, m), <<>>)
      \/ d = Nothing
  <2>1. d = CASE t = "function" -> ParseFunction(ts, m, exported, i)
       [] t = "class" -> ParseClass(ts, m, exported, i)
       [] t = "interface" -> ParseInterface(ts, m, exported, i)
       [] t = "type" -> ParseTypeAlias(ts, m, exported, i)
       [] t \in {"const", "let", "var"} -> ParseVarDecl(ts, m, exported, i)
       [] t \in {"enum", "namespace", "module", "import"} ->
            Parsed(SkipDecl(ts, m), <<>>)
       [] OTHER -> Nothing
    BY Zenon DEF TryTopLevel, FirstFrom
  <2> HIDE DEF d, t, m, exported
  <2> QED
    BY <2>1, Zenon
<1>2. n \in Nat /\ i \in Nat /\ i <= n
  BY DEF TokenList
<1>3. Sought(m, i, n)
  <2>1. js \in SUBSET (i .. Len(ts))
    OBVIOUS
  <2> HIDE DEF js
  <2> QED
    BY <1>2, <2>1, FirstPlace
<1> HIDE DEF d, m, exported
<1>4. CASE d = Nothing
  BY <1>4, NothingAdvances DEF d
<1>5. CASE t # "" /\ d # Nothing
  <2>1. m \in 1 .. n
    BY <1>5, AtInside, Zenon
  <2>2. m \in Nat /\ i <= m
    BY <1>2, <1>3, <2>1 DEF Sought
  <2> HIDE DEF n
  <2>3. Advances(d, i, m, n)
    <3>1. Advances(ParseFunction(ts, m, exported, i), i, m, n)
      BY <1>2, <2>2, FunctionAdvances DEF n
    <3>2. Advances(ParseClass(ts, m, exported, i), i, m, n)
      BY <1>2, <2>2, ClassAdvances DEF n
    <3>3. Advances(ParseInterface(ts, m, exported, i), i, m, n)
      BY <1>2, <2>2, InterfaceAdvances DEF n
    <3>4. Advances(ParseTypeAlias(ts, m, exported, i), i, m, n)
      BY <1>2, <2>2, TypeAliasAdvances DEF n
    <3>5. Advances(ParseVarDecl(ts, m, exported, i), i, m, n)
      BY <1>2, <2>1, <2>2, VarDeclAdvances DEF n
    <3>6. Advances(Parsed(SkipDecl(ts, m), <<>>), i, m, n)
      <4>1. m \in m .. m + 1 /\ m \in 1 .. Len(ts)
        BY <2>1, <2>2 DEF n
      <4> QED
        BY <4>1, SkippedAdvances DEF n
    <3> QED
      BY <1>1, <1>5, <3>1, <3>2, <3>3, <3>4, <3>5, <3>6, Zenon
  <2>4. CASE d.at # 0
    <3>1. /\ d \in [at : m + 1 .. n + 1, out : {d.out}, more : BOOLEAN]
          /\ Nested(d.out, i, d.at, n)
      BY <2>3, <2>4 DEF Advances
    <3>2. m + 1 .. n + 1 \subseteq i + 1 .. n + 1
      BY <1>2, <2>2
    <3>3. d \in [at : i + 1 .. n + 1, out : {d.out}, more : BOOLEAN]
      BY <3>1, <3>2
    <3>4. Advances(d, i, i, n)
      BY <3>1, <3>3, Zenon DEF Advances
    <3> QED
      BY <3>4 DEF d, n
  <2>5. CASE d.at = 0
    <3>1. Advances(d, i, i, n)
      BY <2>5 DEF Advances
    <3> QED
      BY <3>1 DEF d, n
  <2> QED
    BY <2>4, <2>5
<1> QED
  BY <1>1, <1>4, <1>5, Zenon

\* The symbols of any list of tokens.
LEMMA SymbolsNest ==
  ASSUME NEW ts, TokenList(ts)
  PROVE  \E at \in 1 .. Len(ts) + 1 : Nested(Symbols(ts), 1, at, Len(ts))
<1> DEFINE n == Len(ts)
           one(i) == ParseTopLevel(ts, i)
           item == [i \in DOMAIN ts |-> one(i)]
<1>1. Symbols(ts) = Items(ts, 1, item).out
  BY Zenon DEF Symbols
<1>2. n \in Nat /\ DOMAIN ts = 1 .. n /\ 1 \in 1 .. n + 1
  BY DEF TokenList
<1>3. ASSUME NEW k \in 1 .. n
      PROVE  /\ item[k] \in [at : k .. n + 1, out : {item[k].out}, more : BOOLEAN]
             /\ Nested(item[k].out, k, item[k].at, n)
  <2> DEFINE d == TryTopLevel(ts, k)
             r == one(k)
  <2>1. r = IF d.at = 0 THEN Parsed(k + 1, <<>>) ELSE d
    BY Zenon DEF ParseTopLevel
  <2>2. Advances(d, k, k, n)
    BY TopLevelAdvances
  <2>3. item[k] = r
    BY <1>2, Zenon
  <2> HIDE DEF d, r, one, item, n
  <2>4. CASE d.at = 0
    <3>1. r = [at |-> k + 1, out |-> <<>>, more |-> TRUE]
      BY <2>1, <2>4 DEF Parsed
    <3>2. r.at = k + 1 /\ r.out = <<>>
      BY <3>1
    <3>3. k + 1 \in k .. n + 1
      BY <1>2
    <3>4. r \in [at : k .. n + 1, out : {<<>>}, more : BOOLEAN]
      BY <3>1, <3>3
    <3> QED
      BY <2>3, <3>2, <3>4, NestedNone, Zenon
  <2>5. CASE d.at # 0
    <3>1. /\ d \in [at : k + 1 .. n + 1, out : {d.out}, more : BOOLEAN]
          /\ Nested(d.out, k, d.at, n)
      BY <2>2, <2>5 DEF Advances
    <3>2. k + 1 .. n + 1 \subseteq k .. n + 1
      BY <1>2
    <3>3. d \in [at : k .. n + 1, out : {d.out}, more : BOOLEAN]
      BY <3>1, <3>2
    <3> QED
      BY <2>1, <2>3, <2>5, <3>1, <3>3, Zenon
  <2> QED
    BY <2>4, <2>5
<1> HIDE DEF item, n
<1>4. Len(ts) = n
  BY DEF n
<1>5. \A k \in 1 .. n : /\ item[k] \in [at : k .. n + 1, out : {item[k].out}, more : BOOLEAN]
                        /\ Nested(item[k].out, k, item[k].at, n)
  BY <1>3
<1>6. /\ Items(ts, 1, item).at \in 1 .. n + 1
      /\ Nested(Items(ts, 1, item).out, 1, Items(ts, 1, item).at, n)
  BY <1>2, <1>4, <1>5, NestedItems
<1> QED
  BY <1>1, <1>6, Zenon DEF n

\* Every sequence is a list of tokens.
LEMMA SequenceIsTokenList ==
  ASSUME NEW S, NEW ts \in Seq(S)
  PROVE  TokenList(ts)
BY LenProperties DEF TokenList

\* So is a file put together from pieces that are.
LEMMA FileIsTokenList ==
  ASSUME NEW P, \A piece \in P : IsSequence(piece.text), NEW n \in Nat, NEW parts \in [1 .. n -> P]
  PROVE  \E S : Concat([k \in DOMAIN parts |-> parts[k].text]) \in Seq(S)
<1> DEFINE S == UNION {ToSet(piece.text) : piece \in P}
           text(k) == parts[k].text
           texts == [k \in DOMAIN parts |-> text(k)]
<1>1. \A piece \in P : piece.text \in Seq(S)
  <2> SUFFICES ASSUME NEW piece \in P PROVE piece.text \in Seq(S)
    OBVIOUS
  <2>1. piece.text \in Seq(ToSet(piece.text))
    BY DEF IsSequence
  <2>2. ToSet(piece.text) \subseteq S
    OBVIOUS
  <2> HIDE DEF S
  <2> QED
    BY <2>1, <2>2, SeqMonotonic, Zenon
<1>2. DOMAIN parts = 1 .. n /\ \A k \in 1 .. n : text(k) \in Seq(S)
  <2> HIDE DEF S
  <2> QED
    BY <1>1
<1> HIDE DEF S, text
<1>3. texts = [k \in 1 .. n |-> text(k)]
  BY <1>2
<1>4. texts \in Seq(Seq(S))
  BY <1>2, <1>3, IsASeq
<1> HIDE DEF texts
<1>5. FlattenSeq(texts) \in Seq(S)
  BY <1>4, FlattenElements
<1> QED
  BY <1>5, Zenon DEF Concat, texts, text

\* What is parsed is a list of tokens.
LEMMA FileTokensAreTokens ==
  ASSUME ExtractionInput, input.form \in {"file", "class", "damaged"}
  PROVE  TokenList(FileTokens)
<1>1. PICK form \in ExtractionForms, n \in 0 .. MaxPieces :
        \E parts \in [1 .. n -> Pieces(form)] : \E at :
        /\ input = [form |-> form, parts |-> parts, at |-> at]
        /\ form = "damaged" => at \in DOMAIN Concat([k \in 1 .. n |-> parts[k].text])
  BY Zenon DEF ExtractionInput
<1>12. PICK parts \in [1 .. n -> Pieces(form)] : \E at :
        /\ input = [form |-> form, parts |-> parts, at |-> at]
        /\ form = "damaged" => at \in DOMAIN Concat([k \in 1 .. n |-> parts[k].text])
  BY <1>1, Zenon
<1>13. PICK at :
        /\ input = [form |-> form, parts |-> parts, at |-> at]
        /\ form = "damaged" => at \in DOMAIN Concat([k \in 1 .. n |-> parts[k].text])
  BY <1>12, Zenon
<1>2. input.form = form /\ input.parts = parts /\ input.at = at
  BY <1>13
<1>3. form \in {"file", "class", "damaged"}
  BY <1>2
<1>4. n \in Nat
  BY ExtractionAssumption
<1> DEFINE text == Concat([k \in DOMAIN parts |-> parts[k].text])
<1>5. PICK S : text \in Seq(S)
  <2>1. Pieces(form) \subseteq Statements \cup Members
    BY <1>3 DEF Pieces
  <2>2. \A piece \in Pieces(form) : IsSequence(piece.text)
    BY <2>1, ExtractionAssumption
  <2> QED
    BY <1>4, <2>2, FileIsTokenList
<1>6. FileTokens = CASE form = "class" -> ClassHead \o text \o <<"}">>
                     [] form = "damaged" -> RemoveAt(text, at)
                     [] OTHER -> text
  BY <1>2, Zenon DEF FileTokens
<1>7. DOMAIN parts = 1 .. n
  OBVIOUS
<1>8. form = "damaged" => at \in DOMAIN text
  BY <1>13, <1>7, Zenon
<1> HIDE DEF text
<1>9. CASE form = "file"
  <2>1. FileTokens = text
    BY <1>6, <1>9
  <2> QED
    BY <1>5, <2>1, SequenceIsTokenList
<1>10. CASE form = "class"
  <2> DEFINE H == {"export", "class", "T", "{"}
             T == S \cup H \cup {"}"}
  <2>1. FileTokens = ClassHead \o text \o <<"}">>
    BY <1>6, <1>10, Zenon
  <2>2. ClassHead \in Seq(H) /\ <<"}">> \in Seq({"}"})
    BY DEF ClassHead
  <2>3. H \subseteq T /\ {"}"} \subseteq T /\ S \subseteq T
    BY Zenon
  <2> HIDE DEF T, H
  <2>4. ClassHead \in Seq(T) /\ text \in Seq(T) /\ <<"}">> \in Seq(T)
    BY <1>5, <2>2, <2>3, SeqMonotonic, Zenon
  <2>5. ClassHead \o text \o <<"}">> \in Seq(T)
    BY <2>4, ToSetConcat, Zenon
  <2> QED
    BY <2>1, <2>5, SequenceIsTokenList, Zenon
<1>11. CASE form = "damaged"
  <2>1. FileTokens = SubSeq(text, 1, at - 1) \o SubSeq(text, at + 1, Len(text))
    BY <1>6, <1>11 DEF RemoveAt
  <2>2. Len(text) \in Nat /\ DOMAIN text = 1 .. Len(text) /\ at \in 1 .. Len(text)
    BY <1>5, <1>8, <1>11, LenProperties
  <2>3. SubSeq(text, 1, at - 1) \in Seq(S) /\ SubSeq(text, at + 1, Len(text)) \in Seq(S)
    BY <1>5, <2>2, SubSeqProperties
  <2>4. SubSeq(text, 1, at - 1) \o SubSeq(text, at + 1, Len(text)) \in Seq(S)
    BY <2>3, ToSetConcat
  <2> QED
    BY <2>1, <2>4, SequenceIsTokenList
<1> QED
  BY <1>3, <1>9, <1>10, <1>11

\* What was answered is the symbols of the tokens examined.
ExtractionInv ==
  /\ ExtractionInput
  /\ Done({"file", "class", "damaged"}) => answer = Symbols(FileTokens)

\* Extraction: however long a file is and whatever it says, also when a token is
\* lost, the symbols the parser records lie in it, and no symbol reaches into
\* half of another.
THEOREM ExtentsAlwaysNest == ExtractionSpec => []ExtentsNest
<1>1. ExtractionInit => ExtractionInv
  BY DEF ExtractionInit, ExtractionInv, Done
<1>2. ExtractionInv /\ [ExtractionNext]_examVars => ExtractionInv'
  <2> SUFFICES ASSUME ExtractionInv, [ExtractionNext]_examVars PROVE ExtractionInv'
    OBVIOUS
  <2>1. input' = input => ExtractionInput' /\ FileTokens' = FileTokens
    <3> SUFFICES ASSUME input' = input PROVE ExtractionInput' /\ FileTokens' = FileTokens
      OBVIOUS
    <3> QED
      BY Zenon DEF ExtractionInv, ExtractionInput, FileTokens, Concat
  <2>2. CASE Parse
    <3>1. input' = input /\ answer' = Symbols(FileTokens)
      BY <2>2, Zenon DEF Parse, Answer
    <3> QED
      BY <2>1, <3>1, Zenon DEF ExtractionInv
  <2>3. CASE Strip \/ Extract
    <3>1. input' = input /\ input.form \notin {"file", "class", "damaged"}
      BY <2>3 DEF Strip, Extract, Answer
    <3> QED
      BY <2>1, <3>1, Zenon DEF ExtractionInv, Done
  <2>4. CASE UNCHANGED examVars
    <3>1. input' = input /\ done' = done /\ answer' = answer
      BY <2>4 DEF examVars
    <3> QED
      BY <2>1, <3>1, Zenon DEF ExtractionInv, Done
  <2> QED
    BY <2>2, <2>3, <2>4 DEF ExtractionNext
<1>3. ExtractionInv => ExtentsNest
  <2> SUFFICES ASSUME ExtractionInv, Done({"file", "class", "damaged"}) PROVE ExtentsNest
    BY Zenon DEF ExtentsNest
  <2>1. answer = Symbols(FileTokens) /\ TokenList(FileTokens)
    BY FileTokensAreTokens, Zenon DEF ExtractionInv, Done
  <2>2. PICK at : Nested(Symbols(FileTokens), 1, at, Len(FileTokens))
    BY <2>1, SymbolsNest
  <2>3. \A s \in ToSet(answer) : s.start <= s.end /\ s.end <= Len(FileTokens)
    BY <2>1, <2>2, Zenon DEF Nested, ExtentIn
  <2>4. \A s, t \in ToSet(answer) : Nest(s, t)
    BY <2>1, <2>2, Zenon DEF Nested
  <2> QED
    BY <2>3, <2>4, Zenon DEF Nest, ExtentsNest
<1> QED
  BY <1>1, <1>2, <1>3, PTL DEF ExtractionSpec
=============================================================================
