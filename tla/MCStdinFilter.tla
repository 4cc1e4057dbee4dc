--------------------------- MODULE MCStdinFilter ---------------------------
\* Instances of StdinFilter for TLC: all short streams, longer ones of requests.
EXTENDS StdinFilter

CONSTANTS MaxStream, MaxRequests   \* bounds: bytes of a stream

MCBytes == {"{", "}", "[", " ", Newline}
MCStreams ==
  BoundedSeq(MCBytes, MaxStream) \cup BoundedSeq({"{", "}", Newline}, MaxRequests)
=============================================================================
