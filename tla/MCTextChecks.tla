---------------------------- MODULE MCTextChecks ----------------------------
\* The inputs of MCExtraction, MCContentChecks, MCEditChecks and
\* MCWiringChecks, and the streams of MCStdinFilter.
EXTENDS TextChecks, MCExtraction, MCContentChecks, MCEditChecks, MCWiringChecks, MCStdinFilter
=============================================================================
