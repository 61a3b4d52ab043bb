------------------------------ MODULE MCStream ------------------------------
(* Instances of Stream for TLC.                                            *)
EXTENDS Stream

App(bytes, readLen, reads, cancels) ==
  [bytes |-> bytes, readLen |-> readLen, reads |-> reads, cancels |-> cancels]

\* Both sides write more messages than all buffers of the connection hold
\* before they read; two sides that read and write in any order, one of them a
\* byte at a time; a writer that never reads; one that gives up pending calls.
Pairs ==
  { <<App(7, 2, "last", FALSE), App(7, 2, "last", FALSE)>>,
    <<App(3, 1, "any", FALSE), App(6, 2, "any", FALSE)>>,
    <<App(9, 2, "never", FALSE), App(0, 1, "any", FALSE)>>,
    <<App(5, 1, "any", TRUE), App(2, 2, "any", FALSE)>> }
=============================================================================
