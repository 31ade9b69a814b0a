----------------------------- MODULE MCStreams -----------------------------
(***************************************************************************)
(* The two real streams, and short ones from other seeds, on which the     *)
(* draws fall differently at the end of the stream.                        *)
(***************************************************************************)
EXTENDS Streams

Job(lane, lo, len) == [lane |-> lane, seed |-> U32(\hC0FF, lo), len |-> len]
MCJobs ==
    {Job("m68k", \hEE02, 8192), Job("ppc", \hEE01, 16384)}
    \cup {Job(lane, 100 * k, 12) : lane \in {"m68k", "ppc"}, k \in 1..60}
=============================================================================
