---------------------------- MODULE MCM68kElide ----------------------------
(***************************************************************************)
(* Every pair of instructions of the vocabulary, and the triples of the    *)
(* representative ones, run by both predecoded backends from one setup.    *)
(***************************************************************************)
EXTENDS MCM68kPrograms

\* A prologue that points A5 at the data area; a body; an epilogue with a
\* branch on N, Z and V, the instruction it skips, and a loop.
Prologue == <<5, NI - 3>>
Epilogue == <<NI - 2, NI - 1, NI>>

\* A representative of every way an instruction treats the flags and X.
Core == {1, 16, 24, 18, 25, 29, 23, 39, 28}

Pairs   == (1..NI) \X (1..NI)
Triples == Core \X Core \X Core
MCKernels == {Prologue \o b \o Epilogue : b \in {p \in Pairs \cup Triples : WellFormed(p)}}
=============================================================================
