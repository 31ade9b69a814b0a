----------------------------- MODULE MCBrowsers -----------------------------
(***************************************************************************)
(* Two browsers, two kernels, the three backends of the M68K program and   *)
(* two of the six of the PPC one.                                          *)
(***************************************************************************)
EXTENDS Browsers

MCBackends == [l \in Lanes |-> IF l = "m68k" THEN 3 ELSE 2]
MCExactFlags == [l \in Lanes |-> {0, 1}]
=============================================================================
