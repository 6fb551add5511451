---------------------------- MODULE MC_JtagUart -----------------------------
(* The JTAG UART with rings of two characters.                             *)
EXTENDS JtagUart
=============================================================================
