------------------------------ MODULE MCKeybd ------------------------------
(* Keybd on small instances: one letter, lines of a few keys.              *)
EXTENDS Keybd
CONSTANT a, enter

MCLetters == {a}
MCCommand == <<kbdus(a)>>
=============================================================================
