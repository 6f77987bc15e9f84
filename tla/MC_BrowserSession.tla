--------------------------- MODULE MC_BrowserSession ---------------------------
(* BrowserSession for TLC: a visitor who asks for the files and the system     *)
(* page; a switch to the role of a cluster admin leads to the own cluster.     *)
EXTENDS BrowserSession

Asked == {Files, System}
================================================================================
