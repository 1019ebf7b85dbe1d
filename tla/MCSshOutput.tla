----------------------------- MODULE MCSshOutput -----------------------------
(***************************************************************************)
(* SshOutput for TLC: one shell with enough output to fill the backlog, a   *)
(* second one on the same session, and interchangeable pages.              *)
(***************************************************************************)
EXTENDS SshOutput, TLC

CONSTANTS h1, h2

MCMaxOut == [h \in Shells |-> IF h = h1 THEN 3 ELSE 1]

SamePages == Permutations(Pages)
=============================================================================
