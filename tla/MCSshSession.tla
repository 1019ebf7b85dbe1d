---------------------------- MODULE MCSshSession ----------------------------
(***************************************************************************)
(* Instances of SshSession for TLC.  Websockets c1 and c2 belong to the    *)
(* account that owns the session; c3 belongs to an account of the same     *)
(* name that was created again later under another id, so it may drive the *)
(* session by name but not take back the other account's shell.            *)
(***************************************************************************)
EXTENDS SshSession, TLC

CONSTANTS c3

MCOwner == [s \in Sessions |-> "op1"]
MCUserOf == [c \in Conns |-> "op1"]
MCAccountOf == [c \in Conns |-> IF c = c3 THEN 2 ELSE 1]
MCOneAccount == [c \in Conns |-> 1]

OwnConns == Permutations(Conns \ {c3})
=============================================================================
