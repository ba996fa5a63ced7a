--------------------------- MODULE MCSessionCalls ---------------------------
(***************************************************************************)
(* Instances of SessionCalls for TLC.                                      *)
(***************************************************************************)
EXTENDS SessionCalls

\* Two processes with one PID, whose creation times differ in the high word.
Times == <<[low |-> 1, high |-> 0], [low |-> 1, high |-> 1]>>

Codes ==
    DOMAIN OsKind \cup DOMAIN HResultKind
    \cup UNION {DOMAIN OperationKind[op] : op \in DOMAIN OperationKind}
    \cup {"MORE_DATA", "SOME_OTHER"}

\* Directories are only compared.
Symmetry == Permutations(Dir)
=============================================================================
