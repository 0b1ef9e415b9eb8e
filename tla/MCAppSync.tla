----------------------------- MODULE MCAppSync -----------------------------
(* Instances of AppSync for TLC. *)
EXTENDS AppSync, TLC

HandlerSymmetry == Permutations(Handlers)

Full(host) == [level |-> "fullSync", host |-> host]

CONSTANTS h1, h2, p1, p2

OneFull == <<Full(h1)>>
TwoFull == <<Full(h1), Full(h2)>>
=============================================================================
