--------------------------- MODULE MCDefinitions ---------------------------
(* Instances of Definitions for TLC. *)
EXTENDS Definitions

CONSTANTS a, b, r1, r2

EveryStep == {"download", "clear", "mkdir", "extract", "clearprev", "aside",
              "swap", "dropprev", "failed"}

(* The mirror serves the wrong repository for a while, then an id is gone. *)
Changing == <<{a, b}, {}, {b}>>
Same == <<{a}, {a}>>
=============================================================================
