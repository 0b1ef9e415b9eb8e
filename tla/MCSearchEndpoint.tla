-------------------------- MODULE MCSearchEndpoint --------------------------
(* Instances of SearchEndpoint for TLC. *)
EXTENDS SearchEndpoint

CONSTANTS s1, s2, f1

Definition(login, valid) ==
    [login |-> login, rules |-> FALSE, test |-> FALSE, literal |-> FALSE,
     cookie |-> FALSE, valid |-> valid]

Plain == [visitors |-> FALSE, single |-> FALSE, hides |-> FALSE, token |-> FALSE]

(* Searches that heal, and searches that are rejected for good. *)
Accounts == {Definition("submit", v) : v \in BOOLEAN} \X {Plain}

(* Ties within a row and between rows, a release without seeders, a row that *)
(* finds nothing.                                                            *)
Listings == [r \in Searches \cup Feeds |->
               CASE r = s1 -> <<<<Unknown, 2, 2>>>>
                 [] r = s2 -> <<<<>>>>
                 [] r = f1 -> <<<<2, 5, 2>>>>]
=============================================================================
