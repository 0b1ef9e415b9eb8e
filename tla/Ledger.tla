------------------------------- MODULE Ledger -------------------------------
(***************************************************************************)
(* What the sync engine makes of the Sonarr and Radarr instances it feeds, *)
(* however its requests interleave, fail or die: a ledger of entries per   *)
(* host.  An entry keeps its owner, the (application, indexer) pair it was *)
(* created for, an id is given out once, and the name a pair has for its   *)
(* entry is never the id of another pair's; what was added by hand only a  *)
(* hand removes.                                                           *)
(***************************************************************************)
EXTENDS Naturals

CONSTANTS Hosts, Human

VARIABLES
    entries, next,    \* per host: id -> entry; the next id
    names,            \* pair -> the id it knows its entry by
    home, opened,     \* application -> its host; the next application
    byHand            \* entries added or removed by hand so far

ledgerVars == <<entries, next, names, home, opened, byHand>>

Put(f, x, y) == [z \in DOMAIN f \cup {x} |-> IF z = x THEN y ELSE f[z]]
Drop(f, S) == [z \in DOMAIN f \ S |-> f[z]]

Init ==
    /\ entries = [host \in Hosts |-> <<>>] /\ next = [host \in Hosts |-> 1]
    /\ names = <<>>
    /\ DOMAIN home \subseteq 1 .. opened - 1
    /\ byHand = 0

Add(host, owner) ==
    /\ \E rev \in Nat : entries' = [entries EXCEPT ![host] = Put(@, next[host], [owner |-> owner, rev |-> rev])]
    /\ next' = [next EXCEPT ![host] = @ + 1]

Remove(host, id) == entries' = [entries EXCEPT ![host] = Drop(@, {id})] /\ UNCHANGED next

\* POST, PUT and DELETE of the engine; an entry to delete may be gone.
Post == /\ \E host \in Hosts, a \in 1 .. opened - 1, i \in Nat : Add(host, <<a, i>>)
        /\ UNCHANGED <<names, home, opened, byHand>>

Rewrite ==
    /\ \E host \in Hosts : \E id \in DOMAIN entries[host], rev \in Nat :
          /\ entries[host][id].owner # Human
          /\ entries' = [entries EXCEPT ![host][id].rev = rev]
    /\ UNCHANGED <<next, names, home, opened, byHand>>

Delete ==
    /\ \E host \in Hosts : \E id \in 1 .. next[host] - 1 :
          /\ id \in DOMAIN entries[host] => entries[host][id].owner # Human
          /\ Remove(host, id)
    /\ UNCHANGED <<names, home, opened, byHand>>

\* A pair is told the id of an entry of its own, which may be gone by then.
Name ==
    /\ \E p \in (DOMAIN home) \X Nat :
          \E id \in 1 .. next[home[p[1]]] - 1 :
              /\ id \in DOMAIN entries[home[p[1]]] => entries[home[p[1]]][id].owner = p
              /\ names' = Put(names, p, id)
    /\ UNCHANGED <<entries, next, home, opened, byHand>>

Forget == /\ \E P \in SUBSET DOMAIN names : names' = Drop(names, P)
          /\ UNCHANGED <<entries, next, home, opened, byHand>>

\* Applications come under ids of their own, and take their names along.
Open == /\ \E host \in Hosts : home' = Put(home, opened, host)
        /\ opened' = opened + 1
        /\ UNCHANGED <<entries, next, names, byHand>>

Close ==
    /\ \E a \in DOMAIN home :
          home' = Drop(home, {a}) /\ names' = Drop(names, {p \in DOMAIN names : p[1] = a})
    /\ UNCHANGED <<entries, next, opened, byHand>>

Hand == /\ \E host \in Hosts : Add(host, Human) \/ \E id \in DOMAIN entries[host] : Remove(host, id)
        /\ byHand' = byHand + 1
        /\ UNCHANGED <<names, home, opened>>

Next == Post \/ Rewrite \/ Delete \/ Name \/ Forget \/ Open \/ Close \/ Hand

LedgerSpec == Init /\ [][Next]_ledgerVars
=============================================================================
