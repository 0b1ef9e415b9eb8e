------------------------------ MODULE Redirects ------------------------------
(***************************************************************************)
(* One HttpClient::execute of crates/oxidarr-indexer/src/reqwest_client.rs *)
(* The transport follows no redirect itself (Policy::none()): the client   *)
(* sends hop after hop and decides after each answer, with next_hop, the   *)
(* URL, the method and whether the body goes along.  The web is the        *)
(* environment: any status, any Location, any transport error.  A header's *)
(* spelling and the bytes of a body are left out; a body is there or not.  *)
(***************************************************************************)
EXTENDS Naturals, Sequences, TLAPS

CONSTANTS
    Urls,             \* where a request may go and a Location may lead
    Statuses,         \* the statuses the web answers with
    NoLocation,       \* an answer with no Location, or one no URL joins with
    NoBody,
    MaxRedirectHops   \* MAX_REDIRECT_HOPS

ASSUME HopsAssumption == MaxRedirectHops \in Nat
ASSUME LocationAssumption == NoLocation \notin Urls

VARIABLES
    asked,    \* the request execute was called with
    current,  \* the request of the hop that is out, headers left out
    hops,     \* what was followed so far: the method sent and its status
    outcome   \* "pending", the error, or the answer handed back

redirectVars == <<asked, current, hops, outcome>>

Methods == {"GET", "POST", "PUT", "DELETE"}
RedirectStatuses == {301, 302, 303, 307, 308}
Bodies == {NoBody, "form", "json"}

\* HttpRequest; its headers ride on every hop unchanged.
Requests == [method : Methods, url : Urls, body : Bodies, follow : BOOLEAN]

\* What next_hop reads of an answer.  A Location is resolved already:
\* current.join gives some URL or fails.
Answers == [status : Statuses, location : Urls \cup {NoLocation}]

Outcomes ==
    [kind : {"pending", "transport", "too many redirects"}]
        \cup [kind : {"response"}, status : Statuses, location : Urls \cup {NoLocation},
              final_url : Urls]

Pending == [kind |-> "pending"]

IsHop(req, answer) ==
    /\ req.follow
    /\ answer.status \in RedirectStatuses
    /\ answer.location /= NoLocation

\* (next_method, drop_body) of next_hop: 303 always becomes a bare GET, 301
\* and 302 do after a POST; everything else goes on as it was.
Downgrades(status, method) ==
    \/ status = 303
    \/ status \in {301, 302} /\ method = "POST"

\* MUTANT: testing the status alone.
NextHopKeepsBody(req, answer) ==
    IF answer.status \in {301, 302, 303} /\ req.method = "POST"
    THEN [req EXCEPT !.url = answer.location, !.method = "GET", !.body = NoBody]
    ELSE [req EXCEPT !.url = answer.location]

NextHop(req, answer) ==
    IF Downgrades(answer.status, req.method)
    THEN [req EXCEPT !.url = answer.location, !.method = "GET", !.body = NoBody]
    ELSE [req EXCEPT !.url = answer.location]

Execute(req) ==
    /\ asked = req
    /\ current = req
    /\ hops = <<>>
    /\ outcome = Pending

InitRedirects == \E req \in Requests : Execute(req)

\* The answer of this hop is not one to follow: its body is read and it is
\* handed back with the URL the hop went to.
Deliver ==
    /\ outcome = Pending
    /\ Len(hops) <= MaxRedirectHops
    /\ \E answer \in Answers :
        /\ ~IsHop(current, answer)
        /\ outcome' = [kind |-> "response", status |-> answer.status,
                       location |-> answer.location, final_url |-> current.url]
    /\ UNCHANGED <<asked, current, hops>>

Follow ==
    /\ outcome = Pending
    /\ Len(hops) <= MaxRedirectHops
    /\ \E answer \in Answers :
        /\ IsHop(current, answer)
        /\ current' = NextHop(current, answer)
        /\ hops' = Append(hops, [method |-> current.method, status |-> answer.status])
    /\ UNCHANGED <<asked, outcome>>

\* for _ in 0..=MAX_REDIRECT_HOPS is through.
GiveUp ==
    /\ outcome = Pending
    /\ Len(hops) > MaxRedirectHops
    /\ outcome' = [kind |-> "too many redirects"]
    /\ UNCHANGED <<asked, current, hops>>

\* send or bytes fails: the 30 second timeout included.
TransportFails ==
    /\ outcome = Pending
    /\ Len(hops) <= MaxRedirectHops
    /\ outcome' = [kind |-> "transport"]
    /\ UNCHANGED <<asked, current, hops>>

NextRedirect == Deliver \/ Follow \/ GiveUp \/ TransportFails

RedirectsSpec == InitRedirects /\ [][NextRedirect]_redirectVars

-----------------------------------------------------------------------------
(* Properties *)

RedirectsTypeOK ==
    /\ asked \in Requests
    /\ current \in Requests
    /\ hops \in Seq([method : Methods, status : RedirectStatuses])
    /\ Len(hops) <= MaxRedirectHops + 1
    /\ outcome \in Outcomes

Downgraded == \E i \in DOMAIN hops : Downgrades(hops[i].status, hops[i].method)

\* However long and mixed the chain, the request that is out is the one that
\* was asked for, or the bare GET it became: it lost its body and its method
\* together, exactly when some answer on the way called for it; and it never
\* gets them back, not even after a later 307, which "preserves" both.  A
\* chain is followed at most MAX_REDIRECT_HOPS hops plus the one whose target
\* is never sent, and only for a caller who wants it (reqwest_client.rs:241).
ChainKeepsTheRequest ==
    /\ current.body = IF Downgraded THEN NoBody ELSE asked.body
    /\ current.method = IF Downgraded THEN "GET" ELSE asked.method
    /\ current.follow = asked.follow
    /\ hops /= <<>> => asked.follow
    /\ Len(hops) <= MaxRedirectHops + 1
    /\ outcome.kind = "response" =>
        /\ outcome.final_url = current.url
        /\ Len(hops) <= MaxRedirectHops
        /\ asked.follow /\ outcome.status \in RedirectStatuses => outcome.location = NoLocation
    /\ outcome.kind = "too many redirects" => Len(hops) = MaxRedirectHops + 1

-----------------------------------------------------------------------------
(***************************************************************************)
(* For every set of URLs and statuses and every limit on the hops: the     *)
(* types of Redirects, and what a chain of redirects does to a request.    *)
(***************************************************************************)
Hop == [method : Methods, status : RedirectStatuses]

LEMMA NextHopTyped ==
    ASSUME NEW req \in Requests, NEW answer \in Answers, IsHop(req, answer)
    PROVE  NextHop(req, answer) \in Requests
  BY DEF NextHop, Requests, Answers, Bodies, Methods, IsHop

(***************************************************************************)
(* A hop leaves the caller's wish alone, and takes the body and the method *)
(* together or neither.                                                    *)
(***************************************************************************)
LEMMA NextHopTakesBoth ==
    ASSUME NEW req \in Requests, NEW answer \in Answers
    PROVE  /\ NextHop(req, answer).follow = req.follow
           /\ Downgrades(answer.status, req.method) =>
                NextHop(req, answer).body = NoBody /\ NextHop(req, answer).method = "GET"
           /\ ~Downgrades(answer.status, req.method) =>
                NextHop(req, answer).body = req.body /\ NextHop(req, answer).method = req.method
  BY DEF NextHop, Requests

\* The types of one execute of the client (reqwest_client.rs).
THEOREM TypeCorrect == RedirectsSpec => []RedirectsTypeOK
  <1>1. InitRedirects => RedirectsTypeOK
    BY HopsAssumption DEF InitRedirects, Execute, RedirectsTypeOK, Outcomes, Pending
  <1>2. RedirectsTypeOK /\ [NextRedirect]_redirectVars => RedirectsTypeOK'
    <2> SUFFICES ASSUME RedirectsTypeOK, [NextRedirect]_redirectVars PROVE RedirectsTypeOK'
      OBVIOUS
    <2> USE HopsAssumption
    <2>1. CASE Deliver
      <3>1. PICK answer \in Answers :
              outcome' = [kind |-> "response", status |-> answer.status,
                          location |-> answer.location, final_url |-> current.url]
        BY <2>1 DEF Deliver
      <3>2. answer.status \in Statuses /\ answer.location \in Urls \cup {NoLocation} /\ current.url \in Urls
        BY DEF Answers, RedirectsTypeOK, Requests
      <3>3. outcome' \in Outcomes
        BY <3>1, <3>2 DEF Outcomes
      <3> QED
        BY <2>1, <3>3 DEF Deliver, RedirectsTypeOK
    <2>2. CASE Follow
      <3>1. PICK answer \in Answers : /\ IsHop(current, answer)
                                      /\ current' = NextHop(current, answer)
                                      /\ hops' = Append(hops, [method |-> current.method, status |-> answer.status])
        BY <2>2 DEF Follow
      <3>2. current' \in Requests
        BY <3>1, NextHopTyped DEF RedirectsTypeOK
      <3>3. [method |-> current.method, status |-> answer.status] \in Hop
        BY <3>1 DEF Hop, IsHop, RedirectsTypeOK, Requests
      <3>4. hops' \in Seq(Hop) /\ Len(hops') = Len(hops) + 1
        BY <3>1, <3>3 DEF RedirectsTypeOK, Hop
      <3> QED
        BY <2>2, <3>2, <3>4 DEF Follow, RedirectsTypeOK, Hop
    <2>3. CASE GiveUp
      BY <2>3 DEF GiveUp, RedirectsTypeOK, Outcomes
    <2>4. CASE TransportFails
      BY <2>4 DEF TransportFails, RedirectsTypeOK, Outcomes
    <2>5. CASE UNCHANGED redirectVars
      BY <2>5 DEF redirectVars, RedirectsTypeOK
    <2> QED
      BY <2>1, <2>2, <2>3, <2>4, <2>5 DEF NextRedirect
  <1> QED
    BY <1>1, <1>2, PTL DEF RedirectsSpec

LEMMA DowngradedStays == ASSUME UNCHANGED hops PROVE Downgraded' <=> Downgraded
  BY DEF Downgraded, Downgrades

(***************************************************************************)
(* A chain that grows by a hop is downgraded if it was, or by that hop.    *)
(***************************************************************************)
LEMMA DowngradedByHop ==
    ASSUME RedirectsTypeOK, NEW answer \in Answers,
           hops' = Append(hops, [method |-> current.method, status |-> answer.status])
    PROVE  Downgraded' <=> Downgraded \/ Downgrades(answer.status, current.method)
  <1> DEFINE hop == [method |-> current.method, status |-> answer.status]
             n == Len(hops)
  <1>1. /\ n \in Nat /\ DOMAIN hops = 1..n /\ DOMAIN hops' = 1..(n + 1)
        /\ \A i \in 1..n : hops'[i] = hops[i]
        /\ hops'[n + 1] = hop
    BY DEF RedirectsTypeOK
  <1>2. \A i \in 1..(n + 1) : i \in 1..n \/ i = n + 1
    BY <1>1
  <1>3. 1..n \subseteq 1..(n + 1) /\ n + 1 \in 1..(n + 1)
    BY <1>1
  <1>4. Downgrades(hop.status, hop.method) <=> Downgrades(answer.status, current.method)
    BY DEF Downgrades
  <1>5. Downgraded' <=> \E i \in DOMAIN hops' : Downgrades(hops'[i].status, hops'[i].method)
    BY DEF Downgraded, Downgrades
  <1>6. Downgraded <=> \E i \in DOMAIN hops : Downgrades(hops[i].status, hops[i].method)
    BY DEF Downgraded
  <1> HIDE DEF hop, n
  <1> QED
    BY <1>1, <1>2, <1>3, <1>4, <1>5, <1>6

\* However long the chain, the request that is out is the one that was asked
\* for or the bare GET it became, and the limit holds (reqwest_client.rs:241).
THEOREM ChainKeeps == RedirectsSpec => []ChainKeepsTheRequest
  <1>1. InitRedirects => ChainKeepsTheRequest
    BY HopsAssumption DEF InitRedirects, Execute, ChainKeepsTheRequest, Downgraded, Pending
  <1>2. RedirectsTypeOK /\ ChainKeepsTheRequest /\ [NextRedirect]_redirectVars => ChainKeepsTheRequest'
    <2> SUFFICES ASSUME RedirectsTypeOK, ChainKeepsTheRequest, [NextRedirect]_redirectVars
                 PROVE  ChainKeepsTheRequest'
      OBVIOUS
    <2> USE HopsAssumption
    <2>0. Len(hops) \in Nat
      BY DEF RedirectsTypeOK
    <2>1. CASE Deliver
      <3>1. Downgraded' <=> Downgraded
        BY <2>1, DowngradedStays DEF Deliver
      <3>2. PICK answer \in Answers :
              /\ ~IsHop(current, answer)
              /\ outcome' = [kind |-> "response", status |-> answer.status,
                             location |-> answer.location, final_url |-> current.url]
        BY <2>1 DEF Deliver
      <3>3. /\ outcome'.kind = "response" /\ outcome'.final_url = current.url
            /\ outcome'.status = answer.status /\ outcome'.location = answer.location
        BY <3>2
      <3>4. asked.follow /\ outcome'.status \in RedirectStatuses => outcome'.location = NoLocation
        BY <3>2, <3>3 DEF IsHop, ChainKeepsTheRequest
      <3>5. UNCHANGED <<asked, current, hops>> /\ Len(hops) <= MaxRedirectHops
        BY <2>1 DEF Deliver
      <3> QED
        BY <3>1, <3>3, <3>4, <3>5 DEF ChainKeepsTheRequest
    <2>2. CASE Follow
      <3>1. PICK answer \in Answers : /\ IsHop(current, answer)
                                      /\ current' = NextHop(current, answer)
                                      /\ hops' = Append(hops, [method |-> current.method, status |-> answer.status])
        BY <2>2 DEF Follow
      <3>2. Downgraded' <=> Downgraded \/ Downgrades(answer.status, current.method)
        BY <3>1, DowngradedByHop
      <3>3. /\ current' = NextHop(current, answer)
            /\ current'.follow = current.follow
            /\ Downgrades(answer.status, current.method) => current'.body = NoBody /\ current'.method = "GET"
            /\ ~Downgrades(answer.status, current.method) => current'.body = current.body /\ current'.method = current.method
        BY <3>1, NextHopTakesBoth DEF RedirectsTypeOK
      <3>4. /\ current'.body = IF Downgraded' THEN NoBody ELSE asked'.body
            /\ current'.method = IF Downgraded' THEN "GET" ELSE asked'.method
        BY <2>2, <3>2, <3>3 DEF Follow, ChainKeepsTheRequest
      <3>5. Len(hops') = Len(hops) + 1 /\ Len(hops') <= MaxRedirectHops + 1
        BY <2>0, <2>2, <3>1 DEF Follow, RedirectsTypeOK
      <3>6. asked'.follow /\ current'.follow = asked'.follow
        BY <2>2, <3>1, <3>3 DEF Follow, IsHop, ChainKeepsTheRequest
      <3>7. outcome' = Pending
        BY <2>2 DEF Follow
      <3> QED
        BY <3>4, <3>5, <3>6, <3>7 DEF ChainKeepsTheRequest, Pending
    <2>3. CASE GiveUp
      <3>1. Downgraded' <=> Downgraded
        BY <2>3, DowngradedStays DEF GiveUp
      <3>2. outcome'.kind = "too many redirects"
        BY <2>3 DEF GiveUp
      <3>4. Len(hops) > MaxRedirectHops /\ Len(hops) <= MaxRedirectHops + 1
        BY <2>3 DEF GiveUp, ChainKeepsTheRequest
      <3>5. Len(hops) = MaxRedirectHops + 1
        BY <3>4, <2>0
      <3>3. UNCHANGED <<asked, current, hops>>
        BY <2>3 DEF GiveUp
      <3> QED
        BY <3>1, <3>2, <3>3, <3>5 DEF ChainKeepsTheRequest
    <2>4. CASE TransportFails
      <3>1. Downgraded' <=> Downgraded
        BY <2>4, DowngradedStays DEF TransportFails
      <3> QED
        BY <2>4, <3>1 DEF TransportFails, ChainKeepsTheRequest
    <2>5. CASE UNCHANGED redirectVars
      <3>1. Downgraded' <=> Downgraded
        BY <2>5, DowngradedStays DEF redirectVars
      <3> QED
        BY <2>5, <3>1 DEF redirectVars, ChainKeepsTheRequest
    <2> QED
      BY <2>1, <2>2, <2>3, <2>4, <2>5 DEF NextRedirect
  <1> QED
    BY <1>1, <1>2, TypeCorrect, PTL DEF RedirectsSpec
=============================================================================
