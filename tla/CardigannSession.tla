--------------------------- MODULE CardigannSession ---------------------------
(***************************************************************************)
(* CardigannIndexer::search (crates/oxidarr-indexer/src/cardigann.rs) and  *)
(* login::authenticate, run by several requests at once over the one       *)
(* tracker client of the process, whose cookie jar they share.             *)
(*                                                                         *)
(* A request is read from the jar when it is sent; what its response sets  *)
(* goes into the jar when the response arrives.  In between the tracker    *)
(* serves it, and other searches send and receive.  Abstracted: a page is  *)
(* what search.error or login.test make of it, a cookie is the session it  *)
(* names, an exchange includes the redirects it follows.                   *)
(***************************************************************************)
EXTENDS Naturals, Sequences, FiniteSets

CONSTANTS
    Searches,       \* calls of search that may run at once, for one tracker
    Pages,          \* requests build_search_requests makes for one search
    Setups,         \* definitions and trackers explored, <<def, tracker>>
    Sessions, NoSession,
    MaxTrouble      \* bound: failed exchanges, dropped searches, expired sessions

\* login: what login.method and login.captcha say ("submit" is post and get,
\* "form" is form and no method); rules: login.error knows a refused login;
\* test: there is a login.test; literal: login.cookies is not empty; cookie: the
\* cookie setting has a value; valid: the tracker accepts the credentials.
DefinitionSpace ==
    [login : {"none", "captcha", "submit", "form", "cookie", "other"},
     rules : BOOLEAN, test : BOOLEAN, literal : BOOLEAN,
     cookie : BOOLEAN, valid : BOOLEAN]

\* visitors: every visitor gets a session; single: a login ends the account's
\* other sessions; hides: members see no login form; token: the form is bound to
\* the session it was served to.
TrackerSpace ==
    [visitors : BOOLEAN, single : BOOLEAN, hides : BOOLEAN, token : BOOLEAN]

ASSUME CardigannSessionAssumption ==
    /\ Pages \in Nat \ {0} /\ MaxTrouble \in Nat /\ IsFiniteSet(Searches)
    /\ Setups \subseteq DefinitionSpace \X TrackerSpace
    /\ Sessions \subseteq Nat /\ NoSession \notin Sessions

VARIABLES
    def, tracker,   \* chosen once
    jar,            \* the session the shared jar names
    known,          \* the tracker's sessions: session -> "visitor", "member", "gone"
    run,            \* the searches
    past,           \* history of each search: how it began, and its logins
    trouble

vars == <<def, tracker, jar, known, run, past, trouble>>

Requests == {"page", "landing", "submit", "test", "again"}
Ended == {"ok", "failed"}

\* Nothing received yet.
Waiting == [fine |-> FALSE, sets |-> NoSession, served |-> FALSE]
Reply(fine, sets) == [fine |-> fine, sets |-> sets, served |-> TRUE]

Resting == [at |-> "idle", page |-> 1, carries |-> NoSession, form |-> NoSession,
            reply |-> Waiting, got |-> <<>>]

Init ==
    /\ \E u \in Setups : def = u[1] /\ tracker = u[2]
    /\ jar = NoSession
    /\ known = [x \in Sessions |-> "gone"]
    /\ run = [s \in Searches |-> Resting]
    /\ past = [s \in Searches |-> [mood |-> "disturbed", logins |-> 0]]
    /\ trouble = 0

Busy(s) == run[s].at \in Requests
Member(x) == x # NoSession /\ known[x] = "member"
Disturbed(s) == IF Busy(s) THEN [past[s] EXCEPT !.mood = "disturbed"] ELSE past[s]
Alive(x)  == x # NoSession /\ known[x] # "gone"

-----------------------------------------------------------------------------
(***************************************************************************)
(* A search starts: several at once from GET /api/v1/search, one from the  *)
(* Torznab route.  Nothing is authenticated before a page is rejected.     *)
(***************************************************************************)
Begin(S) ==
    /\ S # {} /\ \A s \in S : ~Busy(s)
    /\ run' = [s \in Searches |->
                 IF s \in S THEN [Resting EXCEPT !.at = "page", !.carries = jar] ELSE run[s]]
    /\ LET alone == Cardinality(S) = 1 /\ \A s \in Searches : ~Busy(s)
           mood == IF ~alone THEN "disturbed" ELSE IF Member(jar) THEN "warm" ELSE "cold"
       IN  past' = [s \in Searches |->
                      IF s \in S THEN [mood |-> mood, logins |-> 0] ELSE Disturbed(s)]
    /\ UNCHANGED <<def, tracker, jar, known, trouble>>

-----------------------------------------------------------------------------
(***************************************************************************)
(* The tracker serves the request of s.                                    *)
(***************************************************************************)
Fresh == {x \in Sessions :
            /\ x # jar
            /\ \A s \in Searches : x \notin {run[s].carries, run[s].form, run[s].reply.sets}}

\* A new session; one that neither the jar nor a search names is as good as gone.
Opened(x, as, lost) == known' = [y \in Sessions |->
    IF y = x THEN as ELSE IF y \in Fresh \/ y \in lost THEN "gone" ELSE known[y]]

First(x) == x \in Fresh /\ \A y \in Fresh : x <= y

Served(s, reply) ==
    /\ run' = [run EXCEPT ![s].reply = reply]
    /\ UNCHANGED <<def, tracker, jar, past, trouble>>

\* A page for members, or a login form; a visitor may get a session with it.
ServePage(s) ==
    /\ Busy(s) /\ ~run[s].reply.served /\ run[s].at # "submit"
    /\ LET visitor == run[s].carries
           landing == run[s].at = "landing"
           fine == IF landing THEN ~(tracker.hides /\ Member(visitor)) ELSE Member(visitor)
       IN  IF ~Alive(visitor) /\ (tracker.visitors \/ (landing /\ tracker.token))
           THEN \E x \in Sessions : /\ First(x) /\ Opened(x, "visitor", {})
                                    /\ Served(s, Reply(fine, x))
           ELSE Served(s, Reply(fine, NoSession)) /\ UNCHANGED known

\* The tracker takes the credentials, and a token of the session they come with.
Accepts(s) ==
    /\ def.valid
    /\ def.login = "form" /\ tracker.token =>
         run[s].form = run[s].carries /\ Alive(run[s].carries)

ServeLogin(s) ==
    /\ Busy(s) /\ ~run[s].reply.served /\ run[s].at = "submit"
    /\ \/ /\ Accepts(s)
          /\ \E x \in Sessions :
               /\ First(x)
               /\ Opened(x, "member", {y \in Sessions : tracker.single /\ Member(y)})
               /\ Served(s, Reply(TRUE, x))
       \/ /\ ~Accepts(s)
          /\ Served(s, Reply(FALSE, NoSession)) /\ UNCHANGED known

-----------------------------------------------------------------------------
(***************************************************************************)
(* The response arrives: its cookie goes into the jar, and the code runs   *)
(* on to the next request or to the end of the search.                     *)
(***************************************************************************)
Jar(s) == IF run[s].reply.sets # NoSession THEN run[s].reply.sets ELSE jar

\* MUTANT: a request goes out with the cookie of the request before it.
SendStale(s, at) ==
    run' = [run EXCEPT ![s].at = at, ![s].carries = @, ![s].reply = Waiting]

\* A Cookie header of the request itself (login.cookies) replaces the jar's.
Send(s, at) ==
    run' = [run EXCEPT ![s].at = at, ![s].reply = Waiting,
                       ![s].carries = IF def.login = "form" /\ def.literal /\ at \in {"landing", "submit"}
                                      THEN NoSession ELSE Jar(s)]

End(s, at) == run' = [run EXCEPT ![s].at = at, ![s].reply = Waiting,
                                 ![s].carries = NoSession, ![s].form = NoSession]

Arrives(s, at) ==
    /\ run[s].at = at /\ run[s].reply.served
    /\ jar' = Jar(s)
    /\ UNCHANGED <<def, tracker, known, trouble>>

Extract(s, next) ==
    [run[s] EXCEPT !.got = Append(@, [page |-> run[s].page, fine |-> run[s].reply.fine]),
                   !.reply = Waiting, !.form = NoSession,
                   !.at = next, !.page = IF next = "page" THEN @ + 1 ELSE @,
                   !.carries = IF next = "page" THEN Jar(s) ELSE NoSession]

\* The rows of a page are extracted; on to the next page.
Accept(s, at) ==
    /\ Arrives(s, at) /\ run[s].reply.fine
    /\ run' = [run EXCEPT ![s] = Extract(s, IF run[s].page < Pages THEN "page" ELSE "ok")]
    /\ UNCHANGED past

\* verify_test, and on to the request again.
Verify(s) == Send(s, IF def.test THEN "test" ELSE "again")

CountLogin(s) == past' = [past EXCEPT ![s].logins = @ + 1]

\* search.error matched the first answer: authenticate.
Rejected(s) ==
    /\ Arrives(s, "page") /\ ~run[s].reply.fine
    /\ CASE def.login = "submit" -> Send(s, "submit") /\ CountLogin(s)
         [] def.login = "form"   -> Send(s, "landing") /\ UNCHANGED past
         [] def.login = "cookie" /\ def.cookie -> Verify(s) /\ UNCHANGED past
         [] OTHER -> End(s, "failed") /\ UNCHANGED past

\* form_login: no form on the landing page, or the form is posted.
Landing(s) ==
    /\ Arrives(s, "landing")
    /\ \/ /\ run[s].reply.fine
          /\ run' = [run EXCEPT ![s].at = "submit", ![s].reply = Waiting,
                       ![s].form = IF run[s].reply.sets # NoSession
                                   THEN run[s].reply.sets ELSE run[s].carries,
                       ![s].carries = IF def.literal THEN NoSession ELSE Jar(s)]
          /\ CountLogin(s)
       \/ ~run[s].reply.fine /\ End(s, "failed") /\ UNCHANGED past

\* MUTANT: a login counts for nothing when another search changed the jar meanwhile.
LoggedInAlone(s) ==
    /\ Arrives(s, "submit") /\ UNCHANGED past
    /\ IF (~run[s].reply.fine /\ def.rules) \/ run[s].carries # jar
       THEN End(s, "failed") ELSE Verify(s)

\* login.error matched the answer to the login, or it is taken for a success.
LoggedIn(s) ==
    /\ Arrives(s, "submit") /\ UNCHANGED past
    /\ IF ~run[s].reply.fine /\ def.rules THEN End(s, "failed") ELSE Verify(s)

Tested(s) ==
    /\ Arrives(s, "test") /\ UNCHANGED past
    /\ IF run[s].reply.fine THEN Send(s, "again") ELSE End(s, "failed")

\* MUTANT: a second rejection is extracted as if it were the page.
AgainUnchecked(s) ==
    /\ Arrives(s, "again")
    /\ run' = [run EXCEPT ![s] = Extract(s, IF run[s].page < Pages THEN "page" ELSE "ok")]
    /\ UNCHANGED past

\* MUTANT: every rejection is answered with a login.
AgainRetried(s) ==
    \/ Accept(s, "again")
    \/ /\ Arrives(s, "again") /\ ~run[s].reply.fine
       /\ Send(s, IF def.login = "form" THEN "landing"
                  ELSE IF def.login = "submit" THEN "submit" ELSE "again")
       /\ past' = [past EXCEPT ![s].logins = IF @ <= Pages THEN @ + 1 ELSE @]

\* The request after the login: a second rejection is final.
Again(s) ==
    \/ Accept(s, "again")
    \/ /\ Arrives(s, "again") /\ ~run[s].reply.fine
       /\ End(s, "failed") /\ UNCHANGED past

Receive(s) ==
    \/ Accept(s, "page") \/ Rejected(s)
    \/ Landing(s) \/ LoggedIn(s) \/ Tested(s) \/ Again(s)

-----------------------------------------------------------------------------
(***************************************************************************)
(* Trouble: an exchange fails, a body does not decode into rows, the       *)
(* client hangs up, the tracker forgets a session.                         *)
(***************************************************************************)
Disturb == /\ trouble < MaxTrouble /\ trouble' = trouble + 1
           /\ past' = [s \in Searches |-> Disturbed(s)]

Fail(s) == /\ Busy(s) /\ Disturb
           /\ End(s, "failed")
           /\ jar' \in {jar, Jar(s)}
           /\ UNCHANGED <<def, tracker, known>>

Drop(s) == /\ Busy(s) /\ Disturb
           /\ run' = [run EXCEPT ![s] = Resting]
           /\ UNCHANGED <<def, tracker, jar, known>>

Expire == /\ Disturb
          /\ \E x \in Sessions : Alive(x) /\ known' = [known EXCEPT ![x] = "gone"]
          /\ UNCHANGED <<def, tracker, jar, run>>

Exchange(s) == ServePage(s) \/ ServeLogin(s) \/ Receive(s)

Next ==
    \/ \E S \in SUBSET Searches : Begin(S)
    \/ \E s \in Searches : Exchange(s) \/ Fail(s) \/ Drop(s)
    \/ Expire

Spec == Init /\ [][Next]_vars

-----------------------------------------------------------------------------
(***************************************************************************)
(* What must hold                                                          *)
(***************************************************************************)
Names == Sessions \cup {NoSession}

TypeOK ==
    /\ \E u \in Setups : def = u[1] /\ tracker = u[2]
    /\ jar \in Names
    /\ known \in [Sessions -> {"visitor", "member", "gone"}]
    /\ run \in [Searches ->
          [at : {"idle"} \cup Requests \cup Ended, page : 1..Pages, carries : Names,
           form : Names, reply : [fine : BOOLEAN, sets : Names, served : BOOLEAN],
           got : Seq([page : 1..Pages, fine : BOOLEAN])]]
    /\ past \in [Searches -> [mood : {"cold", "warm", "disturbed"}, logins : Nat]]
    /\ trouble \in 0..MaxTrouble

\* A search that reports success extracted every page of it, in order and once,
\* and none that search.error rejected: not the body that made it log in, nor one
\* after a second rejection.
OkIsComplete == \A s \in Searches : run[s].at = "ok" =>
    run[s].got = [p \in 1..Pages |-> [page |-> p, fine |-> TRUE]]

\* "A rejection is retried exactly once": at most one login for each page asked for,
\* whatever other searches do to the jar meanwhile and whatever the tracker accepts.
OneLoginPerPage == \A s \in Searches : run[s].at # "idle" => past[s].logins <= run[s].page

\* The engine can log in to this tracker at all.
CanLogIn ==
    /\ def.valid
    /\ \/ def.login = "submit"
       \/ def.login = "form" /\ ~(tracker.token /\ def.literal)

\* "Never authenticates eagerly" and "a cold session's first search costs one wasted
\* GET": a search nothing else disturbs succeeds without a login when the jar holds
\* a live session, and else with one login for all its pages, whatever stale or
\* visitor cookie earlier searches left in the jar.  It fails only where the engine
\* cannot log in.
CalmSearchHeals == \A s \in Searches : 
    past[s].mood # "disturbed" /\ run[s].at \in Ended =>
    IF past[s].mood = "warm" THEN run[s].at = "ok" /\ past[s].logins = 0
    ELSE /\ run[s].at = "ok" <=> CanLogIn
         /\ CanLogIn => past[s].logins = 1

\* Searches that meet a cold session at the same time all succeed, each with a login
\* of its own, when the tracker keeps every session, sets no cookie but at a login,
\* and shows its members the form.
RacingSearchesHeal ==
    /\ CanLogIn /\ trouble = 0
    /\ ~tracker.single /\ ~tracker.visitors
    /\ def.login = "form" => ~tracker.hides /\ ~tracker.token
    => \A s \in Searches : run[s].at # "failed"

\* Every search ends, whatever the tracker answers.
SearchEnds == \A s \in Searches : Busy(s) ~> ~Busy(s)
=============================================================================
