---------------------------- MODULE SearchEndpoint ----------------------------
(***************************************************************************)
(* GET /api/v1/search (crates/oxidarr-prowl/src/api/search.rs): one task   *)
(* per selected row in a JoinSet, joined in the order they end, and one    *)
(* answer made of all outcomes.  The tasks of Cardigann rows are searches  *)
(* of CardigannSession; a Newznab or Torznab row is one request and its    *)
(* feed.  The Torznab route runs searches of the same rows beside it.      *)
(***************************************************************************)
EXTENDS CardigannSession, SequencesExt

CONSTANTS
    Feeds,          \* tasks of Newznab and Torznab rows
    Listing,        \* Listing[r][p]: the seeders of the releases on page p of row r
    Unknown         \* a release that reports no seeders

Rows == Searches \cup Feeds

ASSUME SearchEndpointAssumption ==
    /\ IsFiniteSet(Feeds) /\ Searches \cap Feeds = {} /\ Unknown \notin Nat
    /\ \A r \in Searches : Listing[r] \in [1..Pages -> Seq(Nat \cup {Unknown})]
    /\ \A r \in Feeds : Listing[r] \in [{1} -> Seq(Nat \cup {Unknown})]

VARIABLES
    feed,           \* the tasks of Feeds
    handler,        \* the search handler: its rows, the tasks to join, its locals
    answer          \* what it answered last

endpointVars == <<vars, feed, handler, answer>>

NoAnswer == [status |-> 0, releases |-> <<>>, failures |-> <<>>]
AtRest == [at |-> "idle", rows |-> {}, tasks |-> {},
           succeeded |-> 0, releases |-> <<>>, failures |-> <<>>]

InitEndpoint ==
    /\ Init
    /\ feed = [r \in Feeds |-> "idle"]
    /\ handler = AtRest
    /\ answer = NoAnswer

-----------------------------------------------------------------------------
\* What the task of r ended with.
At(r) == IF r \in Feeds THEN feed[r] ELSE run[r].at

Release(r, p, i) == [row |-> r, page |-> p, nr |-> i, seeders |-> Listing[r][p][i]]

ReleasesOfPage(r, p) == [i \in DOMAIN Listing[r][p] |-> Release(r, p, i)]

Extracted(r) ==
    IF r \in Feeds THEN ReleasesOfPage(r, 1)
    ELSE FlattenSeq([n \in DOMAIN run[r].got |-> ReleasesOfPage(r, run[r].got[n].page)])

\* Reverse(seeders): None is the least of all.
More(a, b) == a # Unknown /\ (b = Unknown \/ a > b)

\* MUTANT: a sort that turns ties round.
SortedUnstable(list) ==
    LET before(i, j) == \/ More(list[i].seeders, list[j].seeders)
                        \/ ~More(list[j].seeders, list[i].seeders) /\ j < i
        place(i) == 1 + Cardinality({j \in DOMAIN list : before(j, i)})
    IN  [n \in DOMAIN list |-> list[CHOOSE i \in DOMAIN list : place(i) = n]]

\* sort_by_key is stable.
Sorted(list) ==
    LET before(i, j) == \/ More(list[i].seeders, list[j].seeders)
                        \/ ~More(list[j].seeders, list[i].seeders) /\ i < j
        place(i) == 1 + Cardinality({j \in DOMAIN list : before(j, i)})
    IN  [n \in DOMAIN list |-> list[CHOOSE i \in DOMAIN list : place(i) = n]]

\* The enabled rows among those asked for; their searches start at once.
Ask(S) ==
    /\ handler.at # "joining" /\ \A r \in S \cap Searches : ~Busy(r)
    /\ feed' = [r \in Feeds |-> IF r \in S THEN "sent" ELSE "idle"]
    /\ IF S = {}
       THEN /\ handler' = [AtRest EXCEPT !.at = "answered"]
            /\ answer' = [NoAnswer EXCEPT !.status = 200]
       ELSE /\ handler' = [AtRest EXCEPT !.at = "joining", !.rows = S, !.tasks = S]
            /\ answer' = NoAnswer
    /\ IF S \cap Searches = {} THEN UNCHANGED vars ELSE Begin(S \cap Searches)

\* The Torznab route searches one row.
Torznab(s) ==
    /\ handler.at = "joining" => s \notin handler.rows
    /\ Begin({s})
    /\ UNCHANGED <<feed, handler, answer>>

FeedArrives(r) ==
    /\ feed[r] = "sent"
    /\ \E end \in Ended : feed' = [feed EXCEPT ![r] = end]
    /\ UNCHANGED <<vars, handler, answer>>

Found(r) == [handler EXCEPT !.tasks = @ \ {r}, !.succeeded = @ + 1,
                            !.releases = @ \o Extracted(r)]

\* MUTANT: a failed task is not joined.
JoinSuccess(r) ==
    /\ r \in handler.tasks /\ At(r) = "ok"
    /\ handler' = Found(r)
    /\ UNCHANGED <<vars, feed, answer>>

\* join_next: the releases of a task that found some or none, or its failure.
Join(r) ==
    /\ r \in handler.tasks /\ At(r) \in Ended
    /\ handler' = IF At(r) = "ok" THEN Found(r)
                  ELSE [handler EXCEPT !.tasks = @ \ {r}, !.failures = Append(@, r)]
    /\ UNCHANGED <<vars, feed, answer>>

AllJoined == handler.at = "joining" /\ handler.tasks = {}
Refusal == [status |-> 400, releases |-> <<>>, failures |-> handler.failures]
Listed == [status |-> 200, releases |-> Sorted(handler.releases), failures |-> <<>>]

\* MUTANT: no release counts as no success.
AnswerByReleases ==
    /\ AllJoined
    /\ handler' = [AtRest EXCEPT !.at = "answered"]
    /\ answer' = IF handler.releases = <<>> THEN Refusal ELSE Listed
    /\ UNCHANGED <<vars, feed>>

\* Every task has been joined: all failed, or everything found.
Answer ==
    /\ AllJoined
    /\ handler' = [AtRest EXCEPT !.at = "answered"]
    /\ answer' = IF handler.succeeded = 0 THEN Refusal ELSE Listed
    /\ UNCHANGED <<vars, feed>>

\* The client hangs up: the JoinSet is dropped and its tasks with it.
HangUp ==
    /\ handler.at = "joining" /\ Disturb
    /\ run' = [s \in Searches |-> IF s \in handler.rows /\ Busy(s) THEN Resting ELSE run[s]]
    /\ feed' = [r \in Feeds |-> "idle"]
    /\ handler' = AtRest
    /\ UNCHANGED <<def, tracker, jar, known, answer>>

\* A search runs on, beside the handler.
Background(s) ==
    /\ Exchange(s) \/ Fail(s) \/ (Drop(s) /\ s \notin handler.rows)
    /\ UNCHANGED <<feed, handler, answer>>

NextEndpoint ==
    \/ \E S \in SUBSET Rows : Ask(S)
    \/ \E s \in Searches : Torznab(s) \/ Background(s)
    \/ \E r \in Feeds : FeedArrives(r)
    \/ \E r \in Rows : Join(r)
    \/ Answer \/ HangUp
    \/ Expire /\ UNCHANGED <<feed, handler, answer>>

SpecEndpoint == InitEndpoint /\ [][NextEndpoint]_endpointVars

\* Every exchange ends within its timeout, and the handler is polled.
FairEndpoint ==
    /\ SpecEndpoint
    /\ \A s \in Searches : WF_endpointVars(Exchange(s) /\ UNCHANGED <<feed, handler, answer>>)
    /\ \A r \in Feeds : WF_endpointVars(FeedArrives(r))
    /\ \A r \in Rows : WF_endpointVars(Join(r))
    /\ WF_endpointVars(Answer)

-----------------------------------------------------------------------------
(***************************************************************************)
(* What must hold                                                          *)
(***************************************************************************)
Answers == handler.at = "joining" /\ handler'.at = "answered"

Succeeded == {r \in handler.rows : At(r) = "ok"}

AllReleases(r) == UNION {ToSet(ReleasesOfPage(r, p)) : p \in DOMAIN Listing[r]}

\* The answer is given when every task has ended.  With one success it is 200 and
\* carries every release of every page of every row that succeeded, once, and no
\* other, however many rows failed and in whatever order they ended; a row that
\* found nothing has succeeded.  Only when all failed it is 400, naming each once.
AnswerIsHonest == [][Answers =>
    /\ \A r \in handler.rows : At(r) \in Ended
    /\ IF Succeeded = {}
       THEN /\ answer'.status = 400 /\ answer'.releases = <<>>
            /\ ToSet(answer'.failures) = handler.rows
            /\ IsInjective(answer'.failures)
       ELSE /\ answer'.status = 200
            /\ IsInjective(answer'.releases)
            /\ ToSet(answer'.releases) = UNION {AllReleases(r) : r \in Succeeded}]_endpointVars

\* Most seeders first, unknown last; of one row's releases with as many seeders the
\* one its feed listed first comes first.
AnswerIsRanked == \A i, j \in DOMAIN answer.releases : i < j =>
    LET a == answer.releases[i]
        b == answer.releases[j]
    IN  /\ ~More(b.seeders, a.seeders)
        /\ a.row = b.row /\ a.seeders = b.seeders =>
             a.page < b.page \/ (a.page = b.page /\ a.nr < b.nr)

\* Every request is answered or given up by its client, although its searches share
\* the jar with each other and with the Torznab route.
AskIsAnswered == (handler.at = "joining") ~> (handler.at # "joining")
=============================================================================
