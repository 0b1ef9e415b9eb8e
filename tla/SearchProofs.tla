---------------------------- MODULE SearchProofs ----------------------------
(***************************************************************************)
(* First, of the searches of a tracker, for every definition, tracker,     *)
(* number of pages, searches and failures: the types of CardigannSession,  *)
(* that a successful search is complete, and that a page costs at most one *)
(* login; then, that a search nothing disturbs succeeds wherever the       *)
(* engine can log in, and that searches which meet a cold session together *)
(* all succeed where the tracker keeps every session.  Second, of the      *)
(* endpoint that starts them, for any rows, listings and failures: the     *)
(* answer of GET /api/v1/search holds all that the rows which succeeded    *)
(* listed, once, and in rank; it is a refusal when all of them failed, and *)
(* only then.                                                              *)
(***************************************************************************)
EXTENDS SearchEndpoint, SequenceTheorems, FiniteSetTheorems, TLAPS

-----------------------------------------------------------------------------
(***************************************************************************)
(* The searches (CardigannSession; Spec is theirs).                        *)
(***************************************************************************)

Replies == [fine : BOOLEAN, sets : Names, served : BOOLEAN]
Extractions == [page : 1..Pages, fine : BOOLEAN]
Runs == [at : {"idle"} \cup Requests \cup Ended, page : 1..Pages, carries : Names,
         form : Names, reply : Replies, got : Seq(Extractions)]
Pasts == [mood : {"cold", "warm", "disturbed"}, logins : Nat]

(***************************************************************************)
(* The strengthening.  A search has extracted the pages before the one it  *)
(* is at, and all of them when it is over; before it logs in for a page it *)
(* has at most one login for each page before.                             *)
(***************************************************************************)
Done(n) == [p \in 1..n |-> [page |-> p, fine |-> TRUE]]

Tidy(r, h) ==
    /\ r.got = Done(IF r.at = "ok" THEN Pages ELSE r.page - 1)
    /\ r.at \in {"page", "landing"} => h.logins < r.page
    /\ r.at # "idle" => h.logins <= r.page

AllTidy == \A s \in Searches : Tidy(run[s], past[s])

LEMMA DoneNext ==
    ASSUME NEW n \in Nat
    PROVE  Append(Done(n), [page |-> n + 1, fine |-> TRUE]) = Done(n + 1)
  <1>1. PICK E : E = [page : Nat, fine : BOOLEAN]
    OBVIOUS
  <1>2. PICK e : e = [page |-> n + 1, fine |-> TRUE]
    OBVIOUS
  <1>3. Done(n) \in Seq(E) /\ Len(Done(n)) = n
    BY <1>1 DEF Done
  <1>4. Done(n + 1) \in Seq(E) /\ Len(Done(n + 1)) = n + 1
    BY <1>1 DEF Done
  <1>5. e \in E
    BY <1>1, <1>2
  <1>6. /\ Append(Done(n), e) \in Seq(E)
        /\ Len(Append(Done(n), e)) = n + 1
        /\ \A i \in 1..n : Append(Done(n), e)[i] = Done(n)[i]
        /\ Append(Done(n), e)[n + 1] = e
    BY <1>3, <1>5, AppendProperties
  <1>7. \A i \in 1..n : Done(n)[i] = Done(n + 1)[i]
    BY DEF Done
  <1>8. Done(n + 1)[n + 1] = e
    BY <1>2 DEF Done
  <1>9. \A i \in 1..(n + 1) : Append(Done(n), e)[i] = Done(n + 1)[i]
    BY <1>6, <1>7, <1>8
  <1> QED BY <1>2, <1>4, <1>6, <1>9, SeqEqual

LEMMA DoneZero == Done(0) = <<>>
  <1>1. Done(0) \in Seq([page : Nat, fine : BOOLEAN]) /\ Len(Done(0)) = 0
    BY DEF Done
  <1> QED BY <1>1, EmptySeq

(***************************************************************************)
(* What the operations of the code do to one search.                       *)
(***************************************************************************)
LEMMA Types ==
    ASSUME TypeOK
    PROVE  /\ run \in [Searches -> Runs] /\ past \in [Searches -> Pasts]
           /\ jar \in Names /\ Pages \in Nat \ {0}
           /\ \A s \in Searches : Jar(s) \in Names
           /\ \A s \in Searches : run[s] \in Runs /\ past[s] \in Pasts
  BY CardigannSessionAssumption DEF TypeOK, Runs, Replies, Extractions, Pasts, Jar

LEMMA WaitingIs == Waiting \in Replies /\ NoSession \in Names
  BY DEF Waiting, Replies, Names

LEMMA RestingIs == Resting \in Runs
  BY WaitingIs, CardigannSessionAssumption DEF Resting, Runs, Extractions

\* The rest of the searches is left alone.
Else(s) == \A t \in Searches : t # s => run'[t] = run[t]

\* One search starts a request or ends: its page and what it got stay.
LEMMA MoveIs ==
    ASSUME TypeOK, NEW s \in Searches, NEW at \in {"idle"} \cup Requests \cup Ended,
           NEW carries \in Names, NEW form \in Names,
           run' = [run EXCEPT ![s] = [run[s] EXCEPT !.at = at, !.reply = Waiting,
                                                    !.carries = carries, !.form = form]]
    PROVE  /\ run' \in [Searches -> Runs] /\ Else(s)
           /\ run'[s].at = at /\ run'[s].page = run[s].page /\ run'[s].got = run[s].got
  <1>1. run \in [Searches -> Runs] /\ run[s] \in Runs
    BY Types
  <1> DEFINE q == [run[s] EXCEPT !.at = at, !.reply = Waiting, !.carries = carries, !.form = form]
  <1>2. q \in Runs /\ q.at = at /\ q.page = run[s].page /\ q.got = run[s].got
    BY <1>1, WaitingIs DEF Runs
  <1>3. run' = [run EXCEPT ![s] = q]
    OBVIOUS
  <1> HIDE DEF q
  <1>4. run' \in [Searches -> Runs] /\ run'[s] = q /\ \A t \in Searches : t # s => run'[t] = run[t]
    BY <1>1, <1>2, <1>3
  <1> QED BY <1>2, <1>4 DEF Else

LEMMA SendIs ==
    ASSUME TypeOK, NEW s \in Searches, NEW at \in Requests, Send(s, at)
    PROVE  /\ run' \in [Searches -> Runs] /\ Else(s)
           /\ run'[s].at = at /\ run'[s].page = run[s].page /\ run'[s].got = run[s].got
  <1> DEFINE carries == IF def.login = "form" /\ def.literal /\ at \in {"landing", "submit"}
                        THEN NoSession ELSE Jar(s)
  <1>1. run \in [Searches -> Runs] /\ run[s] \in Runs /\ run[s].form \in Names
    BY Types DEF Runs
  <1>2. carries \in Names
    BY Types, WaitingIs
  <1>3. run' = [run EXCEPT ![s].at = at, ![s].reply = Waiting, ![s].carries = carries]
    BY DEF Send
  <1> HIDE DEF carries
  <1>4. run' = [run EXCEPT ![s] = [run[s] EXCEPT !.at = at, !.reply = Waiting,
                                     !.carries = carries, !.form = run[s].form]]
    BY <1>1, <1>3 DEF Runs
  <1> QED BY <1>1, <1>2, <1>4, MoveIs

LEMMA EndIs ==
    ASSUME TypeOK, NEW s \in Searches, End(s, "failed")
    PROVE  /\ run' \in [Searches -> Runs] /\ Else(s)
           /\ run'[s].at = "failed" /\ run'[s].page = run[s].page /\ run'[s].got = run[s].got
  <1>1. run \in [Searches -> Runs] /\ run[s] \in Runs
    BY Types
  <1>2. run' = [run EXCEPT ![s] = [run[s] EXCEPT !.at = "failed", !.reply = Waiting,
                                     !.carries = NoSession, !.form = NoSession]]
    BY <1>1 DEF End, Runs
  <1> QED BY <1>2, WaitingIs, MoveIs DEF Ended

LEMMA AcceptIs ==
    ASSUME TypeOK, NEW s \in Searches, NEW at \in Requests, Accept(s, at)
    PROVE  /\ run' \in [Searches -> Runs] /\ Else(s)
           /\ run'[s].got = Append(run[s].got, [page |-> run[s].page, fine |-> TRUE])
           /\ \/ run'[s].at = "page" /\ run'[s].page = run[s].page + 1
              \/ run'[s].at = "ok" /\ run'[s].page = run[s].page /\ run[s].page = Pages
  <1>1. run[s].reply.fine = TRUE
    BY Types DEF Accept, Runs, Replies
  <1> DEFINE e == [page |-> run[s].page, fine |-> TRUE]
             next == IF run[s].page < Pages THEN "page" ELSE "ok"
  <1>2. e \in Extractions /\ run[s].got \in Seq(Extractions)
    BY Types DEF Runs, Extractions
  <1>3. Append(run[s].got, e) \in Seq(Extractions)
    BY <1>2
  <1>4. Extract(s, next) = [run[s] EXCEPT !.got = Append(@, e), !.reply = Waiting,
                              !.form = NoSession, !.at = next,
                              !.page = IF next = "page" THEN @ + 1 ELSE @,
                              !.carries = IF next = "page" THEN Jar(s) ELSE NoSession]
    BY <1>1 DEF Extract
  <1>5. run' = [run EXCEPT ![s] = Extract(s, next)]
    BY DEF Accept
  <1> HIDE DEF e
  <1>p. run[s].page \in 1..Pages /\ Pages \in Nat
    BY Types DEF Runs
  <1>6. /\ Extract(s, next) \in Runs
        /\ \/ Extract(s, next).at = "page" /\ Extract(s, next).page = run[s].page + 1
           \/ Extract(s, next).at = "ok" /\ Extract(s, next).page = run[s].page /\ run[s].page = Pages
    <2>a. CASE run[s].page < Pages
      <3>1. next = "page" /\ run[s].page + 1 \in 1..Pages
        BY <1>p, <2>a
      <3> HIDE DEF next
      <3>2. Extract(s, next) = [run[s] EXCEPT !.got = Append(@, e), !.reply = Waiting,
                                  !.form = NoSession, !.at = "page", !.page = @ + 1,
                                  !.carries = Jar(s)]
        BY <1>4, <3>1
      <3>3. PICK j \in Names : j = Jar(s)
        BY Types
      <3>4. run[s] \in Runs /\ "page" \in Requests
        BY Types DEF Requests
      <3>5. Extract(s, next) \in Runs
        BY <1>3, <3>1, <3>2, <3>3, <3>4, WaitingIs DEF Runs
      <3> QED BY <3>2, <3>4, <3>5 DEF Runs
    <2>b. CASE ~(run[s].page < Pages)
      <3>1. next = "ok" /\ run[s].page = Pages
        BY <2>b, <1>p
      <3> HIDE DEF next
      <3>2. Extract(s, next) = [run[s] EXCEPT !.got = Append(@, e), !.reply = Waiting,
                                  !.form = NoSession, !.at = "ok", !.page = @,
                                  !.carries = NoSession]
        BY <1>4, <3>1
      <3> QED BY <1>3, <3>1, <3>2, Types, WaitingIs DEF Runs, Ended
    <2> QED BY <2>a, <2>b
  <1>7. run'[s] = Extract(s, next) /\ Else(s) /\ run' \in [Searches -> Runs]
    BY <1>5, <1>6, Types DEF Else
  <1>8. run'[s].got = Append(run[s].got, e)
    BY <1>4, <1>7, Types DEF Runs
  <1>9. \/ run'[s].at = "page" /\ run'[s].page = run[s].page + 1
        \/ run'[s].at = "ok" /\ run'[s].page = run[s].page /\ run[s].page = Pages
    BY <1>6, <1>7
  <1> QED BY <1>7, <1>8, <1>9 DEF e


LEMMA DisturbedIs ==
    ASSUME TypeOK, NEW s \in Searches
    PROVE  Disturbed(s) \in Pasts /\ Disturbed(s).logins = past[s].logins
  BY Types DEF Disturbed, Pasts

-----------------------------------------------------------------------------
(***************************************************************************)
(* The invariant is put together from what a step does to each variable.   *)
(***************************************************************************)
Standings == {"visitor", "member", "gone"}

LEMMA Assembled ==
    ASSUME TypeOK, UNCHANGED <<def, tracker>>, jar' \in Names,
           known' \in [Sessions -> Standings], run' \in [Searches -> Runs],
           past' \in [Searches -> Pasts], trouble' \in 0..MaxTrouble
    PROVE  TypeOK'
  BY DEF TypeOK, Runs, Replies, Extractions, Pasts, Standings

\* One search changes; those left alone stay tidy.
LEMMA OthersTidy ==
    ASSUME TypeOK, AllTidy, NEW s \in Searches, Else(s),
           \A t \in Searches : t # s => past'[t].logins = past[t].logins,
           Tidy(run'[s], past'[s])
    PROVE  AllTidy'
  <1> SUFFICES ASSUME NEW t \in Searches, t # s PROVE Tidy(run'[t], past'[t])
    BY DEF AllTidy
  <1>1. run'[t] = run[t] /\ past'[t].logins = past[t].logins /\ Tidy(run[t], past[t])
    BY DEF Else, AllTidy
  <1> QED BY <1>1 DEF Tidy

LEMMA BeginKeeps ==
    ASSUME TypeOK, AllTidy, NEW S \in SUBSET Searches, Begin(S)
    PROVE  TypeOK' /\ AllTidy'
  <1> DEFINE r == [Resting EXCEPT !.at = "page", !.carries = jar]
  <1>1. r \in Runs /\ r.at = "page" /\ r.page = 1 /\ r.got = <<>>
    BY RestingIs, Types DEF Resting, Runs, Requests
  <1>2. run' = [s \in Searches |-> IF s \in S THEN r ELSE run[s]]
    BY DEF Begin
  <1> HIDE DEF r
  <1>3. PICK mood \in {"cold", "warm", "disturbed"} :
           past' = [s \in Searches |->
                      IF s \in S THEN [mood |-> mood, logins |-> 0] ELSE Disturbed(s)]
    BY DEF Begin
  <1>4. \A s \in Searches : IF s \in S
           THEN past'[s] \in Pasts /\ past'[s].logins = 0 /\ run'[s] = r
           ELSE past'[s] \in Pasts /\ past'[s].logins = past[s].logins /\ run'[s] = run[s]
    BY <1>2, <1>3, DisturbedIs DEF Pasts
  <1>5. TypeOK'
    <2>1. run' \in [Searches -> Runs]
      BY <1>1, <1>2, Types
    <2>2. past' \in [Searches -> Pasts]
      BY <1>3, <1>4
    <2>3. UNCHANGED <<def, tracker, jar, known, trouble>>
      BY DEF Begin
    <2> QED BY <2>1, <2>2, <2>3, Assembled, Types DEF TypeOK, Standings
  <1>6. AllTidy'
    <2> SUFFICES ASSUME NEW s \in Searches PROVE Tidy(run'[s], past'[s])
      BY DEF AllTidy
    <2>1. CASE s \in S
      BY <2>1, <1>1, <1>4, DoneZero DEF Tidy
    <2>2. CASE s \notin S
      BY <2>2, <1>4 DEF AllTidy, Tidy
    <2> QED BY <2>1, <2>2
  <1> QED BY <1>5, <1>6

\* What the tracker does is no business of the search until it is received.
LEMMA ServedKeeps ==
    ASSUME TypeOK, AllTidy, NEW s \in Searches, NEW reply \in Replies, Served(s, reply),
           known' \in [Sessions -> Standings]
    PROVE  TypeOK' /\ AllTidy'
  <1>1. /\ run' \in [Searches -> Runs] /\ Else(s)
        /\ run'[s].at = run[s].at /\ run'[s].page = run[s].page /\ run'[s].got = run[s].got
    BY Types DEF Served, Runs, Else
  <1>2. UNCHANGED <<def, tracker, jar, past, trouble>>
    BY DEF Served
  <1>3. TypeOK'
    BY <1>1, <1>2, Assembled, Types DEF TypeOK
  <1>4. Tidy(run'[s], past'[s])
    BY <1>1, <1>2 DEF AllTidy, Tidy
  <1> QED BY <1>1, <1>2, <1>3, <1>4, OthersTidy

LEMMA OpenedIs ==
    ASSUME TypeOK, NEW x, NEW as \in Standings, NEW lost, Opened(x, as, lost)
    PROVE  known' \in [Sessions -> Standings]
  BY DEF Opened, TypeOK, Standings

LEMMA ServeKeeps ==
    ASSUME TypeOK, AllTidy, NEW s \in Searches, ServePage(s) \/ ServeLogin(s)
    PROVE  TypeOK' /\ AllTidy'
  <1>1. \A fine \in BOOLEAN, sets \in Names : Reply(fine, sets) \in Replies
    BY DEF Reply, Replies
  <1>2. PICK reply \in Replies : Served(s, reply) /\ known' \in [Sessions -> Standings]
    <2>1. CASE ServePage(s)
      <3> DEFINE fine == IF run[s].at = "landing"
                         THEN ~(tracker.hides /\ Member(run[s].carries))
                         ELSE Member(run[s].carries)
      <3>1. fine \in BOOLEAN
        BY DEF Member
      <3>2. \/ \E x \in Sessions : Opened(x, "visitor", {}) /\ Served(s, Reply(fine, x))
            \/ Served(s, Reply(fine, NoSession)) /\ UNCHANGED known
        BY <2>1 DEF ServePage
      <3> HIDE DEF fine
      <3> QED BY <1>1, <3>1, <3>2, OpenedIs DEF Names, Standings, TypeOK
    <2>2. CASE ServeLogin(s)
      <3>1. \/ \E x \in Sessions :
                  /\ Opened(x, "member", {y \in Sessions : tracker.single /\ Member(y)})
                  /\ Served(s, Reply(TRUE, x))
            \/ Served(s, Reply(FALSE, NoSession)) /\ UNCHANGED known
        BY <2>2 DEF ServeLogin
      <3> QED BY <1>1, <3>1, OpenedIs DEF Names, Standings, TypeOK
    <2> QED BY <2>1, <2>2
  <1> QED BY <1>2, ServedKeeps

-----------------------------------------------------------------------------
(***************************************************************************)
(* A response is received.                                                 *)
(***************************************************************************)
LEMMA ReceivedKeeps ==
    ASSUME TypeOK, AllTidy, NEW s \in Searches, NEW at, Arrives(s, at),
           run' \in [Searches -> Runs], Else(s),
           past' \in [Searches -> Pasts],
           \A t \in Searches : t # s => past'[t].logins = past[t].logins,
           Tidy(run'[s], past'[s])
    PROVE  TypeOK' /\ AllTidy'
  <1>1. jar' \in Names /\ UNCHANGED <<def, tracker, known, trouble>>
    BY Types DEF Arrives
  <1> QED BY <1>1, Assembled, OthersTidy DEF TypeOK, Standings

LEMMA CountLoginIs ==
    ASSUME TypeOK, NEW s \in Searches, CountLogin(s)
    PROVE  /\ past' \in [Searches -> Pasts] /\ past'[s].logins = past[s].logins + 1
           /\ \A t \in Searches : t # s => past'[t].logins = past[t].logins
  BY Types DEF CountLogin, Pasts

LEMMA AcceptKeeps ==
    ASSUME TypeOK, AllTidy, NEW s \in Searches, NEW at \in Requests, Accept(s, at)
    PROVE  TypeOK' /\ AllTidy'
  <1>1. /\ Arrives(s, at) /\ run[s].at = at /\ UNCHANGED past
        /\ past \in [Searches -> Pasts] /\ past[s].logins \in Nat
        /\ run[s].page \in 1..Pages /\ Pages \in Nat
    BY Types DEF Accept, Arrives, Pasts, Runs
  <1>2. run[s].got = Done(run[s].page - 1) /\ past[s].logins <= run[s].page
    BY <1>1 DEF AllTidy, Tidy, Requests
  <1>3. run'[s].got = Done(run[s].page)
    <2>1. run'[s].got = Append(Done(run[s].page - 1), [page |-> run[s].page, fine |-> TRUE])
      BY <1>2, AcceptIs
    <2>2. run[s].page - 1 \in Nat /\ (run[s].page - 1) + 1 = run[s].page
      BY <1>1
    <2> QED BY <2>1, <2>2, DoneNext
  <1>4. Tidy(run'[s], past'[s])
    <2>1. CASE run'[s].at = "page" /\ run'[s].page = run[s].page + 1
      BY <2>1, <1>1, <1>2, <1>3 DEF Tidy
    <2>2. CASE run'[s].at = "ok" /\ run'[s].page = run[s].page /\ run[s].page = Pages
      BY <2>2, <1>1, <1>2, <1>3 DEF Tidy
    <2> QED BY <2>1, <2>2, AcceptIs
  <1> QED BY <1>1, <1>4, AcceptIs, ReceivedKeeps

\* The search fails, or sends its next request for the same page; it has logged in
\* for the page at most once.
LEMMA SamePageKeeps ==
    ASSUME TypeOK, AllTidy, NEW s \in Searches, NEW at \in Requests, Arrives(s, at),
           NEW next \in Requests \cup {"failed"},
           run' \in [Searches -> Runs], Else(s),
           run'[s].at = next, run'[s].page = run[s].page, run'[s].got = run[s].got,
           \/ UNCHANGED past /\ next # "page" /\ (next = "landing" => at = "page")
           \/ CountLogin(s) /\ next = "submit" /\ at \in {"page", "landing"}
    PROVE  TypeOK' /\ AllTidy'
  <1>1. /\ run[s].at = at /\ past \in [Searches -> Pasts] /\ past[s].logins \in Nat
        /\ run[s].page \in Nat
    BY Types DEF Arrives, Pasts, Runs
  <1>2. /\ run'[s].got = Done(run'[s].page - 1)
        /\ past[s].logins <= run[s].page
        /\ at \in {"page", "landing"} => past[s].logins < run[s].page
    BY <1>1 DEF AllTidy, Tidy, Requests
  <1>3. CASE UNCHANGED past /\ next # "page" /\ (next = "landing" => at = "page")
    <2>1. Tidy(run'[s], past'[s])
      BY <1>1, <1>2, <1>3 DEF Tidy, Requests
    <2> QED BY <1>1, <1>3, <2>1, ReceivedKeeps
  <1>4. CASE CountLogin(s) /\ next = "submit" /\ at \in {"page", "landing"}
    <2>1. Tidy(run'[s], past'[s])
      BY <1>1, <1>2, <1>4, CountLoginIs DEF Tidy
    <2> QED BY <1>4, <2>1, CountLoginIs, ReceivedKeeps
  <1> QED BY <1>3, <1>4

LEMMA RejectedKeeps ==
    ASSUME TypeOK, AllTidy, NEW s \in Searches, Rejected(s)
    PROVE  TypeOK' /\ AllTidy'
  <1>1. Arrives(s, "page") /\ "page" \in Requests
    BY DEF Rejected, Requests
  <1>2. \/ Send(s, "submit") /\ CountLogin(s)
        \/ Send(s, "landing") /\ UNCHANGED past
        \/ Verify(s) /\ UNCHANGED past
        \/ End(s, "failed") /\ UNCHANGED past
    BY DEF Rejected
  <1>3. CASE Send(s, "submit") /\ CountLogin(s)
    BY <1>1, <1>3, SendIs, SamePageKeeps DEF Requests
  <1>4. CASE Send(s, "landing") /\ UNCHANGED past
    BY <1>1, <1>4, SendIs, SamePageKeeps DEF Requests
  <1>5. CASE Verify(s) /\ UNCHANGED past
    <2>1. PICK at \in {"test", "again"} : Send(s, at)
      BY <1>5 DEF Verify
    <2> QED BY <1>1, <1>5, <2>1, SendIs, SamePageKeeps DEF Requests
  <1>6. CASE End(s, "failed") /\ UNCHANGED past
    BY <1>1, <1>6, EndIs, SamePageKeeps
  <1> QED BY <1>2, <1>3, <1>4, <1>5, <1>6

LEMMA LandingKeeps ==
    ASSUME TypeOK, AllTidy, NEW s \in Searches, Landing(s)
    PROVE  TypeOK' /\ AllTidy'
  <1>1. Arrives(s, "landing") /\ {"landing", "submit"} \subseteq Requests
    BY DEF Landing, Requests
  <1>2. CASE End(s, "failed") /\ UNCHANGED past
    BY <1>1, <1>2, EndIs, SamePageKeeps
  <1>3. CASE /\ run' = [run EXCEPT ![s].at = "submit", ![s].reply = Waiting,
                          ![s].form = IF run[s].reply.sets # NoSession
                                      THEN run[s].reply.sets ELSE run[s].carries,
                          ![s].carries = IF def.literal THEN NoSession ELSE Jar(s)]
             /\ CountLogin(s)
    <2> DEFINE form == IF run[s].reply.sets # NoSession
                       THEN run[s].reply.sets ELSE run[s].carries
               carries == IF def.literal THEN NoSession ELSE Jar(s)
    <2>1. form \in Names /\ carries \in Names
      BY Types, WaitingIs DEF Runs, Replies
    <2>2. run' = [run EXCEPT ![s].at = "submit", ![s].reply = Waiting,
                             ![s].form = form, ![s].carries = carries]
      BY <1>3
    <2> HIDE DEF form, carries
    <2>3. run \in [Searches -> Runs] /\ run[s] \in Runs /\ "submit" \in Requests
      BY Types DEF Requests
    <2>4. run' = [run EXCEPT ![s] = [run[s] EXCEPT !.at = "submit", !.reply = Waiting,
                                       !.carries = carries, !.form = form]]
      BY <2>2, <2>3 DEF Runs
    <2>5. /\ run' \in [Searches -> Runs] /\ Else(s)
          /\ run'[s].at = "submit" /\ run'[s].page = run[s].page /\ run'[s].got = run[s].got
      BY <2>1, <2>3, <2>4, MoveIs
    <2> QED BY <1>1, <1>3, <2>5, SamePageKeeps
  <1> QED BY <1>2, <1>3 DEF Landing

LEMMA LoginAnswerKeeps ==
    ASSUME TypeOK, AllTidy, NEW s \in Searches, LoggedIn(s) \/ Tested(s)
    PROVE  TypeOK' /\ AllTidy'
  <1>1. PICK at \in {"submit", "test"} : Arrives(s, at)
    BY DEF LoggedIn, Tested
  <1>2. UNCHANGED past /\ {"submit", "test", "again"} \subseteq Requests
    BY DEF LoggedIn, Tested, Requests
  <1>3. End(s, "failed") \/ \E next \in {"test", "again"} : Send(s, next)
    BY DEF LoggedIn, Tested, Verify
  <1>4. CASE End(s, "failed")
    BY <1>1, <1>2, <1>4, EndIs, SamePageKeeps
  <1>5. CASE \E next \in {"test", "again"} : Send(s, next)
    <2>1. PICK next \in {"test", "again"} : Send(s, next)
      BY <1>5
    <2> QED BY <1>1, <1>2, <2>1, SendIs, SamePageKeeps
  <1> QED BY <1>3, <1>4, <1>5

LEMMA AgainKeeps ==
    ASSUME TypeOK, AllTidy, NEW s \in Searches, Again(s)
    PROVE  TypeOK' /\ AllTidy'
  <1>1. "again" \in Requests
    BY DEF Requests
  <1>2. CASE Accept(s, "again")
    BY <1>1, <1>2, AcceptKeeps
  <1>3. CASE Arrives(s, "again") /\ End(s, "failed") /\ UNCHANGED past
    BY <1>1, <1>3, EndIs, SamePageKeeps
  <1> QED BY <1>2, <1>3 DEF Again

LEMMA ReceiveKeeps ==
    ASSUME TypeOK, AllTidy, NEW s \in Searches, Receive(s)
    PROVE  TypeOK' /\ AllTidy'
  <1>1. "page" \in Requests
    BY DEF Requests
  <1> QED BY <1>1, AcceptKeeps, RejectedKeeps, LandingKeeps, LoginAnswerKeeps, AgainKeeps
          DEF Receive

-----------------------------------------------------------------------------
(***************************************************************************)
(* Trouble                                                                 *)
(***************************************************************************)
LEMMA DisturbIs ==
    ASSUME TypeOK, Disturb
    PROVE  /\ trouble' \in 0..MaxTrouble /\ past' \in [Searches -> Pasts]
           /\ \A s \in Searches : past'[s].logins = past[s].logins
  <1>1. trouble' \in 0..MaxTrouble
    BY CardigannSessionAssumption DEF TypeOK, Disturb
  <1>2. past' = [s \in Searches |-> Disturbed(s)]
    BY DEF Disturb
  <1> QED BY <1>1, <1>2, DisturbedIs

LEMMA FailKeeps ==
    ASSUME TypeOK, AllTidy, NEW s \in Searches, Fail(s)
    PROVE  TypeOK' /\ AllTidy'
  <1>1. /\ Busy(s) /\ Disturb /\ End(s, "failed") /\ jar' \in Names
        /\ UNCHANGED <<def, tracker, known>>
    BY Types DEF Fail
  <1>2. Tidy(run'[s], past'[s])
    BY <1>1, EndIs, DisturbIs DEF AllTidy, Tidy, Busy, Requests
  <1>3. TypeOK'
    BY <1>1, EndIs, DisturbIs, Assembled DEF TypeOK, Standings
  <1> QED BY <1>1, <1>2, <1>3, EndIs, DisturbIs, OthersTidy

LEMMA DropKeeps ==
    ASSUME TypeOK, AllTidy, NEW s \in Searches, Drop(s)
    PROVE  TypeOK' /\ AllTidy'
  <1>1. Disturb /\ UNCHANGED <<def, tracker, jar, known>> /\ run' = [run EXCEPT ![s] = Resting]
    BY DEF Drop
  <1>2. run' \in [Searches -> Runs] /\ Else(s) /\ run'[s] = Resting
    BY <1>1, RestingIs, Types DEF Else
  <1>3. Tidy(run'[s], past'[s])
    BY <1>2, DoneZero DEF Tidy, Resting
  <1>4. TypeOK'
    BY <1>1, <1>2, DisturbIs, Types, Assembled DEF TypeOK, Standings
  <1> QED BY <1>1, <1>2, <1>3, <1>4, DisturbIs, OthersTidy

LEMMA ExpireKeeps ==
    ASSUME TypeOK, AllTidy, Expire
    PROVE  TypeOK' /\ AllTidy'
  <1>1. Disturb /\ UNCHANGED <<def, tracker, jar, run>>
    BY DEF Expire
  <1>2. known' \in [Sessions -> Standings]
    BY DEF Expire, TypeOK, Standings
  <1>3. TypeOK'
    BY <1>1, <1>2, DisturbIs, Types, Assembled
  <1>4. AllTidy'
    BY <1>1, DisturbIs DEF AllTidy, Tidy
  <1> QED BY <1>3, <1>4

-----------------------------------------------------------------------------
LEMMA Keeps ==
    ASSUME TypeOK, AllTidy, [Next]_vars
    PROVE  TypeOK' /\ AllTidy'
  <1>1. CASE UNCHANGED vars
    BY <1>1 DEF vars, TypeOK, AllTidy, Tidy
  <1>2. ASSUME NEW S \in SUBSET Searches, Begin(S) PROVE TypeOK' /\ AllTidy'
    BY <1>2, BeginKeeps
  <1>3. ASSUME NEW s \in Searches, Exchange(s) PROVE TypeOK' /\ AllTidy'
    BY <1>3, ServeKeeps, ReceiveKeeps DEF Exchange
  <1>4. ASSUME NEW s \in Searches, Fail(s) PROVE TypeOK' /\ AllTidy'
    BY <1>4, FailKeeps
  <1>5. ASSUME NEW s \in Searches, Drop(s) PROVE TypeOK' /\ AllTidy'
    BY <1>5, DropKeeps
  <1>6. CASE Expire
    BY <1>6, ExpireKeeps
  <1> QED BY <1>1, <1>2, <1>3, <1>4, <1>5, <1>6 DEF Next

LEMMA Starts ==
    ASSUME Init
    PROVE  TypeOK /\ AllTidy
  <1>1. /\ \E u \in Setups : def = u[1] /\ tracker = u[2]
        /\ jar \in Names
        /\ known \in [Sessions -> Standings]
        /\ run \in [Searches -> Runs]
        /\ past \in [Searches -> Pasts]
        /\ trouble \in 0..MaxTrouble
    BY RestingIs, WaitingIs, CardigannSessionAssumption DEF Init, Pasts, Standings
  <1>2. TypeOK
    BY <1>1 DEF TypeOK, Runs, Replies, Extractions, Pasts, Standings
  <1>3. AllTidy
    BY DoneZero DEF Init, AllTidy, Tidy, Resting
  <1> QED BY <1>2, <1>3

LEMMA Always == Spec => [](TypeOK /\ AllTidy)
  <1>1. Init => TypeOK /\ AllTidy
    BY Starts
  <1>2. (TypeOK /\ AllTidy) /\ [Next]_vars => (TypeOK /\ AllTidy)'
    BY Keeps
  <1> QED BY <1>1, <1>2, PTL DEF Spec

\* Every variable of the model keeps its type, whatever definition, tracker and
\* number of searches: the jar names a session of the tracker or none.
THEOREM TypeCorrect == Spec => []TypeOK
  BY Always, PTL

\* A search that succeeds has extracted each of its pages once, in order, and none
\* that search.error rejected, for any number of pages, searches and failures.
THEOREM SuccessIsComplete == Spec => []OkIsComplete
  <1>1. AllTidy => OkIsComplete
    BY DEF AllTidy, Tidy, Done, OkIsComplete
  <1> QED BY <1>1, Always, PTL

\* A search logs in at most once for each page it asks for, however many searches
\* share the jar and whatever the tracker answers.
THEOREM LoginIsBounded == Spec => []OneLoginPerPage
  <1>1. AllTidy => OneLoginPerPage
    BY DEF AllTidy, Tidy, OneLoginPerPage
  <1> QED BY <1>1, Always, PTL

-----------------------------------------------------------------------------
(***************************************************************************)
(* What a step does to the search that takes it.                           *)
(***************************************************************************)
Moved(s, at, carries) ==
    run'[s].at = at /\ run'[s].carries = carries /\ run'[s].reply = Waiting

\* The request of an exchange over which login.cookies stand for the jar.
Sent(s, at) == IF def.login = "form" /\ def.literal /\ at \in {"landing", "submit"}
               THEN NoSession ELSE Jar(s)

LEMMA UpdateIs ==
    ASSUME TypeOK, NEW s \in Searches, NEW at, NEW carries, NEW form,
           run' = [run EXCEPT ![s] = [run[s] EXCEPT !.at = at, !.reply = Waiting,
                                                    !.carries = carries, !.form = form]]
    PROVE  Else(s) /\ Moved(s, at, carries) /\ run'[s].form = form
  <1>1. run \in [Searches -> Runs] /\ run[s] \in Runs
    BY Types
  <1> DEFINE q == [run[s] EXCEPT !.at = at, !.reply = Waiting, !.carries = carries, !.form = form]
  <1>2. q.at = at /\ q.carries = carries /\ q.reply = Waiting /\ q.form = form
    BY <1>1 DEF Runs
  <1>3. run' = [run EXCEPT ![s] = q]
    OBVIOUS
  <1> HIDE DEF q
  <1>4. run'[s] = q /\ \A t \in Searches : t # s => run'[t] = run[t]
    BY <1>1, <1>3
  <1> QED BY <1>2, <1>4 DEF Moved, Else

LEMMA SendMoves ==
    ASSUME TypeOK, NEW s \in Searches, NEW at \in Requests, Send(s, at)
    PROVE  Else(s) /\ Moved(s, at, Sent(s, at)) /\ run'[s].form = run[s].form
  <1>1. run \in [Searches -> Runs] /\ run[s] \in Runs
    BY Types
  <1> DEFINE carries == Sent(s, at)
             form == run[s].form
  <1>2. run' = [run EXCEPT ![s].at = at, ![s].reply = Waiting, ![s].carries = carries]
    BY DEF Send, Sent
  <1> HIDE DEF carries
  <1>3. run' = [run EXCEPT ![s] = [run[s] EXCEPT !.at = at, !.reply = Waiting,
                                     !.carries = carries, !.form = form]]
    BY <1>1, <1>2 DEF Runs
  <1> HIDE DEF form
  <1>4. Else(s) /\ Moved(s, at, carries) /\ run'[s].form = form
    BY <1>3, UpdateIs
  <1> QED BY <1>4 DEF carries, form

LEMMA EndMoves ==
    ASSUME TypeOK, NEW s \in Searches, NEW at, End(s, at)
    PROVE  Else(s) /\ Moved(s, at, NoSession)
  <1>1. run \in [Searches -> Runs] /\ run[s] \in Runs
    BY Types
  <1>2. run' = [run EXCEPT ![s] = [run[s] EXCEPT !.at = at, !.reply = Waiting,
                                     !.carries = NoSession, !.form = NoSession]]
    BY <1>1 DEF End, Runs
  <1> QED BY <1>2, UpdateIs

LEMMA AcceptMoves ==
    ASSUME TypeOK, NEW s \in Searches, NEW at \in Requests, Accept(s, at)
    PROVE  /\ Else(s) /\ run[s].reply.fine
           /\ Moved(s, "page", Jar(s)) \/ Moved(s, "ok", NoSession)
  <1> DEFINE next == IF run[s].page < Pages THEN "page" ELSE "ok"
             q == Extract(s, next)
  <1>1. run \in [Searches -> Runs] /\ run[s] \in Runs /\ run[s].reply.fine
    BY Types DEF Accept
  <1>2. run' = [run EXCEPT ![s] = q]
    BY DEF Accept
  <1>3. next \in {"page", "ok"}
    OBVIOUS
  <1> HIDE DEF next
  <1>4. /\ q.at = next /\ q.reply = Waiting
        /\ q.carries = IF next = "page" THEN Jar(s) ELSE NoSession
    BY <1>1 DEF Extract, Runs
  <1> HIDE DEF q
  <1>5. run'[s] = q /\ \A t \in Searches : t # s => run'[t] = run[t]
    BY <1>1, <1>2
  <1> QED BY <1>1, <1>3, <1>4, <1>5 DEF Moved, Else

-----------------------------------------------------------------------------
(***************************************************************************)
(* A response is received: the cases of Receive, with all they change.     *)
(***************************************************************************)
Paged(s) == /\ run[s].at \in {"page", "again"} /\ run[s].reply.fine
            /\ Moved(s, "page", Jar(s)) \/ Moved(s, "ok", NoSession)
Submits(s) == run[s].at = "page" /\ ~run[s].reply.fine /\ def.login = "submit"
              /\ Moved(s, "submit", Jar(s))
Lands(s) == run[s].at = "page" /\ ~run[s].reply.fine /\ def.login = "form"
            /\ Moved(s, "landing", IF def.literal THEN NoSession ELSE Jar(s))
Posts(s) == /\ run[s].at = "landing" /\ run[s].reply.fine
            /\ Moved(s, "submit", IF def.literal THEN NoSession ELSE Jar(s))
            /\ run'[s].form = IF run[s].reply.sets # NoSession THEN run[s].reply.sets
                              ELSE run[s].carries
Verifies(s) == /\ \/ run[s].at = "page" /\ ~run[s].reply.fine /\ def.login = "cookie"
                  \/ run[s].at = "submit"
                  \/ run[s].at = "test" /\ run[s].reply.fine
               /\ Moved(s, "test", Jar(s)) \/ Moved(s, "again", Jar(s))
GivesUp(s) == /\ ~run[s].reply.fine /\ run[s].at \in Requests
              /\ run[s].at = "page" => def.login \notin {"submit", "form"}
              /\ Moved(s, "failed", NoSession)

ReceivedOne(s) ==
    /\ Else(s) /\ jar' = Jar(s) /\ run[s].reply.served
    /\ UNCHANGED <<def, tracker, known, trouble>>

LEMMA RejectedMoves ==
    ASSUME TypeOK, NEW s \in Searches, Rejected(s)
    PROVE  /\ ReceivedOne(s)
           /\ \/ UNCHANGED past /\ (Lands(s) \/ Verifies(s) \/ GivesUp(s))
              \/ CountLogin(s) /\ Submits(s)
  <1>1. Arrives(s, "page") /\ ~run[s].reply.fine
    BY DEF Rejected
  <1>2. {"submit", "landing", "test", "again"} \subseteq Requests
    BY DEF Requests
  <1>3. CASE def.login = "submit"
    <2>1. Send(s, "submit") /\ CountLogin(s)
      BY <1>3 DEF Rejected
    <2> QED BY <1>1, <1>2, <1>3, <2>1, SendMoves DEF Arrives, ReceivedOne, Submits, Sent
  <1>4. CASE def.login = "form"
    <2>1. Send(s, "landing") /\ UNCHANGED past
      BY <1>4 DEF Rejected
    <2> QED BY <1>1, <1>2, <1>4, <2>1, SendMoves DEF Arrives, ReceivedOne, Lands, Sent
  <1>5. CASE def.login = "cookie" /\ def.cookie
    <2>1. (Send(s, "test") \/ Send(s, "again")) /\ UNCHANGED past
      BY <1>5 DEF Rejected, Verify
    <2> QED BY <1>1, <1>2, <1>5, <2>1, SendMoves DEF Arrives, ReceivedOne, Verifies, Sent
  <1>6. CASE def.login \notin {"submit", "form"} /\ ~(def.login = "cookie" /\ def.cookie)
    <2>1. End(s, "failed") /\ UNCHANGED past
      BY <1>6 DEF Rejected
    <2> QED BY <1>1, <1>6, <2>1, EndMoves DEF Arrives, ReceivedOne, GivesUp, Requests
  <1> QED BY <1>3, <1>4, <1>5, <1>6

LEMMA LandingMoves ==
    ASSUME TypeOK, NEW s \in Searches, Landing(s)
    PROVE  /\ ReceivedOne(s) /\ run[s].at = "landing"
           /\ \/ CountLogin(s) /\ Posts(s)
              \/ UNCHANGED past /\ GivesUp(s)
  <1>1. Arrives(s, "landing")
    BY DEF Landing
  <1>2. CASE ~run[s].reply.fine /\ End(s, "failed") /\ UNCHANGED past
    BY <1>1, <1>2, EndMoves DEF Arrives, ReceivedOne, GivesUp, Requests
  <1>3. CASE /\ run[s].reply.fine
             /\ run' = [run EXCEPT ![s].at = "submit", ![s].reply = Waiting,
                          ![s].form = IF run[s].reply.sets # NoSession
                                      THEN run[s].reply.sets ELSE run[s].carries,
                          ![s].carries = IF def.literal THEN NoSession ELSE Jar(s)]
             /\ CountLogin(s)
    <2> DEFINE form == IF run[s].reply.sets # NoSession
                       THEN run[s].reply.sets ELSE run[s].carries
               carries == IF def.literal THEN NoSession ELSE Jar(s)
    <2>1. run' = [run EXCEPT ![s].at = "submit", ![s].reply = Waiting,
                             ![s].form = form, ![s].carries = carries]
      BY <1>3
    <2> HIDE DEF form, carries
    <2>2. run \in [Searches -> Runs] /\ run[s] \in Runs
      BY Types
    <2>3. run' = [run EXCEPT ![s] = [run[s] EXCEPT !.at = "submit", !.reply = Waiting,
                                       !.carries = carries, !.form = form]]
      BY <2>1, <2>2 DEF Runs
    <2>4. Else(s) /\ Moved(s, "submit", carries) /\ run'[s].form = form
      <3> DEFINE at == "submit"
      <3>1. run' = [run EXCEPT ![s] = [run[s] EXCEPT !.at = at, !.reply = Waiting,
                                         !.carries = carries, !.form = form]]
        BY <2>3
      <3> HIDE DEF at
      <3>2. Else(s) /\ Moved(s, at, carries) /\ run'[s].form = form
        BY <3>1, UpdateIs
      <3> QED BY <3>2 DEF at
    <2>5. ReceivedOne(s)
      BY <1>1, <2>4 DEF Arrives, ReceivedOne
    <2>6. Posts(s)
      BY <1>1, <1>3, <2>4 DEF Arrives, Posts, form, carries
    <2> QED BY <1>1, <1>3, <2>5, <2>6 DEF Arrives
  <1> QED BY <1>2, <1>3 DEF Landing

LEMMA ReceiveMoves ==
    ASSUME TypeOK, NEW s \in Searches, Receive(s)
    PROVE  /\ ReceivedOne(s)
           /\ \/ UNCHANGED past /\ (Paged(s) \/ Lands(s) \/ Verifies(s) \/ GivesUp(s))
              \/ CountLogin(s) /\ (Submits(s) \/ Posts(s))
  <1>1. {"page", "test", "again"} \subseteq Requests
    BY DEF Requests
  <1>2. ASSUME NEW at \in {"page", "again"}, Accept(s, at)
        PROVE  ReceivedOne(s) /\ UNCHANGED past /\ Paged(s)
    BY <1>1, <1>2, AcceptMoves DEF Accept, Arrives, ReceivedOne, Paged
  <1>3. CASE LoggedIn(s)
    <2>1. Arrives(s, "submit") /\ UNCHANGED past
      BY <1>3 DEF LoggedIn
    <2>2. CASE ~run[s].reply.fine /\ End(s, "failed")
      BY <2>1, <2>2, EndMoves DEF Arrives, ReceivedOne, GivesUp, Requests
    <2>3. CASE Verify(s)
      <3>1. Send(s, "test") \/ Send(s, "again")
        BY <2>3 DEF Verify
      <3> QED BY <1>1, <2>1, <3>1, SendMoves DEF Arrives, ReceivedOne, Verifies, Sent
    <2> QED BY <1>3, <2>2, <2>3 DEF LoggedIn
  <1>4. CASE Tested(s)
    <2>1. Arrives(s, "test") /\ UNCHANGED past
      BY <1>4 DEF Tested
    <2>2. CASE ~run[s].reply.fine /\ End(s, "failed")
      BY <2>1, <2>2, EndMoves DEF Arrives, ReceivedOne, GivesUp, Requests
    <2>3. CASE run[s].reply.fine /\ Send(s, "again")
      BY <1>1, <2>1, <2>3, SendMoves DEF Arrives, ReceivedOne, Verifies, Sent
    <2> QED BY <1>4, <2>2, <2>3 DEF Tested
  <1>5. CASE Again(s)
    <2>1. CASE Accept(s, "again")
      BY <1>2, <2>1
    <2>2. CASE /\ Arrives(s, "again") /\ ~run[s].reply.fine
               /\ End(s, "failed") /\ UNCHANGED past
      BY <2>2, EndMoves DEF Arrives, ReceivedOne, GivesUp, Requests
    <2> QED BY <1>5, <2>1, <2>2 DEF Again
  <1> QED BY <1>2, <1>3, <1>4, <1>5, RejectedMoves, LandingMoves DEF Receive

-----------------------------------------------------------------------------
(***************************************************************************)
(* What the tracker does when it serves a request: to the search, and to   *)
(* the standing of the sessions somebody names.                            *)
(***************************************************************************)
Is(x, standing) == x # NoSession /\ known'[x] = standing

Named(y) == y = jar \/ \E t \in Searches : y \in {run[t].carries, run[t].form, run[t].reply.sets}

ServedOne(s, fine, sets) ==
    /\ Else(s) /\ run'[s].at = run[s].at
    /\ run'[s].carries = run[s].carries /\ run'[s].form = run[s].form
    /\ run'[s].reply.served /\ (run'[s].reply.fine <=> fine) /\ run'[s].reply.sets = sets
    /\ UNCHANGED <<def, tracker, jar, past, trouble>>

LEMMA ServedIs ==
    ASSUME TypeOK, NEW s \in Searches, NEW fine \in BOOLEAN, NEW sets, Served(s, Reply(fine, sets))
    PROVE  ServedOne(s, fine, sets)
  <1>1. run \in [Searches -> Runs] /\ run[s] \in Runs
    BY Types
  <1> DEFINE q == [run[s] EXCEPT !.reply = Reply(fine, sets)]
  <1>2. /\ q.at = run[s].at /\ q.carries = run[s].carries /\ q.form = run[s].form
        /\ q.reply = Reply(fine, sets)
    BY <1>1 DEF Runs
  <1>3. run' = [run EXCEPT ![s] = q]
    BY DEF Served
  <1> HIDE DEF q
  <1>4. run'[s] = q /\ \A t \in Searches : t # s => run'[t] = run[t]
    BY <1>1, <1>3
  <1> QED BY <1>2, <1>4 DEF Served, ServedOne, Reply, Else

LEMMA OpenedKeeps ==
    ASSUME TypeOK, NEW x \in Sessions, First(x), NEW as, NEW lost \in SUBSET Sessions,
           Opened(x, as, lost)
    PROVE  /\ Is(x, as) /\ ~Named(x)
           /\ \A y \in Names : Named(y) =>
                /\ Is(y, "member") <=> Member(y) /\ y \notin lost
                /\ Alive(y) /\ y \notin lost => y # NoSession /\ known'[y] # "gone"
  <1>1. x # NoSession /\ x \in Fresh
    BY CardigannSessionAssumption DEF First
  <1>2. ~Named(x)
    BY <1>1 DEF Fresh, Named
  <1>3. known'[x] = as
    BY DEF Opened
  <1>4. ASSUME NEW y \in Names, Named(y)
        PROVE  /\ Is(y, "member") <=> Member(y) /\ y \notin lost
               /\ Alive(y) /\ y \notin lost => y # NoSession /\ known'[y] # "gone"
    <2>1. y # x /\ y \notin Fresh
      BY <1>2, <1>4 DEF Fresh, Named
    <2>2. CASE y = NoSession
      BY <2>2 DEF Is, Member, Alive
    <2>3. CASE y \in Sessions
      <3>1. known'[y] = IF y \in lost THEN "gone" ELSE known[y]
        BY <2>1, <2>3 DEF Opened
      <3> QED BY <2>3, <3>1, CardigannSessionAssumption DEF Is, Member, Alive
    <2> QED BY <2>2, <2>3 DEF Names
  <1> QED BY <1>1, <1>2, <1>3, <1>4 DEF Is

\* The page the search asks for, with what a new visitor gets.
PageFine(s) == IF run[s].at = "landing" THEN ~(tracker.hides /\ Member(run[s].carries))
               ELSE Member(run[s].carries)
Opens(s) == ~Alive(run[s].carries)
            /\ (tracker.visitors \/ (run[s].at = "landing" /\ tracker.token))

LEMMA PageServed ==
    ASSUME TypeOK, NEW s \in Searches, ServePage(s)
    PROVE  /\ Busy(s) /\ run[s].at # "submit"
           /\ \/ /\ Opens(s)
                 /\ \E x \in Sessions : /\ First(x) /\ Opened(x, "visitor", {})
                                        /\ ServedOne(s, PageFine(s), x)
              \/ ~Opens(s) /\ ServedOne(s, PageFine(s), NoSession) /\ UNCHANGED known
  <1>1. PageFine(s) \in BOOLEAN
    BY DEF PageFine, Member
  <1>2. \/ /\ Opens(s)
           /\ \E x \in Sessions : /\ First(x) /\ Opened(x, "visitor", {})
                                  /\ Served(s, Reply(PageFine(s), x))
        \/ ~Opens(s) /\ Served(s, Reply(PageFine(s), NoSession)) /\ UNCHANGED known
    BY DEF ServePage, Opens, PageFine
  <1> QED BY <1>1, <1>2, ServedIs DEF ServePage

LEMMA LoginServed ==
    ASSUME TypeOK, NEW s \in Searches, ServeLogin(s)
    PROVE  /\ Busy(s) /\ run[s].at = "submit" /\ ~run[s].reply.served
           /\ \/ /\ Accepts(s)
                 /\ \E x \in Sessions :
                      /\ First(x)
                      /\ Opened(x, "member", {y \in Sessions : tracker.single /\ Member(y)})
                      /\ ServedOne(s, TRUE, x)
              \/ ~Accepts(s) /\ ServedOne(s, FALSE, NoSession) /\ UNCHANGED known
  BY ServedIs DEF ServeLogin

-----------------------------------------------------------------------------
(***************************************************************************)
(* Searches that race over a tracker that keeps every session and sets no  *)
(* cookie but at a login: every cookie anybody holds names a member.       *)
(***************************************************************************)
Friendly == /\ CanLogIn /\ ~tracker.single /\ ~tracker.visitors
            /\ def.login = "form" => ~tracker.hides /\ ~tracker.token

Kept(x) == x = NoSession \/ Member(x)

Racing(r) ==
    /\ r.at # "failed" /\ Kept(r.carries) /\ Kept(r.reply.sets)
    /\ r.at = "landing" => def.login = "form" /\ (r.reply.served => r.reply.fine)
    /\ r.at = "submit" /\ r.reply.served => r.reply.fine /\ Member(r.reply.sets)
    /\ r.at \in {"test", "again"} =>
         Member(jar) /\ Member(r.carries) /\ (r.reply.served => r.reply.fine)

Race == Friendly /\ trouble = 0 => Kept(jar) /\ \A s \in Searches : Racing(run[s])

LEMMA NamesOf ==
    ASSUME TypeOK, NEW s \in Searches
    PROVE  /\ {jar, run[s].carries, run[s].form, run[s].reply.sets} \subseteq Names
           /\ Named(jar) /\ Named(run[s].carries) /\ Named(run[s].reply.sets)
           /\ run[s].reply.fine \in BOOLEAN /\ run[s].reply.served \in BOOLEAN
  BY Types DEF Runs, Replies, Named

LEMMA RaceBegins ==
    ASSUME TypeOK, Race, NEW S \in SUBSET Searches, Begin(S)
    PROVE  Race'
  <1> SUFFICES ASSUME Friendly, trouble = 0, Kept(jar), \A s \in Searches : Racing(run[s]),
                      NEW s \in Searches
               PROVE  Kept(jar') /\ Racing(run[s])'
    BY DEF Race, Begin, Friendly, CanLogIn, Kept, Member
  <1> DEFINE r == [Resting EXCEPT !.at = "page", !.carries = jar]
  <1>1. r.at = "page" /\ r.carries = jar /\ r.reply = Waiting
    BY DEF Resting
  <1>2. run'[s] = IF s \in S THEN r ELSE run[s]
    BY DEF Begin
  <1> HIDE DEF r
  <1>3. UNCHANGED <<def, tracker, jar, known>>
    BY DEF Begin
  <1> QED BY <1>1, <1>2, <1>3 DEF Racing, Kept, Member, Waiting

\* One search takes a step that leaves no session behind that somebody names.
LEMMA OthersRace ==
    ASSUME TypeOK, NEW s \in Searches, Else(s), UNCHANGED <<def, tracker>>,
           \A t \in Searches : Racing(run[t]), Kept(jar), Kept(jar)', Member(jar) => Member(jar)',
           \A t \in Searches : \A x \in {run[t].carries, run[t].reply.sets} :
               Member(x) => Is(x, "member"),
           Racing(run[s])'
    PROVE  \A t \in Searches : Racing(run[t])'
  <1> SUFFICES ASSUME NEW t \in Searches, t # s PROVE Racing(run[t])'
    OBVIOUS
  <1>1. run'[t] = run[t] /\ Racing(run[t])
    BY DEF Else
  <1>2. /\ Member(run[t].carries) => Is(run[t].carries, "member")
        /\ Member(run[t].reply.sets) => Is(run[t].reply.sets, "member")
    OBVIOUS
  <1> QED BY <1>1, <1>2 DEF Racing, Kept, Member, Is

LEMMA RaceServed ==
    ASSUME TypeOK, Race, NEW s \in Searches, ServePage(s) \/ ServeLogin(s)
    PROVE  Race'
  <1>1. UNCHANGED <<def, tracker, jar, past, trouble>> /\ Else(s)
    BY PageServed, LoginServed DEF ServedOne
  <1> SUFFICES ASSUME Friendly, trouble = 0, Kept(jar), \A t \in Searches : Racing(run[t])
               PROVE  Kept(jar)' /\ \A t \in Searches : Racing(run[t])'
    BY <1>1 DEF Race, Friendly, CanLogIn
  <1>2. CASE ServePage(s)
    <2>1. run[s].at # "submit" /\ ~Opens(s)
      BY <1>2, PageServed DEF Friendly, Opens, Racing
    <2>2. ServedOne(s, PageFine(s), NoSession) /\ UNCHANGED known
      BY <1>2, <2>1, PageServed
    <2>3. run[s].at \in {"landing", "test", "again"} => PageFine(s)
      BY DEF PageFine, Racing, Friendly
    <2>4. Racing(run[s])'
      BY <2>1, <2>2, <2>3 DEF Racing, ServedOne, Kept, Member
    <2>5. \A t \in Searches : \A x \in {run[t].carries, run[t].reply.sets} :
             Member(x) => Is(x, "member")
      BY <2>2 DEF Member, Is
    <2> QED BY <1>1, <2>2, <2>4, <2>5, OthersRace DEF Kept, Member
  <1>3. CASE ServeLogin(s)
    <2>1. Accepts(s) /\ run[s].at = "submit"
      BY <1>3, LoginServed DEF Friendly, CanLogIn, Accepts
    <2>2. PICK x \in Sessions :
             /\ First(x) /\ Opened(x, "member", {y \in Sessions : tracker.single /\ Member(y)})
             /\ ServedOne(s, TRUE, x)
      BY <1>3, <2>1, LoginServed
    <2> DEFINE lost == {y \in Sessions : tracker.single /\ Member(y)}
    <2>3. lost = {} /\ lost \in SUBSET Sessions
      BY DEF Friendly
    <2> HIDE DEF lost
    <2>4. Opened(x, "member", lost)
      BY <2>2 DEF lost
    <2>5. Is(x, "member") /\ \A y \in Names : Named(y) => (Is(y, "member") <=> Member(y))
      BY <2>2, <2>3, <2>4, OpenedKeeps
    <2>6. \A t \in Searches : \A y \in {jar, run[t].carries, run[t].reply.sets} :
             Member(y) => Is(y, "member")
      BY <2>5, NamesOf
    <2>7. Kept(jar)' /\ (Member(jar) => Member(jar)')
      BY <1>1, <2>6 DEF Kept, Member, Is
    <2>8. Kept(run[s].carries) /\ (Member(run[s].carries) => Is(run[s].carries, "member"))
      BY <2>6 DEF Racing
    <2>9. Racing(run[s])'
      BY <2>1, <2>2, <2>5, <2>8 DEF Racing, ServedOne, Kept, Member, Is
    <2> QED BY <1>1, <2>6, <2>7, <2>9, OthersRace
  <1> QED BY <1>2, <1>3

LEMMA RaceReceived ==
    ASSUME TypeOK, Race, NEW s \in Searches, Receive(s)
    PROVE  Race'
  <1>1. ReceivedOne(s)
    BY ReceiveMoves
  <1> SUFFICES ASSUME Friendly, trouble = 0, Kept(jar), \A t \in Searches : Racing(run[t])
               PROVE  Kept(jar)' /\ \A t \in Searches : Racing(run[t])'
    BY <1>1 DEF Race, Friendly, CanLogIn, ReceivedOne
  <1>2. /\ jar' = Jar(s) /\ UNCHANGED <<def, tracker, known, trouble>>
        /\ Else(s) /\ run[s].reply.served
    BY <1>1 DEF ReceivedOne
  <1>3. /\ Kept(Jar(s)) /\ Kept(jar)' /\ (Member(jar) => Member(jar)')
        /\ Member(Jar(s)) => Member(jar)'
    BY <1>2 DEF Jar, Kept, Member, Racing
  <1>4. Racing(run[s])
    OBVIOUS
  <1>5. Racing(run[s])'
    <2>1. CASE Paged(s)
      BY <1>2, <1>3, <2>1 DEF Paged, Moved, Racing, Kept, Member, Waiting
    <2>2. CASE Submits(s)
      BY <1>2, <1>3, <2>2 DEF Submits, Moved, Racing, Kept, Member, Waiting
    <2>3. CASE Lands(s)
      BY <1>2, <1>3, <2>3 DEF Lands, Moved, Racing, Kept, Member, Waiting
    <2>4. CASE Posts(s)
      BY <1>2, <1>3, <2>4 DEF Posts, Moved, Racing, Kept, Member, Waiting
    <2>5. CASE Verifies(s)
      <3>1. Member(Jar(s))
        BY <1>2, <1>4, <2>5 DEF Verifies, Racing, Jar, Kept, Member, Friendly, CanLogIn
      <3> QED BY <1>2, <1>3, <2>5, <3>1 DEF Verifies, Moved, Racing, Kept, Member, Waiting
    <2>6. CASE GivesUp(s)
      BY <1>2, <1>4, <2>6 DEF GivesUp, Racing, Friendly, CanLogIn, Requests
    <2> QED BY <2>1, <2>2, <2>3, <2>4, <2>5, <2>6, ReceiveMoves
  <1>6. \A t \in Searches : \A x \in {run[t].carries, run[t].reply.sets} :
           Member(x) => Is(x, "member")
    BY <1>2 DEF Member, Is
  <1> QED BY <1>2, <1>3, <1>5, <1>6, OthersRace

LEMMA RaceKeeps ==
    ASSUME TypeOK, Race, [Next]_vars
    PROVE  Race'
  <1>1. CASE UNCHANGED vars
    BY <1>1 DEF vars, Race, Friendly, CanLogIn, Kept, Racing, Member
  <1>2. ASSUME NEW S \in SUBSET Searches, Begin(S) PROVE Race'
    BY <1>2, RaceBegins
  <1>3. ASSUME NEW s \in Searches, Exchange(s) PROVE Race'
    BY <1>3, RaceServed, RaceReceived DEF Exchange
  <1>4. CASE Disturb
    BY <1>4 DEF Disturb, Race, TypeOK
  <1> QED BY <1>1, <1>2, <1>3, <1>4 DEF Next, Fail, Drop, Expire

\* Searches that meet a cold session together all succeed, for any number of them
\* and any interleaving of their requests, where the tracker keeps every session,
\* sets no cookie but at a login and shows its members the form, nothing fails, and
\* the definition can log in: no search throws away the session another one made.
THEOREM RacesHeal == Spec => []RacingSearchesHeal
  <1>1. Init => Race
    BY DEF Init, Race, Kept, Racing, Resting, Waiting
  <1>2. TypeOK /\ Race /\ [Next]_vars => Race'
    BY RaceKeeps
  <1>3. Race => RacingSearchesHeal
    BY DEF Race, RacingSearchesHeal, Friendly, Racing
  <1> QED BY <1>1, <1>2, <1>3, TypeCorrect, PTL DEF Spec

-----------------------------------------------------------------------------
(***************************************************************************)
(* A search that nothing disturbs: it is the only one under way, so the    *)
(* session in the jar is the one it carries.  What it has to be at, from   *)
(* the page it asks for to its end.                                        *)
(***************************************************************************)
PageSeen(r) ==
    /\ r.carries = jar
    /\ r.reply.served =>
         /\ r.reply.fine <=> Member(jar)
         /\ Member(jar) => r.reply.sets = NoSession
         /\ ~Member(jar) => ~Member(r.reply.sets)

AtPage(r, h) ==
    /\ PageSeen(r)
    /\ IF h.mood = "warm" THEN Member(jar) /\ h.logins = 0
       ELSE IF Member(jar) THEN CanLogIn /\ h.logins = 1 ELSE h.logins = 0

AtLanding(r, h) ==
    /\ h.mood = "cold" /\ h.logins = 0 /\ def.login = "form" /\ ~Member(jar)
    /\ r.carries = IF def.literal THEN NoSession ELSE jar
    /\ r.reply.served =>
         /\ r.reply.fine /\ ~Member(r.reply.sets)
         /\ tracker.token => Alive(IF r.reply.sets = NoSession THEN r.carries ELSE r.reply.sets)

AtSubmit(s, h) ==
    /\ h.mood = "cold" /\ h.logins = 1 /\ def.login \in {"submit", "form"} /\ ~Member(jar)
    /\ run[s].reply.served => (run[s].reply.fine <=> CanLogIn)
                              /\ (Member(run[s].reply.sets) <=> CanLogIn)
    /\ ~run[s].reply.served => (Accepts(s) <=> CanLogIn)

AfterLogin(r, h) ==
    /\ h.mood = "cold" /\ PageSeen(r) /\ (Member(jar) <=> CanLogIn)
    /\ CanLogIn => h.logins = 1

Heals(r, h) ==
    IF h.mood = "warm" THEN r.at = "ok" /\ h.logins = 0
    ELSE (r.at = "ok" <=> CanLogIn) /\ (CanLogIn => h.logins = 1)

Healing(s) ==
    /\ run[s].at = "page" => AtPage(run[s], past[s])
    /\ run[s].at = "landing" => AtLanding(run[s], past[s])
    /\ run[s].at = "submit" => AtSubmit(s, past[s])
    /\ run[s].at \in {"test", "again"} => AfterLogin(run[s], past[s])
    /\ run[s].at \in Ended => Heals(run[s], past[s])

CalmOne(s) == past[s].mood # "disturbed" =>
    /\ Busy(s) => \A t \in Searches : Busy(t) => t = s
    /\ Healing(s)

Calm == \A s \in Searches : CalmOne(s)

\* A search that is over stays as it is, whatever becomes of the sessions.
LEMMA OverIsCalm ==
    ASSUME NEW t \in Searches, CalmOne(t), ~Busy(t), UNCHANGED <<def, tracker>>,
           run'[t] = run[t],
           past'[t].mood = past[t].mood /\ past'[t].logins = past[t].logins
    PROVE  CalmOne(t)'
  <1>1. run[t].at \notin Requests /\ run'[t].at \notin Requests
    BY DEF Busy
  <1> QED BY <1>1 DEF CalmOne, Healing, Heals, CanLogIn, Busy, Requests

\* A busy search takes a step of its own.
LEMMA OthersCalm ==
    ASSUME Calm, NEW s \in Searches, Busy(s), Else(s), UNCHANGED <<def, tracker>>,
           \A t \in Searches : t # s => past'[t] = past[t],
           past'[s].mood = past[s].mood,
           past[s].mood # "disturbed" => Healing(s)'
    PROVE  Calm'
  <1>1. ASSUME NEW t \in Searches, t # s PROVE CalmOne(t)'
    <2>1. run'[t] = run[t] /\ past'[t] = past[t] /\ CalmOne(t)
      BY <1>1 DEF Else, Calm
    <2>2. CASE past[t].mood = "disturbed"
      BY <2>1, <2>2 DEF CalmOne
    <2>3. CASE past[t].mood # "disturbed"
      <3>1. ~Busy(t)
        BY <1>1, <2>1, <2>3 DEF CalmOne
      <3> QED BY <2>1, <3>1, OverIsCalm
    <2> QED BY <2>2, <2>3
  <1>2. CalmOne(s)'
    <2>1. ASSUME past[s].mood # "disturbed", NEW t \in Searches, t # s PROVE ~Busy(t)'
      BY <2>1 DEF Calm, CalmOne, Busy, Else
    <2> QED BY <2>1 DEF CalmOne
  <1> QED BY <1>1, <1>2 DEF Calm

LEMMA CalmBegins ==
    ASSUME TypeOK, Calm, NEW S \in SUBSET Searches, Begin(S)
    PROVE  Calm'
  <1> DEFINE r == [Resting EXCEPT !.at = "page", !.carries = jar]
             alone == Cardinality(S) = 1 /\ \A s \in Searches : ~Busy(s)
             mood == IF ~alone THEN "disturbed" ELSE IF Member(jar) THEN "warm" ELSE "cold"
  <1>1. r.at = "page" /\ r.carries = jar /\ r.reply = Waiting
    BY DEF Resting
  <1>2. \A s \in Searches : run'[s] = IF s \in S THEN r ELSE run[s]
    BY DEF Begin
  <1>3. \A s \in Searches :
           past'[s] = IF s \in S THEN [mood |-> mood, logins |-> 0] ELSE Disturbed(s)
    BY DEF Begin
  <1>4. UNCHANGED <<def, tracker, jar, known>>
    BY DEF Begin
  <1>5. alone => \E s : S = {s}
    <2>1. IsFiniteSet(S)
      BY CardigannSessionAssumption, FS_Subset
    <2> QED BY <2>1, FS_Singleton
  <1> SUFFICES ASSUME NEW s \in Searches PROVE CalmOne(s)'
    BY DEF Calm
  <1>6. CASE s \in S
    <2>1. run'[s] = r /\ past'[s] = [mood |-> mood, logins |-> 0]
      BY <1>2, <1>3, <1>6
    <2>2. CASE ~alone
      BY <2>1, <2>2 DEF CalmOne
    <2>3. CASE alone
      <3>1. \A t \in Searches : t # s => ~Busy(t)'
        BY <1>2, <1>5, <1>6, <2>3 DEF Busy
      <3>2. /\ past'[s].logins = 0
            /\ IF Member(jar) THEN past'[s].mood = "warm" ELSE past'[s].mood = "cold"
        BY <2>1, <2>3
      <3> HIDE DEF r, mood, alone
      <3>3. AtPage(run[s], past[s])'
        BY <1>1, <1>4, <2>1, <3>2 DEF AtPage, PageSeen, Member, Waiting
      <3> QED BY <1>1, <2>1, <3>1, <3>3 DEF CalmOne, Healing, Ended
    <2> QED BY <2>2, <2>3
  <1>7. CASE s \notin S
    <2>1. run'[s] = run[s] /\ past'[s] = Disturbed(s)
      BY <1>2, <1>3, <1>7
    <2>2. CASE Busy(s)
      BY <2>1, <2>2, Types DEF Disturbed, CalmOne, Pasts
    <2>3. CASE ~Busy(s)
      BY <1>4, <2>1, <2>3, OverIsCalm DEF Disturbed, Calm
    <2> QED BY <2>2, <2>3
  <1> QED BY <1>6, <1>7

\* A failure, a dropped search or an expired session disturbs what is under way.
LEMMA CalmDisturbed ==
    ASSUME TypeOK, Calm, Disturb, UNCHANGED <<def, tracker>>,
           \A t \in Searches : ~Busy(t) => run'[t] = run[t]
    PROVE  Calm'
  <1> SUFFICES ASSUME NEW s \in Searches PROVE CalmOne(s)'
    BY DEF Calm
  <1>1. past'[s] = Disturbed(s)
    BY DEF Disturb
  <1>2. CASE Busy(s)
    BY <1>1, <1>2, Types DEF Disturbed, CalmOne, Pasts
  <1>3. CASE ~Busy(s)
    BY <1>1, <1>3, OverIsCalm DEF Disturbed, Calm
  <1> QED BY <1>2, <1>3

\* The tracker serves a page or a landing page: what a visitor gets with it names
\* no member, and the session in the jar is what it was.
LEMMA CalmPage ==
    ASSUME TypeOK, Calm, NEW s \in Searches, ServePage(s)
    PROVE  Calm'
  <1>1. PICK sets \in Names : ServedOne(s, PageFine(s), sets)
    BY PageServed DEF Names
  <1>2. Busy(s) /\ run[s].at # "submit" /\ CalmOne(s) /\ Else(s)
    BY <1>1, PageServed DEF Calm, ServedOne
  <1>3. UNCHANGED <<def, tracker, jar, past>>
    BY <1>1 DEF ServedOne
  <1> DEFINE carries == run[s].carries
             Stands == /\ Member(jar) <=> Is(jar, "member")
                       /\ ~Member(carries) => ~Is(sets, "member")
                       /\ Member(carries) => sets = NoSession
                       /\ run[s].at = "landing" /\ tracker.token =>
                            IF sets = NoSession
                            THEN Member(carries) \/ (carries # NoSession /\ known'[carries] # "gone")
                            ELSE known'[sets] # "gone"
  <1>4. Stands
    <2>1. CASE ServedOne(s, PageFine(s), NoSession) /\ UNCHANGED known /\ ~Opens(s)
      <3>1. sets = NoSession
        BY <1>1, <2>1 DEF ServedOne
      <3> QED BY <2>1, <3>1 DEF Is, Member, Opens, Alive
    <2>2. ASSUME Opens(s), NEW x \in Sessions, First(x), Opened(x, "visitor", {}),
                 ServedOne(s, PageFine(s), x)
          PROVE  Stands
      <3>1. sets = x /\ x # NoSession
        BY <1>1, <2>2, CardigannSessionAssumption DEF ServedOne
      <3>2. Is(x, "visitor") /\ (Is(jar, "member") <=> Member(jar))
        BY <2>2, OpenedKeeps, NamesOf
      <3> QED BY <2>2, <3>1, <3>2 DEF Is, Opens, Alive, Member
    <2> QED BY <2>1, <2>2, PageServed
  <1>5. ASSUME past[s].mood # "disturbed" PROVE Healing(s)'
    <2>1. /\ run'[s].at = run[s].at /\ run'[s].carries = carries /\ run'[s].reply.served
          /\ run'[s].reply.fine <=> PageFine(s)
          /\ run'[s].reply.sets = sets
      BY <1>1 DEF ServedOne
    <2>2. Healing(s)
      BY <1>2, <1>5 DEF CalmOne
    <2>3. Member(jar)' <=> Member(jar)
      BY <1>3, <1>4 DEF Is, Member
    <2>4. (carries = jar /\ run[s].at # "landing") => PageSeen(run[s])'
      BY <1>3, <1>4, <2>1, <2>3 DEF PageSeen, PageFine, Is, Member
    <2>5. CASE run[s].at = "page"
      BY <1>3, <2>1, <2>2, <2>3, <2>4, <2>5 DEF Healing, AtPage, PageSeen, CanLogIn, Ended
    <2>6. CASE run[s].at \in {"test", "again"}
      BY <1>3, <2>1, <2>2, <2>3, <2>4, <2>6 DEF Healing, AfterLogin, PageSeen, CanLogIn, Ended
    <2>7. CASE run[s].at = "landing"
      <3>1. AtLanding(run[s], past[s]) /\ ~Member(carries)
        BY <2>2, <2>7 DEF Healing, AtLanding, Member
      <3>2. PageFine(s) /\ ~Is(sets, "member")
        BY <1>4, <2>7, <3>1 DEF PageFine
      <3>3. tracker.token => /\ sets # NoSession => known'[sets] # "gone"
                             /\ sets = NoSession => carries # NoSession /\ known'[carries] # "gone"
        BY <1>4, <2>7, <3>1
      <3>4. AtLanding(run[s], past[s])'
        BY <1>3, <2>1, <2>3, <3>1, <3>2, <3>3 DEF AtLanding, Is, Member, Alive
      <3> QED BY <2>1, <2>7, <3>4 DEF Healing, Ended
    <2> QED BY <1>2, <2>5, <2>6, <2>7 DEF Busy, Requests
  <1> QED BY <1>2, <1>3, <1>5, OthersCalm

\* The tracker takes the login, and opens a session for the member, or does not.
LEMMA CalmLogin ==
    ASSUME TypeOK, Calm, NEW s \in Searches, ServeLogin(s)
    PROVE  Calm'
  <1>1. Busy(s) /\ run[s].at = "submit" /\ ~run[s].reply.served
    BY LoginServed
  <1>2. Else(s) /\ UNCHANGED <<def, tracker, jar, past>>
    BY LoginServed DEF ServedOne
  <1>3. ASSUME past[s].mood # "disturbed" PROVE Healing(s)'
    <2>1. AtSubmit(s, past[s])
      BY <1>1, <1>3 DEF Calm, CalmOne, Healing
    <2>2. CASE Accepts(s)
      <3> DEFINE lost == {y \in Sessions : tracker.single /\ Member(y)}
      <3>1. lost \in SUBSET Sessions
        OBVIOUS
      <3>2. PICK x \in Sessions : First(x) /\ Opened(x, "member", lost) /\ ServedOne(s, TRUE, x)
        BY <2>2, LoginServed
      <3> HIDE DEF lost
      <3>3. Is(x, "member") /\ (Is(jar, "member") => Member(jar))
        BY <3>1, <3>2, OpenedKeeps, NamesOf
      <3>4. AtSubmit(s, past[s])'
        BY <1>1, <1>2, <2>1, <2>2, <3>2, <3>3 DEF AtSubmit, ServedOne, Is, Member, CanLogIn
      <3> QED BY <1>1, <3>2, <3>4 DEF Healing, ServedOne, Ended
    <2>3. CASE ~Accepts(s)
      <3>1. ServedOne(s, FALSE, NoSession) /\ UNCHANGED known
        BY <2>3, LoginServed
      <3>2. AtSubmit(s, past[s])'
        BY <1>1, <1>2, <2>1, <2>3, <3>1 DEF AtSubmit, ServedOne, Member, CanLogIn
      <3> QED BY <1>1, <3>1, <3>2 DEF Healing, ServedOne, Ended
    <2> QED BY <2>2, <2>3
  <1> QED BY <1>1, <1>2, <1>3, OthersCalm

LEMMA CountLoginMoves ==
    ASSUME TypeOK, NEW s \in Searches, CountLogin(s)
    PROVE  /\ past'[s].mood = past[s].mood /\ past'[s].logins = past[s].logins + 1
           /\ \A t \in Searches : t # s => past'[t] = past[t]
  BY Types DEF CountLogin, Pasts

\* The response of a calm search is received.
LEMMA CalmReceived ==
    ASSUME TypeOK, Calm, NEW s \in Searches, Receive(s)
    PROVE  Calm'
  <1>1. /\ Else(s) /\ jar' = Jar(s) /\ run[s].reply.served
        /\ UNCHANGED <<def, tracker, known>>
    BY ReceiveMoves DEF ReceivedOne
  <1>2. /\ Busy(s) /\ past'[s].mood = past[s].mood
        /\ \A t \in Searches : t # s => past'[t] = past[t]
    BY ReceiveMoves, CountLoginMoves
       DEF Paged, Submits, Lands, Posts, Verifies, GivesUp, Busy, Requests
  <1>3. ASSUME past[s].mood # "disturbed" PROVE Healing(s)'
    <2>1. Healing(s) /\ past[s].mood \in {"warm", "cold"}
      BY <1>3, Types DEF Calm, CalmOne, Pasts
    <2>2. Member(jar)' <=> Member(Jar(s))
      BY <1>1 DEF Member
    <2>3. CASE UNCHANGED past /\ Paged(s)
      <3>1. Member(jar) /\ Jar(s) = jar
        BY <1>1, <2>1, <2>3 DEF Paged, Healing, AtPage, AfterLogin, PageSeen, Jar
      <3>2. IF past[s].mood = "warm" THEN past[s].logins = 0 ELSE CanLogIn /\ past[s].logins = 1
        BY <2>1, <2>3, <3>1 DEF Paged, Healing, AtPage, AfterLogin
      <3>3. CASE Moved(s, "page", Jar(s))
        BY <1>1, <2>1, <2>2, <2>3, <3>1, <3>2, <3>3
           DEF Moved, Healing, AtPage, PageSeen, Waiting, CanLogIn, Ended
      <3>4. CASE Moved(s, "ok", NoSession)
        BY <1>1, <2>1, <2>3, <3>2, <3>4 DEF Moved, Healing, Heals, CanLogIn
      <3> QED BY <2>3, <3>3, <3>4 DEF Paged
    <2>4. CASE UNCHANGED past /\ Lands(s)
      <3>1. past[s].mood = "cold" /\ past[s].logins = 0 /\ ~Member(Jar(s))
        BY <1>1, <2>1, <2>4 DEF Lands, Healing, AtPage, PageSeen, Jar
      <3> QED BY <1>1, <2>2, <2>4, <3>1 DEF Lands, Moved, Healing, AtLanding, Waiting, Ended
    <2>5. CASE UNCHANGED past /\ Verifies(s)
      <3>1. /\ past[s].mood = "cold" /\ (Member(Jar(s)) <=> CanLogIn)
            /\ CanLogIn => past[s].logins = 1
        <4>1. CASE run[s].at = "page"
          BY <1>1, <2>1, <2>5, <4>1 DEF Verifies, Healing, AtPage, PageSeen, Jar, CanLogIn
        <4>2. CASE run[s].at = "submit"
          BY <1>1, <2>1, <4>2 DEF Healing, AtSubmit, Jar, Member
        <4>3. CASE run[s].at = "test"
          BY <1>1, <2>1, <2>5, <4>3 DEF Verifies, Healing, AfterLogin, PageSeen, Jar
        <4> QED BY <2>5, <4>1, <4>2, <4>3 DEF Verifies
      <3>2. AfterLogin(run[s], past[s])'
        BY <1>1, <2>2, <2>5, <3>1 DEF Verifies, Moved, AfterLogin, PageSeen, Waiting, CanLogIn
      <3> QED BY <2>5, <3>2 DEF Verifies, Moved, Healing, Ended
    <2>6. CASE UNCHANGED past /\ GivesUp(s)
      <3>1. past[s].mood = "cold" /\ ~CanLogIn
        <4>1. CASE run[s].at = "page"
          BY <1>1, <2>1, <2>6, <4>1 DEF GivesUp, Healing, AtPage, PageSeen, CanLogIn
        <4>2. CASE run[s].at = "landing"
          BY <1>1, <2>1, <2>6, <4>2 DEF GivesUp, Healing, AtLanding
        <4>3. CASE run[s].at = "submit"
          BY <1>1, <2>1, <2>6, <4>3 DEF GivesUp, Healing, AtSubmit
        <4>4. CASE run[s].at \in {"test", "again"}
          BY <1>1, <2>1, <2>6, <4>4 DEF GivesUp, Healing, AfterLogin, PageSeen
        <4> QED BY <2>6, <4>1, <4>2, <4>3, <4>4 DEF GivesUp, Requests
      <3> QED BY <1>1, <2>6, <3>1 DEF GivesUp, Moved, Healing, Heals, CanLogIn
    <2>7. CASE CountLogin(s) /\ Submits(s)
      <3>1. past[s].mood = "cold" /\ past[s].logins = 0 /\ ~Member(Jar(s))
        BY <1>1, <2>1, <2>7 DEF Submits, Healing, AtPage, PageSeen, Jar
      <3>2. past'[s].mood = "cold" /\ past'[s].logins = 1
        BY <2>7, <3>1, CountLoginMoves
      <3> QED BY <1>1, <2>2, <2>7, <3>1, <3>2
              DEF Submits, Moved, Healing, AtSubmit, Waiting, Ended, Accepts, CanLogIn
    <2>8. CASE CountLogin(s) /\ Posts(s)
      <3>1. AtLanding(run[s], past[s])
        BY <2>1, <2>8 DEF Posts, Healing
      <3>2. past'[s].mood = "cold" /\ past'[s].logins = 1
        BY <2>8, <3>1, CountLoginMoves DEF AtLanding
      <3>3. ~Member(Jar(s))
        BY <1>1, <3>1 DEF AtLanding, Jar
      <3>4. Accepts(s)' <=> CanLogIn'
        BY <1>1, <2>8, <3>1 DEF Posts, Moved, AtLanding, Accepts, CanLogIn, Alive, Jar
      <3> QED BY <1>1, <2>2, <2>8, <3>1, <3>2, <3>3, <3>4
              DEF Posts, Moved, Healing, AtLanding, AtSubmit, Waiting, Ended
    <2> QED BY <2>3, <2>4, <2>5, <2>6, <2>7, <2>8, ReceiveMoves
  <1> QED BY <1>1, <1>2, <1>3, OthersCalm

LEMMA CalmKeeps ==
    ASSUME TypeOK, Calm, [Next]_vars
    PROVE  Calm'
  <1>1. CASE UNCHANGED vars
    <2>1. UNCHANGED <<def, tracker, jar, known, run, past>>
      BY <1>1 DEF vars
    <2>2. (CanLogIn' <=> CanLogIn) /\ \A s \in Searches : (Busy(s)' <=> Busy(s))
      BY <2>1 DEF CanLogIn, Busy
    <2> SUFFICES ASSUME NEW s \in Searches, CalmOne(s) PROVE CalmOne(s)'
      BY DEF Calm
    <2>3. CASE past[s].mood = "disturbed"
      BY <2>1, <2>3 DEF CalmOne
    <2>4. CASE past[s].mood # "disturbed"
      <3>1. Healing(s)
        BY <2>4 DEF CalmOne
      <3>2. run[s].at = "page" => AtPage(run[s], past[s])'
        BY <2>1, <2>2, <3>1 DEF Healing, AtPage, PageSeen, Member
      <3>3. run[s].at = "landing" => AtLanding(run[s], past[s])'
        BY <2>1, <3>1 DEF Healing, AtLanding, Member, Alive
      <3>4. run[s].at = "submit" => AtSubmit(s, past[s])'
        BY <2>1, <2>2, <3>1 DEF Healing, AtSubmit, Accepts, Member, Alive
      <3>5. run[s].at \in {"test", "again"} => AfterLogin(run[s], past[s])'
        BY <2>1, <2>2, <3>1 DEF Healing, AfterLogin, PageSeen, Member
      <3>6. run[s].at \in Ended => Heals(run[s], past[s])'
        BY <2>1, <2>2, <3>1 DEF Healing, Heals
      <3>7. Healing(s)'
        BY <2>1, <3>2, <3>3, <3>4, <3>5, <3>6 DEF Healing
      <3> QED BY <2>1, <2>2, <2>4, <3>7 DEF CalmOne
    <2> QED BY <2>3, <2>4
  <1>2. ASSUME NEW S \in SUBSET Searches, Begin(S) PROVE Calm'
    BY <1>2, CalmBegins
  <1>3. ASSUME NEW s \in Searches, Exchange(s) PROVE Calm'
    BY <1>3, CalmPage, CalmLogin, CalmReceived DEF Exchange
  <1>4. ASSUME NEW s \in Searches, Fail(s) PROVE Calm'
    BY <1>4, EndMoves, CalmDisturbed DEF Fail, Else
  <1>5. ASSUME NEW s \in Searches, Drop(s) PROVE Calm'
    <2>1. \A t \in Searches : t # s => run'[t] = run[t]
      BY <1>5, Types DEF Drop
    <2> QED BY <1>5, <2>1, CalmDisturbed DEF Drop
  <1>6. CASE Expire
    BY <1>6, CalmDisturbed DEF Expire
  <1> QED BY <1>1, <1>2, <1>3, <1>4, <1>5, <1>6 DEF Next

\* A search that nothing else disturbs never logs in when the jar holds a live
\* session, and else logs in once for all its pages, and succeeds exactly when the
\* engine can log in to the tracker: for every definition, tracker, number of pages
\* and whatever earlier searches left in the jar.
THEOREM CalmHeals == Spec => []CalmSearchHeals
  <1>1. Init => Calm
    BY DEF Init, Calm, CalmOne
  <1>2. TypeOK /\ Calm /\ [Next]_vars => Calm'
    BY CalmKeeps
  <1>3. Calm => CalmSearchHeals
    BY DEF Calm, CalmOne, Healing, Heals, CalmSearchHeals
  <1> QED BY <1>1, <1>2, <1>3, TypeCorrect, PTL DEF Spec
-----------------------------------------------------------------------------
(***************************************************************************)
(* Descent: how many exchanges a search still has before it, served and    *)
(* received counted apart.  A page costs at most five: itself, the landing *)
(* page, the login, the test and the page again.                           *)
(***************************************************************************)
Place(at) == CASE at = "page" -> 5 [] at = "landing" -> 4 [] at = "submit" -> 3
               [] at = "test" -> 2 [] OTHER -> 1

StepsLeft(r) ==
    IF r.at \in Requests
    THEN 10 * (Pages - r.page) + 2 * Place(r.at) - (IF r.reply.served THEN 1 ELSE 0)
    ELSE 0

\* The safety half of SearchEnds.  Every step of a search, a failure included,
\* leaves fewer before it; no step of another search, and nothing the tracker
\* forgets, moves it or makes it log in once more.
SearchesDescend ==
    [][\A s \in Searches :
          /\ Exchange(s) \/ Fail(s) \/ Drop(s) => StepsLeft(run'[s]) < StepsLeft(run[s])
          /\ Busy(s) /\ run'[s] # run[s] => StepsLeft(run'[s]) < StepsLeft(run[s])]_vars

LEMMA PlaceIs ==
    ASSUME NEW at \in Requests
    PROVE  Place(at) \in 1..5
  BY DEF Place, Requests

LEMMA StepsLeftIs ==
    ASSUME NEW r \in Runs
    PROVE  /\ StepsLeft(r) \in 0..10 * Pages
           /\ StepsLeft(r) = 0 <=> r.at \notin Requests
  <1>1. Pages \in Nat \ {0} /\ r.page \in 1..Pages
    BY CardigannSessionAssumption DEF Runs
  <1>2. ASSUME r.at \in Requests PROVE StepsLeft(r) \in 1..10 * Pages
    <2>1. Place(r.at) \in 1..5
      BY <1>2, PlaceIs
    <2> QED BY <1>1, <1>2, <2>1 DEF StepsLeft
  <1>3. ASSUME r.at \notin Requests PROVE StepsLeft(r) = 0
    BY <1>3 DEF StepsLeft
  <1> QED BY <1>1, <1>2, <1>3

\* A search that is over, or dropped, has nothing left before it.
LEMMA OverLowers ==
    ASSUME TypeOK, NEW s \in Searches, Busy(s), run'[s].at \notin Requests
    PROVE  StepsLeft(run'[s]) < StepsLeft(run[s])
  <1>1. StepsLeft(run'[s]) = 0
    BY DEF StepsLeft
  <1>2. StepsLeft(run[s]) \in Nat /\ StepsLeft(run[s]) # 0
    BY Types, StepsLeftIs DEF Busy
  <1> QED BY <1>1, <1>2

\* One request of the same page follows another that comes before it.
LEMMA LaterLowers ==
    ASSUME TypeOK, TypeOK', NEW s \in Searches, Busy(s), run[s].reply.served,
           run'[s].at \in Requests, run'[s].page = run[s].page,
           Place(run'[s].at) < Place(run[s].at)
    PROVE  StepsLeft(run'[s]) < StepsLeft(run[s])
  <1>1. Pages \in Nat /\ run[s].page \in Nat
    BY Types DEF Runs
  <1>2. Place(run'[s].at) \in 1..5 /\ Place(run[s].at) \in 1..5
    BY PlaceIs DEF Busy
  <1> QED BY <1>1, <1>2 DEF StepsLeft, Busy

LEMMA SendLowers ==
    ASSUME TypeOK, TypeOK', NEW s \in Searches, NEW at \in Requests, Arrives(s, at),
           \/ End(s, "failed")
           \/ \E next \in Requests : Send(s, next) /\ Place(next) < Place(at)
    PROVE  Else(s) /\ StepsLeft(run'[s]) < StepsLeft(run[s])
  <1>1. Busy(s) /\ run[s].at = at /\ run[s].reply.served
    BY DEF Busy, Arrives
  <1>2. CASE End(s, "failed")
    <2>1. Else(s) /\ run'[s].at \notin Requests
      BY <1>2, EndIs DEF Requests
    <2> QED BY <1>1, <2>1, OverLowers
  <1>3. CASE \E next \in Requests : Send(s, next) /\ Place(next) < Place(at)
    <2>1. PICK next \in Requests : Send(s, next) /\ Place(next) < Place(at)
      BY <1>3
    <2>2. Else(s) /\ run'[s].at = next /\ run'[s].page = run[s].page
      BY <2>1, SendIs
    <2> QED BY <1>1, <2>1, <2>2, LaterLowers
  <1> QED BY <1>2, <1>3

LEMMA AcceptLowers ==
    ASSUME TypeOK, TypeOK', NEW s \in Searches, NEW at \in Requests, Accept(s, at)
    PROVE  Else(s) /\ StepsLeft(run'[s]) < StepsLeft(run[s])
  <1>1. Busy(s) /\ run[s].reply.served
    BY DEF Accept, Arrives, Busy
  <1>2. /\ Else(s)
        /\ \/ run'[s].at = "page" /\ run'[s].page = run[s].page + 1
           \/ run'[s].at = "ok"
    BY AcceptIs
  <1>3. CASE run'[s].at = "ok"
    BY <1>1, <1>2, <1>3, OverLowers DEF Requests
  <1>4. CASE run'[s].at = "page" /\ run'[s].page = run[s].page + 1
    <2>1. Pages \in Nat /\ run[s].page \in Nat /\ Place(run[s].at) \in 1..5
      BY <1>1, Types, PlaceIs DEF Runs, Busy
    <2>2. StepsLeft(run'[s]) <= 10 * (Pages - (run[s].page + 1)) + 10
      BY <1>4, <2>1 DEF StepsLeft, Place, Requests
    <2>3. StepsLeft(run[s]) >= 10 * (Pages - run[s].page) + 1
      BY <1>1, <2>1 DEF StepsLeft, Busy
    <2>4. StepsLeft(run'[s]) \in Int /\ StepsLeft(run[s]) \in Int
      BY <1>1, <1>4, <2>1 DEF StepsLeft, Busy, Place, Requests
    <2> QED BY <1>2, <2>1, <2>2, <2>3, <2>4
  <1> QED BY <1>2, <1>3, <1>4

LEMMA LandingLowers ==
    ASSUME TypeOK, TypeOK', NEW s \in Searches, Landing(s)
    PROVE  Else(s) /\ StepsLeft(run'[s]) < StepsLeft(run[s])
  <1>1. Arrives(s, "landing") /\ {"landing", "submit"} \subseteq Requests
    BY DEF Landing, Requests
  <1>2. CASE End(s, "failed")
    BY <1>1, <1>2, SendLowers
  <1>3. CASE run' = [run EXCEPT ![s].at = "submit", ![s].reply = Waiting,
                          ![s].form = IF run[s].reply.sets # NoSession
                                      THEN run[s].reply.sets ELSE run[s].carries,
                          ![s].carries = IF def.literal THEN NoSession ELSE Jar(s)]
    <2>1. Else(s) /\ run'[s].at = "submit" /\ run'[s].page = run[s].page
      BY <1>3, Types DEF Else, Runs
    <2>2. Busy(s) /\ run[s].at = "landing" /\ run[s].reply.served
      BY <1>1 DEF Busy, Arrives
    <2> QED BY <1>1, <2>1, <2>2, LaterLowers DEF Place
  <1> QED BY <1>2, <1>3 DEF Landing

LEMMA ReceiveLowers ==
    ASSUME TypeOK, TypeOK', NEW s \in Searches, Receive(s)
    PROVE  Else(s) /\ StepsLeft(run'[s]) < StepsLeft(run[s])
  <1>1. {"page", "landing", "submit", "test", "again"} = Requests
    BY DEF Requests
  <1>2. CASE Accept(s, "page") \/ Accept(s, "again")
    BY <1>1, <1>2, AcceptLowers
  <1>3. CASE Rejected(s)
    <2>1. /\ Arrives(s, "page")
          /\ End(s, "failed") \/ \E next \in Requests \ {"page"} : Send(s, next)
      BY <1>1, <1>3 DEF Rejected, Verify
    <2> QED BY <1>1, <2>1, SendLowers DEF Place
  <1>4. CASE LoggedIn(s)
    <2>1. /\ Arrives(s, "submit")
          /\ End(s, "failed") \/ \E next \in {"test", "again"} : Send(s, next)
      BY <1>4 DEF LoggedIn, Verify
    <2> QED BY <1>1, <2>1, SendLowers DEF Place
  <1>5. CASE Tested(s)
    <2>1. Arrives(s, "test") /\ (End(s, "failed") \/ Send(s, "again"))
      BY <1>5 DEF Tested
    <2> QED BY <1>1, <2>1, SendLowers DEF Place
  <1>6. CASE Arrives(s, "again") /\ End(s, "failed")
    BY <1>1, <1>6, SendLowers
  <1> QED BY <1>2, <1>3, <1>4, <1>5, <1>6, LandingLowers DEF Receive, Again

LEMMA ServedLowers ==
    ASSUME TypeOK, NEW s \in Searches, Busy(s), ~run[s].reply.served,
           NEW fine, NEW sets, Served(s, Reply(fine, sets))
    PROVE  Else(s) /\ StepsLeft(run'[s]) < StepsLeft(run[s])
  <1>1. run \in [Searches -> Runs] /\ run[s] \in Runs
    BY Types
  <1>2. run' = [run EXCEPT ![s].reply = Reply(fine, sets)]
    BY DEF Served
  <1>3. /\ Else(s) /\ run'[s].at = run[s].at /\ run'[s].page = run[s].page
        /\ run'[s].reply.served = TRUE
    BY <1>1, <1>2 DEF Runs, Else, Reply
  <1>4. Pages \in Nat /\ run[s].page \in Nat /\ Place(run[s].at) \in 1..5
    BY Types, PlaceIs DEF Runs, Busy
  <1> QED BY <1>3, <1>4 DEF StepsLeft, Busy

LEMMA ServeLowers ==
    ASSUME TypeOK, NEW s \in Searches, ServePage(s) \/ ServeLogin(s)
    PROVE  Else(s) /\ StepsLeft(run'[s]) < StepsLeft(run[s])
  <1>1. Busy(s) /\ ~run[s].reply.served
    BY DEF ServePage, ServeLogin
  <1>2. \E fine, sets : Served(s, Reply(fine, sets))
    BY DEF ServePage, ServeLogin
  <1> QED BY <1>1, <1>2, ServedLowers

LEMMA TroubleLowers ==
    ASSUME TypeOK, NEW s \in Searches, Fail(s) \/ Drop(s)
    PROVE  Else(s) /\ StepsLeft(run'[s]) < StepsLeft(run[s])
  <1>1. Busy(s)
    BY DEF Fail, Drop
  <1>2. CASE Fail(s)
    <2>1. Else(s) /\ run'[s].at = "failed"
      BY <1>2, EndIs DEF Fail
    <2> QED BY <1>1, <2>1, OverLowers DEF Requests
  <1>3. CASE Drop(s)
    <2>1. Else(s) /\ run'[s].at = "idle"
      BY <1>3, Types DEF Drop, Else, Resting, Runs
    <2> QED BY <1>1, <2>1, OverLowers DEF Requests
  <1> QED BY <1>2, <1>3

LEMMA StepLowers ==
    ASSUME TypeOK, TypeOK', NEW s \in Searches, Exchange(s) \/ Fail(s) \/ Drop(s)
    PROVE  Else(s) /\ StepsLeft(run'[s]) < StepsLeft(run[s])
  BY ReceiveLowers, ServeLowers, TroubleLowers DEF Exchange

LEMMA NextLowers ==
    ASSUME TypeOK, TypeOK', [Next]_vars, NEW s \in Searches
    PROVE  /\ Exchange(s) \/ Fail(s) \/ Drop(s) => StepsLeft(run'[s]) < StepsLeft(run[s])
           /\ Busy(s) /\ run'[s] # run[s] => StepsLeft(run'[s]) < StepsLeft(run[s])
  <1>1. Exchange(s) \/ Fail(s) \/ Drop(s) => StepsLeft(run'[s]) < StepsLeft(run[s])
    BY StepLowers
  <1>2. ASSUME Busy(s), run'[s] # run[s]
        PROVE  StepsLeft(run'[s]) < StepsLeft(run[s])
    <2>1. ASSUME NEW S \in SUBSET Searches, Begin(S) PROVE run'[s] = run[s]
      <3>1. s \notin S
        BY <1>2, <2>1 DEF Begin
      <3> QED BY <2>1, <3>1 DEF Begin
    <2>2. ASSUME NEW t \in Searches, Exchange(t) \/ Fail(t) \/ Drop(t) PROVE t = s
      <3>1. Else(t)
        BY <2>2, StepLowers
      <3> QED BY <1>2, <3>1 DEF Else
    <2>3. run' # run
      BY <1>2
    <2> QED BY <1>1, <1>2, <2>1, <2>2, <2>3 DEF Next, Expire, vars
  <1> QED BY <1>1, <1>2

\* A search is over after at most ten steps a page, five requests and their
\* answers: whatever the definition, the tracker, the other searches and the
\* failures do, every step of it lowers a count that starts at 10 * Pages.
THEOREM SearchesGoDown ==
    Spec => /\ SearchesDescend
            /\ [](\A s \in Searches : /\ StepsLeft(run[s]) \in 0..10 * Pages
                                      /\ StepsLeft(run[s]) = 0 <=> ~Busy(s))
  <1>1. TypeOK /\ TypeOK' /\ [Next]_vars =>
          [\A s \in Searches :
              /\ Exchange(s) \/ Fail(s) \/ Drop(s) => StepsLeft(run'[s]) < StepsLeft(run[s])
              /\ Busy(s) /\ run'[s] # run[s] => StepsLeft(run'[s]) < StepsLeft(run[s])]_vars
    BY NextLowers
  <1>2. TypeOK => \A s \in Searches : /\ StepsLeft(run[s]) \in 0..10 * Pages
                                      /\ StepsLeft(run[s]) = 0 <=> ~Busy(s)
    BY Types, StepsLeftIs DEF Busy
  <1> QED BY <1>1, <1>2, TypeCorrect, PTL DEF Spec, SearchesDescend

-----------------------------------------------------------------------------
(***************************************************************************)
(* The endpoint (SearchEndpoint; SpecEndpoint is its).                     *)
(***************************************************************************)

-----------------------------------------------------------------------------
(***************************************************************************)
(* Induction over sets of naturals, from the well-foundedness of <.        *)
(***************************************************************************)
LEMMA LeastOf ==
    ASSUME NEW T \in SUBSET Nat, T # {}
    PROVE  \E x \in T : \A y \in T : x <= y
  <1>1. IsWellFoundedOn(OpToRel(<, Nat), Nat)
    BY NatLessThanWellFounded
  <1>2. \A x, y \in Nat : <<y, x>> \in OpToRel(<, Nat) <=> y < x
    BY DEF OpToRel
  <1>3. PICK R : IsWellFoundedOn(R, Nat) /\ \A x, y \in Nat : <<y, x>> \in R <=> y < x
    BY <1>1, <1>2, Zenon
  <1>4. PICK x \in T : \A y \in T : ~ (<<y, x>> \in R)
    BY <1>3, WFMin
  <1>5. ASSUME NEW y \in T PROVE x <= y
    <2>1. ~ (<<y, x>> \in R)
      BY <1>4
    <2>2. x \in Nat /\ y \in Nat
      OBVIOUS
    <2>3. <<y, x>> \in R <=> y < x
      BY <1>3, <2>2
    <2> HIDE <1>3
    <2> QED BY <2>1, <2>2, <2>3
  <1> QED BY <1>5

LEMMA Inductively ==
    ASSUME NEW S, 0 \in S, \A n \in Nat : n \in S => n + 1 \in S
    PROVE  Nat \subseteq S
  <1> SUFFICES ASSUME Nat \ S # {} PROVE FALSE
    OBVIOUS
  <1>1. PICK x \in Nat \ S : \A y \in Nat \ S : x <= y
    BY LeastOf
  <1>2. x # 0 /\ x - 1 \in Nat
    OBVIOUS
  <1>3. x - 1 \in S
    BY <1>1, <1>2
  <1> QED BY <1>2, <1>3

(***************************************************************************)
(* What FlattenSeq computes, one sequence after the other.                 *)
(***************************************************************************)
Flattening(s, f, n) == f = [i \in 1..n |-> IF i = 1 THEN s[i] ELSE f[i - 1] \o s[i]]

LEMMA FlatteningExists ==
    ASSUME NEW s, NEW n \in Nat
    PROVE  \E f : Flattening(s, f, n)
  <1> DEFINE S == {m \in Nat : \E f : Flattening(s, f, m)}
  <1>1. 0 \in S
    <2>1. Flattening(s, [i \in 1..0 |-> 0], 0)
      BY DEF Flattening
    <2> QED BY <2>1
  <1>2. ASSUME NEW m \in Nat, m \in S PROVE m + 1 \in S
    <2>1. PICK f : Flattening(s, f, m)
      BY <1>2
    <2> DEFINE last == IF m + 1 = 1 THEN s[m + 1] ELSE f[m] \o s[m + 1]
               g == [i \in 1..(m + 1) |-> IF i = m + 1 THEN last ELSE f[i]]
    <2>2. \A i \in 1..m : f[i] = IF i = 1 THEN s[i] ELSE f[i - 1] \o s[i]
      BY <2>1 DEF Flattening
    <2>3. /\ g[m + 1] = last
          /\ \A i \in 1..m : g[i] = f[i]
      <3> HIDE DEF last
      <3>1. m + 1 \in 1..(m + 1) /\ \A i \in 1..m : i \in 1..(m + 1) /\ i # m + 1
        OBVIOUS
      <3> QED BY <3>1
    <2>4. DOMAIN g = 1..(m + 1) /\ g = [i \in 1..(m + 1) |-> g[i]]
      OBVIOUS
    <2>5. \A i \in 1..(m + 1) : g[i] = IF i = 1 THEN s[i] ELSE g[i - 1] \o s[i]
      <3> SUFFICES ASSUME NEW i \in 1..(m + 1)
                   PROVE  g[i] = IF i = 1 THEN s[i] ELSE g[i - 1] \o s[i]
        OBVIOUS
      <3> HIDE DEF g
      <3>1. CASE i = m + 1
        <4>1. m # 0 => m \in 1..m
          OBVIOUS
        <4> QED BY <3>1, <2>3, <4>1
      <3>2. CASE i # m + 1
        <4>1. i \in 1..m /\ (i # 1 => i - 1 \in 1..m)
          BY <3>2
        <4>2. g[i] = f[i] /\ (i # 1 => g[i - 1] = f[i - 1])
          BY <2>3, <4>1
        <4> QED BY <2>2, <4>1, <4>2
      <3> QED BY <3>1, <3>2
    <2> HIDE DEF g
    <2>6. Flattening(s, g, m + 1)
      BY <2>4, <2>5 DEF Flattening
    <2> QED BY <2>6
  <1>3. Nat \subseteq S
    <2> HIDE DEF S
    <2> QED BY <1>1, <1>2, Inductively
  <1> QED BY <1>3

LEMMA FlattenIs ==
    ASSUME NEW s, NEW n \in Nat \ {0}, Len(s) = n
    PROVE  \E f : Flattening(s, f, n) /\ FlattenSeq(s) = f[n]
  <1> DEFINE g == CHOOSE f : f = [i \in 1..Len(s) |-> IF i = 1 THEN s[i] ELSE f[i - 1] \o s[i]]
  <1>1. \E f : f = [i \in 1..Len(s) |-> IF i = 1 THEN s[i] ELSE f[i - 1] \o s[i]]
    BY FlatteningExists DEF Flattening
  <1>2. g = [i \in 1..Len(s) |-> IF i = 1 THEN s[i] ELSE g[i - 1] \o s[i]]
    BY <1>1, Zenon
  <1>3. FlattenSeq(s) = g[Len(s)]
    BY Zenon DEF FlattenSeq
  <1> HIDE DEF g
  <1>4. Flattening(s, g, n)
    BY <1>2 DEF Flattening
  <1> QED BY <1>3, <1>4

-----------------------------------------------------------------------------
(***************************************************************************)
(* What a row lists.  Lists(F, r, P): F holds the releases of the pages P  *)
(* of row r, each once, page after page in the order of the page.          *)
(***************************************************************************)
Items == [row : Rows, page : Nat, nr : Nat, seeders : Nat \cup {Unknown}]

Before(a, b) == a.page < b.page \/ (a.page = b.page /\ a.nr < b.nr)

Lists(F, r, P) ==
    /\ F \in Seq(Items)
    /\ \A k \in DOMAIN F : \E p \in P : \E i \in DOMAIN Listing[r][p] : F[k] = Release(r, p, i)
    /\ \A p \in P : \A i \in DOMAIN Listing[r][p] : \E k \in DOMAIN F : F[k] = Release(r, p, i)
    /\ \A k, l \in DOMAIN F : k < l => Before(F[k], F[l])

LEMMA ListingIs ==
    ASSUME NEW r \in Rows
    PROVE  /\ DOMAIN Listing[r] = IF r \in Feeds THEN {1} ELSE 1..Pages
           /\ DOMAIN Listing[r] \subseteq Nat
           /\ \A p \in DOMAIN Listing[r] : Listing[r][p] \in Seq(Nat \cup {Unknown})
  <1>1. Pages \in Nat /\ Searches \cap Feeds = {}
    BY CardigannSessionAssumption, SearchEndpointAssumption
  <1>2. CASE r \in Feeds
    <2>1. Listing[r] \in [{1} -> Seq(Nat \cup {Unknown})]
      BY <1>2, SearchEndpointAssumption
    <2> QED BY <1>2, <2>1
  <1>3. CASE r \in Searches
    <2>1. Listing[r] \in [1..Pages -> Seq(Nat \cup {Unknown})] /\ r \notin Feeds
      BY <1>1, <1>3, SearchEndpointAssumption
    <2> QED BY <1>1, <2>1
  <1> QED BY <1>2, <1>3 DEF Rows

LEMMA ReleaseIs ==
    ASSUME NEW r \in Rows, NEW p \in DOMAIN Listing[r], NEW i \in DOMAIN Listing[r][p]
    PROVE  /\ Release(r, p, i) \in Items
           /\ Release(r, p, i).row = r /\ Release(r, p, i).page = p /\ Release(r, p, i).nr = i
  <1>1. p \in Nat /\ Listing[r][p] \in Seq(Nat \cup {Unknown})
    BY ListingIs
  <1>2. i \in 1..Len(Listing[r][p]) /\ Len(Listing[r][p]) \in Nat
    BY <1>1, LenProperties
  <1>3. i \in Nat /\ Listing[r][p][i] \in Nat \cup {Unknown}
    BY <1>1, <1>2, ElementOfSeq
  <1> QED BY <1>1, <1>3 DEF Release, Items

LEMMA PageLists ==
    ASSUME NEW r \in Rows, NEW p \in DOMAIN Listing[r]
    PROVE  Lists(ReleasesOfPage(r, p), r, {p})
  <1> DEFINE F == ReleasesOfPage(r, p)
             page == Listing[r][p]
  <1>1. DOMAIN page = 1..Len(page) /\ Len(page) \in Nat
    BY ListingIs, LenProperties
  <1>2. F = [i \in 1..Len(page) |-> Release(r, p, i)]
    BY <1>1 DEF ReleasesOfPage
  <1>3. \A i \in 1..Len(page) : /\ Release(r, p, i) \in Items
                                /\ Release(r, p, i).page = p /\ Release(r, p, i).nr = i
    BY <1>1, ReleaseIs
  <1> HIDE DEF page
  <1>4. F \in Seq(Items) /\ DOMAIN F = DOMAIN page /\ \A i \in DOMAIN page : F[i] = Release(r, p, i)
    BY <1>1, <1>2, <1>3
  <1> HIDE DEF F
  <1>5. \A k, l \in DOMAIN F : k < l => Before(F[k], F[l])
    BY <1>1, <1>3, <1>4 DEF Before
  <1>6. \A k \in DOMAIN F : \E i \in DOMAIN page : F[k] = Release(r, p, i)
    BY <1>4
  <1>7. \A i \in DOMAIN page : \E k \in DOMAIN F : F[k] = Release(r, p, i)
    BY <1>4
  <1> QED BY <1>4, <1>5, <1>6, <1>7 DEF Lists, F, page

\* The parts of a concatenation.
LEMMA ConcatIs ==
    ASSUME NEW S, NEW F \in Seq(S), NEW G \in Seq(S)
    PROVE  /\ F \o G \in Seq(S)
           /\ DOMAIN F \subseteq DOMAIN (F \o G)
           /\ \A k \in DOMAIN F : (F \o G)[k] = F[k]
           /\ \A k \in DOMAIN G : k + Len(F) \in DOMAIN (F \o G) /\ (F \o G)[k + Len(F)] = G[k]
           /\ \A k \in DOMAIN (F \o G) :
                 k \in DOMAIN F \/ (k - Len(F) \in DOMAIN G /\ \A n \in DOMAIN F : n < k)
  <1>1. /\ Len(F) \in Nat /\ DOMAIN F = 1..Len(F)
        /\ Len(G) \in Nat /\ DOMAIN G = 1..Len(G)
    BY LenProperties
  <1>2. /\ F \o G \in Seq(S) /\ Len(F \o G) = Len(F) + Len(G)
        /\ \A k \in 1 .. Len(F) + Len(G) :
              (F \o G)[k] = IF k <= Len(F) THEN F[k] ELSE G[k - Len(F)]
    BY ConcatProperties
  <1>3. DOMAIN (F \o G) = 1 .. Len(F) + Len(G)
    BY <1>2, LenProperties
  <1>4. \A k \in DOMAIN F : k \in DOMAIN (F \o G) /\ (F \o G)[k] = F[k]
    BY <1>1, <1>2, <1>3
  <1>5. \A k \in DOMAIN G : k + Len(F) \in DOMAIN (F \o G) /\ (F \o G)[k + Len(F)] = G[k]
    <2> SUFFICES ASSUME NEW k \in 1..Len(G)
                 PROVE  k + Len(F) \in DOMAIN (F \o G) /\ (F \o G)[k + Len(F)] = G[k]
      BY <1>1
    <2>1. k + Len(F) \in 1 .. Len(F) + Len(G) /\ ~(k + Len(F) <= Len(F)) /\ (k + Len(F)) - Len(F) = k
      BY <1>1
    <2> QED BY <1>2, <1>3, <2>1
  <1>6. \A k \in DOMAIN (F \o G) :
           k \in DOMAIN F \/ (k - Len(F) \in DOMAIN G /\ \A n \in DOMAIN F : n < k)
    BY <1>1, <1>3
  <1> QED BY <1>2, <1>4, <1>5, <1>6

LEMMA NextPageLists ==
    ASSUME NEW r \in Rows, NEW n \in Nat, NEW F, Lists(F, r, 1..n), 1..(n + 1) \subseteq DOMAIN Listing[r]
    PROVE  Lists(F \o ReleasesOfPage(r, n + 1), r, 1..(n + 1))
  <1> DEFINE G == ReleasesOfPage(r, n + 1)
  <1>1. n + 1 \in 1..(n + 1) /\ \A p \in 1..(n + 1) : p \in 1..n \/ p = n + 1
    OBVIOUS
  <1>2. Lists(G, r, {n + 1})
    BY <1>1, PageLists
  <1> HIDE DEF G
  <1>3. F \in Seq(Items) /\ G \in Seq(Items)
    BY <1>2 DEF Lists
  <1>4. /\ F \o G \in Seq(Items) /\ DOMAIN F \subseteq DOMAIN (F \o G)
        /\ \A k \in DOMAIN F : (F \o G)[k] = F[k]
        /\ \A k \in DOMAIN G : k + Len(F) \in DOMAIN (F \o G) /\ (F \o G)[k + Len(F)] = G[k]
        /\ \A k \in DOMAIN (F \o G) :
              k \in DOMAIN F \/ (k - Len(F) \in DOMAIN G /\ \A m \in DOMAIN F : m < k)
    BY <1>3, ConcatIs
  <1>5. /\ Len(F) \in Nat /\ DOMAIN (F \o G) \subseteq Nat
        /\ \A k \in DOMAIN (F \o G) : (k - Len(F)) + Len(F) = k
    BY <1>3, <1>4, LenProperties
  <1>6. \A k \in DOMAIN F : \E p \in 1..n : \E i \in DOMAIN Listing[r][p] : F[k] = Release(r, p, i)
    BY DEF Lists
  <1>7. \A k \in DOMAIN G : \E i \in DOMAIN Listing[r][n + 1] : G[k] = Release(r, n + 1, i)
    BY <1>2 DEF Lists
  <1>8. \A k \in DOMAIN (F \o G) :
           (k \in DOMAIN F /\ (F \o G)[k] = F[k])
           \/ (k - Len(F) \in DOMAIN G /\ (F \o G)[k] = G[k - Len(F)] /\ \A m \in DOMAIN F : m < k)
    BY <1>4, <1>5
  <1>9. ASSUME NEW k \in DOMAIN (F \o G)
        PROVE  \E p \in 1..(n + 1) : \E i \in DOMAIN Listing[r][p] : (F \o G)[k] = Release(r, p, i)
    BY <1>1, <1>6, <1>7, <1>8
  <1>10. ASSUME NEW p \in 1..(n + 1), NEW i \in DOMAIN Listing[r][p]
         PROVE  \E k \in DOMAIN (F \o G) : (F \o G)[k] = Release(r, p, i)
    <2>1. CASE p \in 1..n
      <3>1. PICK k \in DOMAIN F : F[k] = Release(r, p, i)
        BY <2>1 DEF Lists
      <3> QED BY <1>4, <3>1
    <2>2. CASE p = n + 1
      <3>1. PICK k \in DOMAIN G : G[k] = Release(r, p, i)
        BY <1>2, <2>2 DEF Lists
      <3> QED BY <1>4, <3>1
    <2> QED BY <1>1, <2>1, <2>2
  <1>11. ASSUME NEW k \in DOMAIN (F \o G), NEW l \in DOMAIN (F \o G), k < l
         PROVE  Before((F \o G)[k], (F \o G)[l])
    <2>1. CASE k \in DOMAIN F /\ l \in DOMAIN F
      BY <1>4, <1>11, <2>1 DEF Lists
    <2>2. CASE k \in DOMAIN F /\ l \notin DOMAIN F
      <3>1. PICK p \in 1..n : \E i \in DOMAIN Listing[r][p] : F[k] = Release(r, p, i)
        BY <1>6, <2>2
      <3>2. F[k].page = p
        BY <1>1, <3>1, ReleaseIs
      <3>3. PICK i \in DOMAIN Listing[r][n + 1] : (F \o G)[l] = Release(r, n + 1, i)
        BY <1>7, <1>8, <2>2
      <3>4. (F \o G)[l].page = n + 1
        BY <1>1, <3>3, ReleaseIs
      <3>5. (F \o G)[k] = F[k]
        BY <1>4, <2>2
      <3> QED BY <3>2, <3>4, <3>5 DEF Before
    <2>3. CASE k \notin DOMAIN F /\ l \notin DOMAIN F
      <3>1. /\ k - Len(F) \in DOMAIN G /\ (F \o G)[k] = G[k - Len(F)]
            /\ l - Len(F) \in DOMAIN G /\ (F \o G)[l] = G[l - Len(F)]
        BY <1>8, <2>3
      <3>2. k - Len(F) < l - Len(F)
        BY <1>5, <1>11
      <3> QED BY <1>2, <3>1, <3>2 DEF Lists
    <2>4. k \notin DOMAIN F => l \notin DOMAIN F
      BY <1>5, <1>8, <1>11
    <2> QED BY <2>1, <2>2, <2>3, <2>4
  <1> QED BY <1>4, <1>9, <1>10, <1>11 DEF Lists, G

\* A search flattens its pages: Release after Release, for any number of pages.
LEMMA PagesFlatten ==
    ASSUME NEW r \in Searches
    PROVE  Lists(FlattenSeq([n \in 1..Pages |-> ReleasesOfPage(r, n)]), r, 1..Pages)
  <1> DEFINE s == [n \in 1..Pages |-> ReleasesOfPage(r, n)]
  <1>1. Pages \in Nat \ {0} /\ r \in Rows /\ DOMAIN Listing[r] = 1..Pages
    BY ListingIs, CardigannSessionAssumption, SearchEndpointAssumption DEF Rows
  <1>2. Len(s) = Pages
    BY <1>1
  <1>3. \A n \in 1..Pages : s[n] = ReleasesOfPage(r, n)
    OBVIOUS
  <1> HIDE DEF s
  <1>4. PICK f : Flattening(s, f, Pages) /\ FlattenSeq(s) = f[Pages]
    BY <1>1, <1>2, FlattenIs
  <1>5. \A n \in 1..Pages : f[n] = IF n = 1 THEN s[n] ELSE f[n - 1] \o s[n]
    BY <1>4 DEF Flattening
  <1> DEFINE S == {n \in Nat : n \in 1..Pages => Lists(f[n], r, 1..n)}
  <1>6. 0 \in S
    OBVIOUS
  <1>7. ASSUME NEW n \in Nat, n \in S PROVE n + 1 \in S
    <2> SUFFICES ASSUME n + 1 \in 1..Pages PROVE Lists(f[n + 1], r, 1..(n + 1))
      OBVIOUS
    <2>1. CASE n = 0
      <3>1. f[1] = ReleasesOfPage(r, 1) /\ 1 \in DOMAIN Listing[r] /\ 1..1 = {1}
        BY <1>1, <1>3, <1>5, <2>1
      <3>2. Lists(ReleasesOfPage(r, 1), r, {1})
        BY <1>1, <3>1, PageLists
      <3> QED BY <2>1, <3>1, <3>2
    <2>2. CASE n # 0
      <3>1. n \in 1..Pages /\ (n + 1) - 1 = n /\ n + 1 # 1
        BY <1>1, <2>2
      <3>2. Lists(f[n], r, 1..n)
        BY <1>7, <3>1
      <3>3. f[n + 1] = f[n] \o ReleasesOfPage(r, n + 1)
        BY <1>3, <1>5, <3>1
      <3>4. 1..(n + 1) \subseteq DOMAIN Listing[r]
        BY <1>1
      <3> QED BY <1>1, <3>2, <3>3, <3>4, NextPageLists
    <2> QED BY <2>1, <2>2
  <1>8. Pages \in S
    <2> HIDE DEF S
    <2> QED BY <1>1, <1>6, <1>7, Inductively
  <1>9. Lists(f[Pages], r, 1..Pages)
    BY <1>1, <1>8
  <1> QED BY <1>4, <1>9 DEF s

\* What the task of a row that succeeded hands back.
LEMMA ExtractedLists ==
    ASSUME TypeOK, AllTidy, NEW r \in Rows, At(r) = "ok"
    PROVE  Lists(Extracted(r), r, DOMAIN Listing[r])
  <1>1. CASE r \in Feeds
    <2>1. DOMAIN Listing[r] = {1} /\ Extracted(r) = ReleasesOfPage(r, 1)
      BY <1>1, ListingIs DEF Extracted
    <2> QED BY <2>1, PageLists
  <1>2. CASE r \notin Feeds
    <2>1. r \in Searches /\ DOMAIN Listing[r] = 1..Pages
      BY <1>2, ListingIs DEF Rows
    <2>2. run[r].got = Done(Pages)
      BY <1>2, <2>1 DEF At, AllTidy, Tidy
    <2>3. DOMAIN Done(Pages) = 1..Pages /\ \A n \in 1..Pages : Done(Pages)[n].page = n
      BY DEF Done
    <2>4. Extracted(r) = FlattenSeq([n \in DOMAIN Done(Pages) |-> ReleasesOfPage(r, Done(Pages)[n].page)])
      BY <1>2, <2>2 DEF Extracted
    <2>5. [n \in DOMAIN Done(Pages) |-> ReleasesOfPage(r, Done(Pages)[n].page)]
          = [n \in 1..Pages |-> ReleasesOfPage(r, n)]
      BY <2>3
    <2> QED BY <2>1, <2>4, <2>5, PagesFlatten
  <1> QED BY <1>1, <1>2

-----------------------------------------------------------------------------
(***************************************************************************)
(* The stable sort.  The place of an index is the number of those that go  *)
(* before it, and one; a strict total order gives each a place of its own. *)
(***************************************************************************)
LEMMA PlacesAre ==
    ASSUME NEW n \in Nat, NEW D \in [1..n -> SUBSET (1..n)],
           \A i \in 1..n : i \notin D[i],
           \A i, j, k \in 1..n : i \in D[j] /\ j \in D[k] => i \in D[k],
           \A i, j \in 1..n : i # j => i \in D[j] \/ j \in D[i]
    PROVE  /\ \A i \in 1..n : 1 + Cardinality(D[i]) \in 1..n
           /\ \A i, j \in 1..n : i \in D[j] => Cardinality(D[i]) < Cardinality(D[j])
           /\ \A m \in 1..n : \E i \in 1..n : 1 + Cardinality(D[i]) = m
  <1>1. IsFiniteSet(1..n) /\ Cardinality(1..n) = n
    BY FS_Interval
  <1>2. ASSUME NEW i \in 1..n
        PROVE  IsFiniteSet(D[i]) /\ Cardinality(D[i]) \in Nat /\ Cardinality(D[i]) < n
    <2>1. D[i] \in SUBSET (1..n) /\ D[i] # 1..n
      OBVIOUS
    <2>2. IsFiniteSet(D[i]) /\ Cardinality(D[i]) <= n /\ Cardinality(D[i]) # n
      BY <1>1, <2>1, FS_Subset
    <2>3. Cardinality(D[i]) \in Nat
      BY <2>2, FS_CardinalityType
    <2> QED BY <2>2, <2>3
  <1>3. ASSUME NEW i \in 1..n, NEW j \in 1..n, i \in D[j]
        PROVE  Cardinality(D[i]) < Cardinality(D[j])
    <2>1. D[i] \in SUBSET D[j] /\ D[i] # D[j]
      BY <1>3
    <2>2. Cardinality(D[i]) <= Cardinality(D[j]) /\ Cardinality(D[i]) # Cardinality(D[j])
      BY <1>2, <2>1, FS_Subset
    <2>3. Cardinality(D[i]) \in Nat /\ Cardinality(D[j]) \in Nat
      BY <1>2
    <2> QED BY <2>2, <2>3
  <1> DEFINE P == [i \in 1..n |-> 1 + Cardinality(D[i])]
  <1>4. \A i \in 1..n : P[i] = 1 + Cardinality(D[i])
    OBVIOUS
  <1>5. ASSUME NEW i \in 1..n PROVE P[i] \in 1..n
    <2>1. Cardinality(D[i]) \in Nat /\ Cardinality(D[i]) < n
      BY <1>2
    <2> QED BY <1>4, <2>1
  <1>6. P \in [1..n -> 1..n]
    BY <1>5
  <1> HIDE DEF P
  <1>7. ASSUME NEW i \in 1..n, NEW j \in 1..n, P[i] = P[j] PROVE i = j
    <2>1. Cardinality(D[i]) \in Nat /\ Cardinality(D[j]) \in Nat
      BY <1>2
    <2>2. ~(Cardinality(D[i]) < Cardinality(D[j])) /\ ~(Cardinality(D[j]) < Cardinality(D[i]))
      BY <1>4, <1>7, <2>1
    <2> QED BY <1>3, <2>2
  <1>8. P \in Injection(1..n, 1..n)
    BY <1>6, <1>7 DEF Injection, IsInjective
  <1>9. P \in Surjection(1..n, 1..n)
    BY <1>1, <1>8, FS_Injection
  <1>10. \A m \in 1..n : \E i \in 1..n : P[i] = m
    BY <1>9 DEF Surjection
  <1>11. \A m \in 1..n : \E i \in 1..n : 1 + Cardinality(D[i]) = m
    BY <1>4, <1>10
  <1>12. \A i \in 1..n : 1 + Cardinality(D[i]) \in 1..n
    BY <1>4, <1>5
  <1> QED BY <1>3, <1>11, <1>12

Goes(list, i, j) == \/ More(list[i].seeders, list[j].seeders)
                    \/ ~More(list[j].seeders, list[i].seeders) /\ i < j

\* What the sort makes of a list: the same releases, each in its place.
LEMMA SortedIs ==
    ASSUME NEW F \in Seq(Items)
    PROVE  \E pi : /\ pi \in [1..Len(F) -> 1..Len(F)]
                   /\ DOMAIN Sorted(F) = 1..Len(F)
                   /\ \A i \in 1..Len(F) : Sorted(F)[i] = F[pi[i]]
                   /\ \A i \in 1..Len(F) : \E j \in 1..Len(F) : pi[j] = i
                   /\ \A i, j \in 1..Len(F) : i < j => Goes(F, pi[i], pi[j])
  <1> DEFINE n == Len(F)
             D == [i \in 1..n |-> {j \in 1..n : Goes(F, j, i)}]
             pi == [m \in 1..n |-> CHOOSE i \in 1..n : 1 + Cardinality(D[i]) = m]
  <1>1. n \in Nat /\ DOMAIN F = 1..n /\ Unknown \notin Nat
    BY LenProperties, SearchEndpointAssumption
  <1>2. ASSUME NEW i \in 1..n PROVE F[i].seeders \in Nat \cup {Unknown}
    <2>1. F[i] \in Items
      BY <1>1, ElementOfSeq
    <2> QED BY <2>1 DEF Items
  <1>3. Sorted(F) = [m \in 1..n |-> F[CHOOSE i \in 1..n :
                       1 + Cardinality({j \in 1..n : Goes(F, j, i)}) = m]]
    <2>1. Sorted(F) = [m \in DOMAIN F |-> F[CHOOSE i \in DOMAIN F :
                         1 + Cardinality({j \in DOMAIN F : Goes(F, j, i)}) = m]]
      BY DEF Sorted, Goes
    <2> QED BY <1>1, <2>1
  <1>4. ASSUME NEW m \in 1..n PROVE Sorted(F)[m] = F[pi[m]]
    <2>1. Sorted(F)[m] = F[CHOOSE i \in 1..n : 1 + Cardinality({j \in 1..n : Goes(F, j, i)}) = m]
      BY <1>3
    <2>2. pi[m] = CHOOSE i \in 1..n : 1 + Cardinality(D[i]) = m
      OBVIOUS
    <2>3. \A i \in 1..n : D[i] = {j \in 1..n : Goes(F, j, i)}
      OBVIOUS
    <2> HIDE DEF D, pi, n
    <2>4. (CHOOSE i \in 1..n : 1 + Cardinality(D[i]) = m)
          = CHOOSE i \in 1..n : 1 + Cardinality({j \in 1..n : Goes(F, j, i)}) = m
      BY <2>3
    <2> QED BY <2>1, <2>2, <2>4
  <1>5. \A i, j \in 1..n : j \in D[i] <=> Goes(F, j, i)
    OBVIOUS
  <1>6. D \in [1..n -> SUBSET (1..n)]
    OBVIOUS
  <1>7. DOMAIN Sorted(F) = 1..n
    BY <1>3
  <1> HIDE DEF n, D
  <1>8. \A i \in 1..n : ~Goes(F, i, i)
    BY <1>1, <1>2 DEF Goes, More
  <1>9. \A i, j, k \in 1..n : Goes(F, i, j) /\ Goes(F, j, k) => Goes(F, i, k)
    BY <1>1, <1>2 DEF Goes, More
  <1>10. \A i, j \in 1..n : i # j => Goes(F, i, j) \/ Goes(F, j, i)
    BY <1>1, <1>2 DEF Goes, More
  <1>11. /\ \A i \in 1..n : i \notin D[i]
         /\ \A i, j, k \in 1..n : i \in D[j] /\ j \in D[k] => i \in D[k]
         /\ \A i, j \in 1..n : i # j => i \in D[j] \/ j \in D[i]
    BY <1>5, <1>8, <1>9, <1>10
  <1>12. /\ \A i \in 1..n : 1 + Cardinality(D[i]) \in 1..n
         /\ \A i, j \in 1..n : i \in D[j] => Cardinality(D[i]) < Cardinality(D[j])
         /\ \A m \in 1..n : \E i \in 1..n : 1 + Cardinality(D[i]) = m
    BY <1>1, <1>6, <1>11, PlacesAre
  <1>13. \A m \in 1..n : pi[m] \in 1..n /\ 1 + Cardinality(D[pi[m]]) = m
    BY <1>12
  <1>14. pi \in [1..n -> 1..n]
    BY <1>13
  <1> HIDE DEF pi
  <1>15. \A i \in 1..n : Cardinality(D[i]) \in Nat
    <2>1. IsFiniteSet(1..n)
      BY <1>1, FS_Interval
    <2>2. \A i \in 1..n : IsFiniteSet(D[i])
      BY <1>6, <2>1, FS_Subset
    <2> QED BY <2>2, FS_CardinalityType
  <1>16. ASSUME NEW i \in 1..n PROVE \E j \in 1..n : pi[j] = i
    <2> DEFINE m == 1 + Cardinality(D[i])
    <2>1. m \in 1..n /\ pi[m] \in 1..n /\ 1 + Cardinality(D[pi[m]]) = m
      BY <1>12, <1>13
    <2>2. /\ Cardinality(D[i]) \in Nat /\ Cardinality(D[pi[m]]) \in Nat
      BY <1>15, <2>1
    <2>3. ~(Cardinality(D[i]) < Cardinality(D[pi[m]])) /\ ~(Cardinality(D[pi[m]]) < Cardinality(D[i]))
      BY <2>1, <2>2
    <2> HIDE DEF m
    <2>4. pi[m] = i
      BY <1>11, <1>12, <2>1, <2>3
    <2> QED BY <2>1, <2>4
  <1>17. ASSUME NEW i \in 1..n, NEW j \in 1..n, i < j PROVE Goes(F, pi[i], pi[j])
    <2>1. /\ pi[i] \in 1..n /\ 1 + Cardinality(D[pi[i]]) = i
          /\ pi[j] \in 1..n /\ 1 + Cardinality(D[pi[j]]) = j
      BY <1>13
    <2>2. Cardinality(D[pi[i]]) \in Nat /\ Cardinality(D[pi[j]]) \in Nat
      BY <1>15, <2>1
    <2>3. pi[i] # pi[j] /\ ~(Cardinality(D[pi[j]]) < Cardinality(D[pi[i]]))
      BY <1>17, <2>1, <2>2
    <2>4. pi[i] \in D[pi[j]]
      BY <1>11, <1>12, <2>1, <2>3
    <2> QED BY <1>5, <2>1, <2>4
  <1> QED BY <1>4, <1>7, <1>14, <1>16, <1>17 DEF n

(***************************************************************************)
(* What the handler has collected of the rows R, and its sorted list.      *)
(***************************************************************************)
Collected(F, R) ==
    /\ F \in Seq(Items)
    /\ \A k \in DOMAIN F : \E r \in R : \E p \in DOMAIN Listing[r] :
          \E i \in DOMAIN Listing[r][p] : F[k] = Release(r, p, i)
    /\ \A r \in R : \A p \in DOMAIN Listing[r] : \A i \in DOMAIN Listing[r][p] :
          \E k \in DOMAIN F : F[k] = Release(r, p, i)
    /\ \A k, l \in DOMAIN F : k < l /\ F[k].row = F[l].row => Before(F[k], F[l])

Ranked(list) == \A i, j \in DOMAIN list : i < j =>
    /\ ~More(list[j].seeders, list[i].seeders)
    /\ list[i].row = list[j].row /\ list[i].seeders = list[j].seeders =>
         Before(list[i], list[j])

LEMMA NothingCollected == Collected(<<>>, {})
  <1>1. <<>> \in Seq(Items) /\ DOMAIN <<>> = {}
    OBVIOUS
  <1> QED BY <1>1 DEF Collected

\* A row joins: its releases come after those there are, and none is there yet.
LEMMA CollectedNext ==
    ASSUME NEW R \in SUBSET Rows, NEW F, Collected(F, R),
           NEW r \in Rows \ R, NEW G, Lists(G, r, DOMAIN Listing[r])
    PROVE  Collected(F \o G, R \cup {r})
  <1>1. F \in Seq(Items) /\ G \in Seq(Items)
    BY DEF Collected, Lists
  <1>2. /\ F \o G \in Seq(Items) /\ DOMAIN F \subseteq DOMAIN (F \o G)
        /\ \A k \in DOMAIN F : (F \o G)[k] = F[k]
        /\ \A k \in DOMAIN G : k + Len(F) \in DOMAIN (F \o G) /\ (F \o G)[k + Len(F)] = G[k]
        /\ \A k \in DOMAIN (F \o G) :
              k \in DOMAIN F \/ (k - Len(F) \in DOMAIN G /\ \A m \in DOMAIN F : m < k)
    BY <1>1, ConcatIs
  <1>3. /\ Len(F) \in Nat /\ DOMAIN (F \o G) \subseteq Nat
        /\ \A k \in DOMAIN (F \o G) : (k - Len(F)) + Len(F) = k
    BY <1>1, <1>2, LenProperties
  <1>4. \A k \in DOMAIN (F \o G) :
           (k \in DOMAIN F /\ (F \o G)[k] = F[k])
           \/ (k - Len(F) \in DOMAIN G /\ (F \o G)[k] = G[k - Len(F)] /\ \A m \in DOMAIN F : m < k)
    BY <1>2, <1>3
  <1>5. ASSUME NEW k \in DOMAIN F
        PROVE  /\ \E q \in R : \E p \in DOMAIN Listing[q] :
                    \E i \in DOMAIN Listing[q][p] : F[k] = Release(q, p, i)
               /\ F[k].row # r
    <2>1. PICK q \in R : \E p \in DOMAIN Listing[q] :
                    \E i \in DOMAIN Listing[q][p] : F[k] = Release(q, p, i)
      BY DEF Collected
    <2>2. F[k].row = q /\ q # r
      BY <2>1, ReleaseIs
    <2> QED BY <2>1, <2>2
  <1>6. ASSUME NEW k \in DOMAIN G
        PROVE  /\ \E p \in DOMAIN Listing[r] : \E i \in DOMAIN Listing[r][p] : G[k] = Release(r, p, i)
               /\ G[k].row = r
    <2>1. \E p \in DOMAIN Listing[r] : \E i \in DOMAIN Listing[r][p] : G[k] = Release(r, p, i)
      BY DEF Lists
    <2> QED BY <2>1, ReleaseIs
  <1>7. ASSUME NEW k \in DOMAIN (F \o G)
        PROVE  \E q \in R \cup {r} : \E p \in DOMAIN Listing[q] :
                  \E i \in DOMAIN Listing[q][p] : (F \o G)[k] = Release(q, p, i)
    BY <1>4, <1>5, <1>6
  <1>8. ASSUME NEW q \in R \cup {r}, NEW p \in DOMAIN Listing[q], NEW i \in DOMAIN Listing[q][p]
        PROVE  \E k \in DOMAIN (F \o G) : (F \o G)[k] = Release(q, p, i)
    <2>1. CASE q \in R
      <3>1. PICK k \in DOMAIN F : F[k] = Release(q, p, i)
        BY <2>1 DEF Collected
      <3> QED BY <1>2, <3>1
    <2>2. CASE q = r
      <3>1. PICK k \in DOMAIN G : G[k] = Release(q, p, i)
        BY <2>2 DEF Lists
      <3> QED BY <1>2, <3>1
    <2> QED BY <2>1, <2>2
  <1>9. ASSUME NEW k \in DOMAIN (F \o G), NEW l \in DOMAIN (F \o G), k < l,
               (F \o G)[k].row = (F \o G)[l].row
        PROVE  Before((F \o G)[k], (F \o G)[l])
    <2>1. CASE k \in DOMAIN F /\ l \in DOMAIN F
      BY <1>2, <1>9, <2>1 DEF Collected
    <2>2. CASE k \notin DOMAIN F /\ l \notin DOMAIN F
      <3>1. /\ k - Len(F) \in DOMAIN G /\ (F \o G)[k] = G[k - Len(F)]
            /\ l - Len(F) \in DOMAIN G /\ (F \o G)[l] = G[l - Len(F)]
        BY <1>4, <2>2
      <3>2. k - Len(F) < l - Len(F)
        BY <1>3, <1>9
      <3> QED BY <3>1, <3>2 DEF Lists
    <2>3. ~(k \in DOMAIN F /\ l \notin DOMAIN F) /\ ~(k \notin DOMAIN F /\ l \in DOMAIN F)
      BY <1>4, <1>5, <1>6, <1>9
    <2> QED BY <2>1, <2>2, <2>3
  <1> QED BY <1>2, <1>7, <1>8, <1>9 DEF Collected

\* No release is collected twice, and the list that is sent is in rank.
LEMMA SortedCollection ==
    ASSUME NEW R \in SUBSET Rows, NEW F, Collected(F, R)
    PROVE  /\ IsInjective(Sorted(F)) /\ Ranked(Sorted(F))
           /\ ToSet(Sorted(F)) = UNION {AllReleases(r) : r \in R}
  <1> DEFINE n == Len(F)
  <1>1. F \in Seq(Items) /\ n \in Nat /\ DOMAIN F = 1..n
    BY LenProperties DEF Collected
  <1>2. PICK pi : /\ pi \in [1..n -> 1..n]
                  /\ DOMAIN Sorted(F) = 1..n
                  /\ \A i \in 1..n : Sorted(F)[i] = F[pi[i]]
                  /\ \A i \in 1..n : \E j \in 1..n : pi[j] = i
                  /\ \A i, j \in 1..n : i < j => Goes(F, pi[i], pi[j])
    BY <1>1, SortedIs
  <1> HIDE DEF n
  <1>3. \A k \in 1..n : F[k] \in Items
    BY <1>1, ElementOfSeq
  <1>4. ASSUME NEW k \in 1..n, NEW l \in 1..n, k < l PROVE F[k] # F[l]
    <2>1. F[k].row = F[l].row => Before(F[k], F[l])
      BY <1>1, <1>4 DEF Collected
    <2>2. F[k].page \in Nat /\ F[k].nr \in Nat
      BY <1>3 DEF Items
    <2> QED BY <2>1, <2>2 DEF Before
  <1>5. Unknown \notin Nat /\ \A k \in 1..n : F[k].seeders \in Nat \cup {Unknown}
    BY <1>3, SearchEndpointAssumption DEF Items
  <1>6. \A i, j \in 1..n : Goes(F, i, j) =>
           /\ i # j /\ ~More(F[j].seeders, F[i].seeders)
           /\ F[i].seeders = F[j].seeders => i < j
    BY <1>1, <1>5 DEF Goes, More
  <1>7. IsInjective(Sorted(F))
    <2>1. ASSUME NEW i \in 1..n, NEW j \in 1..n, i < j PROVE Sorted(F)[i] # Sorted(F)[j]
      <3>1. pi[i] \in 1..n /\ pi[j] \in 1..n /\ pi[i] # pi[j]
        BY <1>2, <1>6, <2>1
      <3>2. F[pi[i]] # F[pi[j]]
        BY <1>1, <1>4, <3>1
      <3> QED BY <1>2, <3>2
    <2>2. \A i, j \in 1..n : i < j \/ j < i \/ i = j
      BY <1>1
    <2>3. \A i, j \in 1..n : Sorted(F)[i] = Sorted(F)[j] => i = j
      BY <2>1, <2>2
    <2> QED BY <1>2, <2>3 DEF IsInjective
  <1>8. Ranked(Sorted(F))
    <2> SUFFICES ASSUME NEW i \in 1..n, NEW j \in 1..n, i < j
                 PROVE  /\ ~More(Sorted(F)[j].seeders, Sorted(F)[i].seeders)
                        /\ Sorted(F)[i].row = Sorted(F)[j].row
                           /\ Sorted(F)[i].seeders = Sorted(F)[j].seeders =>
                             Before(Sorted(F)[i], Sorted(F)[j])
      BY <1>2 DEF Ranked
    <2>1. pi[i] \in 1..n /\ pi[j] \in 1..n /\ Goes(F, pi[i], pi[j])
      BY <1>2
    <2>2. /\ ~More(F[pi[j]].seeders, F[pi[i]].seeders)
          /\ F[pi[i]].seeders = F[pi[j]].seeders => pi[i] < pi[j]
      BY <1>6, <2>1
    <2>3. pi[i] < pi[j] /\ F[pi[i]].row = F[pi[j]].row => Before(F[pi[i]], F[pi[j]])
      BY <1>1, <2>1 DEF Collected
    <2>4. Sorted(F)[i] = F[pi[i]] /\ Sorted(F)[j] = F[pi[j]]
      BY <1>2
    <2> QED BY <2>2, <2>3, <2>4
  <1>9. \A x : x \in ToSet(Sorted(F)) <=> \E k \in 1..n : x = F[k]
    <2>1. \A k \in 1..n : \E i \in 1..n : Sorted(F)[i] = F[k]
      BY <1>2
    <2>2. \A i \in 1..n : \E k \in 1..n : Sorted(F)[i] = F[k]
      BY <1>2
    <2>3. \A x : x \in ToSet(Sorted(F)) <=> \E i \in 1..n : x = Sorted(F)[i]
      BY <1>2, Zenon DEF ToSet
    <2> QED BY <2>1, <2>2, <2>3
  <1>10. \A r \in R : \A x : x \in AllReleases(r) <=>
            \E p \in DOMAIN Listing[r] : \E i \in DOMAIN Listing[r][p] : x = Release(r, p, i)
    <2>1. ASSUME NEW r, NEW p, NEW x
          PROVE  x \in ToSet(ReleasesOfPage(r, p)) <=>
                   \E i \in DOMAIN Listing[r][p] : x = Release(r, p, i)
      <3>1. /\ DOMAIN ReleasesOfPage(r, p) = DOMAIN Listing[r][p]
            /\ \A i \in DOMAIN Listing[r][p] : ReleasesOfPage(r, p)[i] = Release(r, p, i)
        BY DEF ReleasesOfPage
      <3> QED BY <3>1 DEF ToSet
    <2>2. ASSUME NEW r, NEW x
          PROVE  x \in AllReleases(r) <=> \E p \in DOMAIN Listing[r] : x \in ToSet(ReleasesOfPage(r, p))
      BY Zenon DEF AllReleases
    <2> QED BY <2>1, <2>2
  <1>11. \A x : (\E k \in 1..n : x = F[k]) <=> \E r \in R : x \in AllReleases(r)
    BY <1>1, <1>10 DEF Collected
  <1>12. ToSet(Sorted(F)) = UNION {AllReleases(r) : r \in R}
    BY <1>9, <1>11
  <1> QED BY <1>7, <1>8, <1>12

-----------------------------------------------------------------------------
(***************************************************************************)
(* The endpoint takes steps of the searches, and what they keep it keeps.  *)
(***************************************************************************)
LEMMA HangUpKeeps ==
    ASSUME TypeOK, AllTidy, HangUp
    PROVE  TypeOK' /\ AllTidy'
  <1>1. Disturb /\ UNCHANGED <<def, tracker, jar, known>>
    BY DEF HangUp
  <1>2. run' = [s \in Searches |-> IF s \in handler.rows /\ Busy(s) THEN Resting ELSE run[s]]
    BY DEF HangUp
  <1>3. \A s \in Searches : run'[s] = Resting \/ run'[s] = run[s]
    BY <1>2
  <1>4. run' \in [Searches -> Runs]
    BY <1>2, RestingIs, Types
  <1>5. TypeOK'
    BY <1>1, <1>4, DisturbIs, Types, Assembled DEF TypeOK, Standings
  <1>6. ASSUME NEW s \in Searches PROVE Tidy(run'[s], past'[s])
    <2>1. past'[s].logins = past[s].logins
      BY <1>1, DisturbIs
    <2>2. CASE run'[s] = Resting
      BY <2>2, DoneZero DEF Tidy, Resting
    <2>3. CASE run'[s] = run[s]
      BY <2>1, <2>3 DEF AllTidy, Tidy
    <2> QED BY <1>3, <2>2, <2>3
  <1> QED BY <1>5, <1>6 DEF AllTidy

LEMMA EndpointKeeps ==
    ASSUME TypeOK, AllTidy, [NextEndpoint]_endpointVars
    PROVE  TypeOK' /\ AllTidy'
  <1>1. CASE HangUp
    BY <1>1, HangUpKeeps
  <1>2. ASSUME NEW S \in SUBSET Rows, Ask(S) PROVE [Next]_vars
    <2>1. UNCHANGED vars \/ Begin(S \cap Searches)
      BY <1>2 DEF Ask
    <2>2. S \cap Searches \in SUBSET Searches
      OBVIOUS
    <2> QED BY <2>1, <2>2 DEF Next
  <1>3. ASSUME NEW s \in Searches, Torznab(s) \/ Background(s) PROVE [Next]_vars
    <2>1. {s} \in SUBSET Searches
      OBVIOUS
    <2> QED BY <1>3, <2>1 DEF Torznab, Background, Next
  <1>4. ASSUME NEW r \in Feeds, FeedArrives(r) PROVE UNCHANGED vars
    BY <1>4 DEF FeedArrives
  <1>5. ASSUME NEW r \in Rows, Join(r) PROVE UNCHANGED vars
    BY <1>5 DEF Join
  <1>6. Answer => UNCHANGED vars
    BY DEF Answer
  <1>7. Expire => Next
    BY DEF Next
  <1>8. UNCHANGED endpointVars => UNCHANGED vars
    BY DEF endpointVars
  <1>9. CASE ~HangUp
    <2>1. [Next]_vars
      BY <1>2, <1>3, <1>4, <1>5, <1>6, <1>7, <1>8, <1>9 DEF NextEndpoint
    <2> QED BY <2>1, Keeps
  <1> QED BY <1>1, <1>9

LEMMA EndpointAlways == SpecEndpoint => [](TypeOK /\ AllTidy)
  <1>1. InitEndpoint => TypeOK /\ AllTidy
    BY Starts DEF InitEndpoint
  <1>2. TypeOK /\ AllTidy /\ [NextEndpoint]_endpointVars => TypeOK' /\ AllTidy'
    BY EndpointKeeps
  <1> QED BY <1>1, <1>2, PTL DEF SpecEndpoint

\* The guarantees of a search hold under the endpoint, whose client may drop several
\* searches in one step: what a search hands to the handler is complete, and the
\* handler costs no row a second login for a page.
THEOREM EndpointSearches == SpecEndpoint => [](OkIsComplete /\ OneLoginPerPage)
  <1>1. AllTidy => OkIsComplete /\ OneLoginPerPage
    BY DEF AllTidy, Tidy, Done, OkIsComplete, OneLoginPerPage
  <1> QED BY <1>1, EndpointAlways, PTL

-----------------------------------------------------------------------------
(***************************************************************************)
(* The inductive invariant: what the handler holds is what the tasks it    *)
(* has joined ended with.                                                  *)
(***************************************************************************)
Handlers == [at : {"idle", "joining", "answered"}, rows : SUBSET Rows, tasks : SUBSET Rows,
             succeeded : Nat, releases : Seq(Items), failures : Seq(Rows)]

Joined == handler.rows \ handler.tasks
JoinedOk == {r \in Joined : At(r) = "ok"}

Gathered ==
    /\ feed \in [Feeds -> {"idle", "sent"} \cup Ended]
    /\ handler \in Handlers /\ handler.tasks \subseteq handler.rows
    /\ handler.at # "joining" => handler.rows = {}
    /\ \A r \in Joined : At(r) \in Ended
    /\ handler.succeeded = 0 <=> JoinedOk = {}
    /\ IsInjective(handler.failures) /\ ToSet(handler.failures) = Joined \ JoinedOk
    /\ Collected(handler.releases, JoinedOk)
    /\ Ranked(answer.releases)

LEMMA EmptyIs ==
    /\ <<>> \in Seq(Rows) /\ <<>> \in Seq(Items)
    /\ IsInjective(<<>>) /\ ToSet(<<>>) = {} /\ Ranked(<<>>)
  <1>1. <<>> \in Seq(Rows) /\ <<>> \in Seq(Items) /\ DOMAIN <<>> = {}
    OBVIOUS
  <1> QED BY <1>1 DEF IsInjective, ToSet, Ranked

Blank(at, S) == [at |-> at, rows |-> S, tasks |-> S,
                 succeeded |-> 0, releases |-> <<>>, failures |-> <<>>]

LEMMA BlankIs ==
    /\ AtRest = Blank("idle", {})
    /\ \A h : h = [AtRest EXCEPT !.at = "answered"] => h = Blank("answered", {})
    /\ \A h, S : h = [AtRest EXCEPT !.at = "joining", !.rows = S, !.tasks = S] =>
                  h = Blank("joining", S)
  <1>1. AtRest = Blank("idle", {})
    BY DEF AtRest, Blank
  <1>2. ASSUME NEW h, h = [AtRest EXCEPT !.at = "answered"]
        PROVE  h = Blank("answered", {})
    BY <1>2 DEF AtRest, Blank
  <1>3. ASSUME NEW h, NEW S, h = [AtRest EXCEPT !.at = "joining", !.rows = S, !.tasks = S]
        PROVE  h = Blank("joining", S)
    BY <1>3 DEF AtRest, Blank
  <1> QED BY <1>1, <1>2, <1>3

\* A handler that has joined nothing holds nothing.
LEMMA FreshHandler ==
    ASSUME feed' \in [Feeds -> {"idle", "sent"} \cup Ended], Ranked(answer'.releases),
           NEW at \in {"idle", "joining", "answered"}, NEW S \in SUBSET Rows,
           at # "joining" => S = {},
           handler' = Blank(at, S)
    PROVE  Gathered'
  <1>1. handler' = [at |-> at, rows |-> S, tasks |-> S,
                    succeeded |-> 0, releases |-> <<>>, failures |-> <<>>]
    BY DEF Blank
  <1>9. /\ handler'.at = at /\ handler'.rows = S /\ handler'.tasks = S /\ handler'.succeeded = 0
        /\ handler'.releases = <<>> /\ handler'.failures = <<>>
    BY ONLY <1>1
  <1>2. handler' \in Handlers
    <2>1. PICK x, y : x = Seq(Items) /\ y = Seq(Rows) /\ <<>> \in x /\ <<>> \in y
      BY EmptyIs
    <2>2. [at |-> at, rows |-> S, tasks |-> S, succeeded |-> 0, releases |-> <<>>, failures |-> <<>>]
          \in [at : {"idle", "joining", "answered"}, rows : SUBSET Rows, tasks : SUBSET Rows,
             succeeded : Nat, releases : x, failures : y]
      BY ONLY <2>1, S \in SUBSET Rows, at \in {"idle", "joining", "answered"}
    <2> QED BY <1>1, <2>1, <2>2 DEF Handlers
  <1>3. Joined' = {} /\ handler'.tasks \subseteq handler'.rows
    BY <1>1 DEF Joined
  <1>4. JoinedOk' = {}
    BY <1>3 DEF JoinedOk
  <1>5. /\ handler'.at # "joining" => handler'.rows = {}
        /\ handler'.succeeded = 0 /\ handler'.releases = <<>> /\ handler'.failures = <<>>
    BY <1>9
  <1>6. IsInjective(handler'.failures) /\ ToSet(handler'.failures) = Joined' \ JoinedOk'
    BY <1>3, <1>4, <1>5, EmptyIs
  <1>7. Collected(handler'.releases, JoinedOk')
    BY <1>4, <1>5, NothingCollected
  <1>8. \A r \in Joined' : At(r)' \in Ended
    BY <1>3
  <1> QED BY <1>2, <1>3, <1>4, <1>5, <1>6, <1>7, <1>8 DEF Gathered

\* The tasks it has joined have ended, and stay what they are.
LEMMA GatheredStays ==
    ASSUME Gathered, UNCHANGED <<handler, answer>>,
           feed' \in [Feeds -> {"idle", "sent"} \cup Ended],
           \A r \in Joined : IF r \in Feeds THEN feed'[r] = feed[r] ELSE run'[r].at = run[r].at
    PROVE  Gathered'
  <1>1. Joined' = Joined
    BY DEF Joined
  <1>2. ASSUME NEW r \in Joined PROVE At(r)' = At(r)
    BY DEF At
  <1>3. JoinedOk' = JoinedOk
    BY <1>1, <1>2 DEF JoinedOk
  <1>4. \A r \in Joined : At(r)' \in Ended
    BY <1>2 DEF Gathered
  <1> QED BY <1>1, <1>3, <1>4 DEF Gathered

LEMMA RowsAre ==
    ASSUME NEW s \in Searches
    PROVE  s \in Rows /\ s \notin Feeds /\ At(s) = run[s].at
  BY SearchEndpointAssumption DEF Rows, At

\* Only a search that is under way takes a step.
LEMMA BusySteps ==
    ASSUME TypeOK, NEW s \in Searches, Exchange(s) \/ Fail(s) \/ Drop(s)
    PROVE  Busy(s) /\ Else(s)
  <1>1. Receive(s) => Busy(s) /\ Else(s)
    BY ReceiveMoves
       DEF ReceivedOne, Paged, Submits, Lands, Posts, Verifies, GivesUp, Busy, Requests
  <1>2. ServePage(s) => Busy(s) /\ Else(s)
    BY PageServed DEF ServedOne
  <1>3. ServeLogin(s) => Busy(s) /\ Else(s)
    BY LoginServed DEF ServedOne
  <1>4. Fail(s) => Busy(s) /\ Else(s)
    BY EndMoves DEF Fail
  <1>5. Drop(s) => Busy(s) /\ Else(s)
    BY Types DEF Drop, Else
  <1> QED BY <1>1, <1>2, <1>3, <1>4, <1>5 DEF Exchange

LEMMA SearchGathers ==
    ASSUME TypeOK, Gathered, NEW s \in Searches, Torznab(s) \/ Background(s)
    PROVE  Gathered'
  <1>1. UNCHANGED <<feed, handler, answer>>
    BY DEF Torznab, Background
  <1>2. Else(s) /\ s \notin Joined
    <2>1. CASE Torznab(s)
      <3>1. Begin({s}) /\ (handler.at = "joining" => s \notin handler.rows)
        BY <2>1 DEF Torznab
      <3>2. Else(s)
        BY <3>1 DEF Begin, Else
      <3> QED BY <3>1, <3>2 DEF Gathered, Joined
    <2>2. CASE Background(s)
      <3>1. Busy(s) /\ Else(s)
        BY <2>2, BusySteps DEF Background
      <3>2. At(s) \notin Ended
        BY <3>1, RowsAre DEF Busy, Requests, Ended
      <3> QED BY <3>1, <3>2 DEF Gathered
    <2> QED BY <2>1, <2>2
  <1>3. \A r \in Joined : r \in Feeds \/ (r \in Searches /\ r # s)
    BY <1>2 DEF Gathered, Handlers, Joined, Rows
  <1>4. \A r \in Joined : IF r \in Feeds THEN feed'[r] = feed[r] ELSE run'[r].at = run[r].at
    BY <1>1, <1>2, <1>3 DEF Else
  <1>5. feed' \in [Feeds -> {"idle", "sent"} \cup Ended]
    BY <1>1 DEF Gathered
  <1> QED BY <1>1, <1>4, <1>5, GatheredStays

LEMMA FeedGathers ==
    ASSUME Gathered, NEW q \in Feeds, FeedArrives(q)
    PROVE  Gathered'
  <1>1. feed[q] = "sent" /\ UNCHANGED <<run, handler, answer>>
    BY DEF FeedArrives, vars
  <1>2. q \notin Joined
    BY <1>1 DEF Gathered, At, Ended
  <1>3. PICK end \in Ended : feed' = [feed EXCEPT ![q] = end]
    BY DEF FeedArrives
  <1>4. feed' \in [Feeds -> {"idle", "sent"} \cup Ended] /\ \A r \in Feeds : r # q => feed'[r] = feed[r]
    BY <1>3 DEF Gathered
  <1> QED BY <1>1, <1>2, <1>4, GatheredStays

\* A task is joined: its releases, or its failure, are added to what there is.
LEMMA JoinGathers ==
    ASSUME TypeOK, AllTidy, Gathered, NEW r \in Rows, Join(r)
    PROVE  Gathered'
  <1>1. /\ r \in handler.tasks /\ At(r) \in Ended /\ UNCHANGED <<run, feed, answer>>
        /\ handler' = IF At(r) = "ok" THEN Found(r)
                      ELSE [handler EXCEPT !.tasks = @ \ {r}, !.failures = Append(@, r)]
    BY DEF Join, vars
  <1>2. /\ handler \in Handlers /\ handler.tasks \subseteq handler.rows
        /\ handler.rows \in SUBSET Rows /\ handler.succeeded \in Nat
        /\ handler.failures \in Seq(Rows) /\ handler.releases \in Seq(Items)
    BY DEF Gathered, Handlers
  <1>3. r \notin Joined /\ Joined \in SUBSET Rows /\ JoinedOk \in SUBSET Joined
    BY <1>1, <1>2 DEF Joined, JoinedOk
  <1>4. \A q : At(q)' = At(q)
    BY <1>1 DEF At
  <1>5. /\ handler'.tasks = handler.tasks \ {r}
        /\ handler'.rows = handler.rows /\ handler'.at = handler.at
    BY <1>1, <1>2 DEF Handlers, Found
  <1>6. Joined' = Joined \cup {r} /\ handler'.tasks \subseteq handler'.rows
    BY <1>1, <1>2, <1>5 DEF Joined
  <1>7. JoinedOk' = IF At(r) = "ok" THEN JoinedOk \cup {r} ELSE JoinedOk
    BY <1>4, <1>6 DEF JoinedOk
  <1>8. \A q \in Joined' : At(q)' \in Ended
    BY <1>1, <1>4, <1>6 DEF Gathered
  <1>9. /\ feed' \in [Feeds -> {"idle", "sent"} \cup Ended] /\ Ranked(answer'.releases)
        /\ handler'.at # "joining" => handler'.rows = {}
    BY <1>1, <1>5 DEF Gathered
  <1>10. CASE At(r) = "ok"
    <2> DEFINE G == Extracted(r)
    <2>1. Lists(G, r, DOMAIN Listing[r])
      BY <1>10, ExtractedLists
    <2>2. handler' = [handler EXCEPT !.tasks = @ \ {r}, !.succeeded = @ + 1, !.releases = @ \o G]
      BY <1>1, <1>10 DEF Found
    <2> HIDE DEF G
    <2>3. /\ handler'.succeeded = handler.succeeded + 1 /\ handler'.failures = handler.failures
          /\ handler'.releases = handler.releases \o G
      BY <1>2, <2>2 DEF Handlers
    <2>4. Collected(handler.releases \o G, JoinedOk \cup {r})
      <3>1. Collected(handler.releases, JoinedOk) /\ JoinedOk \in SUBSET Rows /\ r \in Rows \ JoinedOk
        BY <1>3 DEF Gathered
      <3> QED BY <2>1, <3>1, CollectedNext
    <2>5. handler.releases \o G \in Seq(Items)
      BY <2>4 DEF Collected
    <2>6. handler' \in Handlers
      <3>1. PICK L : L = handler.releases \o G
        OBVIOUS
      <3>2. handler' = [handler EXCEPT !.tasks = handler.tasks \ {r},
                          !.succeeded = handler.succeeded + 1, !.releases = L]
        BY <1>2, <2>2, <3>1
      <3>3. L \in Seq(Items)
        BY <2>5, <3>1
      <3>4. /\ handler.tasks \ {r} \in SUBSET Rows /\ handler.succeeded + 1 \in Nat
        BY <1>2
      <3> QED BY <1>2, <3>2, <3>3, <3>4 DEF Handlers
    <2>7. JoinedOk' = JoinedOk \cup {r} /\ Joined' \ JoinedOk' = Joined \ JoinedOk
      BY <1>3, <1>6, <1>7, <1>10
    <2>8. handler'.succeeded = 0 <=> JoinedOk' = {}
      BY <1>2, <2>3, <2>7
    <2>9. IsInjective(handler'.failures) /\ ToSet(handler'.failures) = Joined' \ JoinedOk'
      BY <2>3, <2>7 DEF Gathered
    <2>10. Collected(handler'.releases, JoinedOk')
      BY <2>3, <2>4, <2>7
    <2> QED BY <1>6, <1>8, <1>9, <2>6, <2>8, <2>9, <2>10 DEF Gathered
  <1>11. CASE At(r) # "ok"
    <2> DEFINE f == handler.failures
               n == Len(f)
    <2>1. handler' = [handler EXCEPT !.tasks = @ \ {r}, !.failures = Append(@, r)]
      BY <1>1, <1>11
    <2>2. /\ handler'.succeeded = handler.succeeded /\ handler'.releases = handler.releases
          /\ handler'.failures = Append(f, r)
      BY <1>2, <2>1 DEF Handlers
    <2>3. f \in Seq(Rows) /\ IsInjective(f) /\ ToSet(f) = Joined \ JoinedOk
      BY <1>2 DEF Gathered
    <2> HIDE DEF f
    <2>4. /\ Append(f, r) \in Seq(Rows) /\ n \in Nat
          /\ DOMAIN f = 1..n /\ DOMAIN Append(f, r) = 1..(n + 1)
          /\ \A i \in 1..n : Append(f, r)[i] = f[i]
          /\ Append(f, r)[n + 1] = r
      BY <2>3, AppendProperties, LenProperties
    <2> HIDE DEF n
    <2>5. \A i \in 1..(n + 1) : i \in 1..n \/ i = n + 1
      BY <2>4
    <2>6. \A i \in 1..n : f[i] # r
      BY <1>3, <2>3, <2>4 DEF ToSet
    <2>7. IsInjective(Append(f, r))
      BY <2>3, <2>4, <2>5, <2>6 DEF IsInjective
    <2>8. ToSet(Append(f, r)) = ToSet(f) \cup {r}
      <3>1. n + 1 \in 1..(n + 1) /\ 1..n \subseteq 1..(n + 1)
        BY <2>4
      <3>2. \A x : x \in ToSet(f) <=> \E i \in 1..n : x = f[i]
        BY <2>4, Zenon DEF ToSet
      <3>3. \A x : x \in ToSet(Append(f, r)) <=> \E i \in 1..(n + 1) : x = Append(f, r)[i]
        BY <2>4, Zenon DEF ToSet
      <3> QED BY <2>4, <2>5, <3>1, <3>2, <3>3
    <2>9. JoinedOk' = JoinedOk /\ Joined' \ JoinedOk' = (Joined \ JoinedOk) \cup {r}
      BY <1>3, <1>6, <1>7, <1>11
    <2>10. handler' \in Handlers
      <3>1. PICK L : L = Append(f, r)
        OBVIOUS
      <3>2. handler' = [handler EXCEPT !.tasks = handler.tasks \ {r}, !.failures = L]
        BY <1>2, <2>1, <3>1 DEF f
      <3>3. L \in Seq(Rows) /\ handler.tasks \ {r} \in SUBSET Rows
        BY <1>2, <2>4, <3>1
      <3> QED BY <1>2, <3>2, <3>3 DEF Handlers
    <2>11. /\ handler'.succeeded = 0 <=> JoinedOk' = {}
           /\ Collected(handler'.releases, JoinedOk')
      BY <2>2, <2>9 DEF Gathered
    <2>12. IsInjective(handler'.failures) /\ ToSet(handler'.failures) = Joined' \ JoinedOk'
      BY <2>2, <2>3, <2>7, <2>8, <2>9
    <2> QED BY <1>6, <1>8, <1>9, <2>10, <2>11, <2>12 DEF Gathered
  <1> QED BY <1>10, <1>11

\* The handler starts, or is left: it holds nothing.
LEMMA AskGathers ==
    ASSUME NEW S \in SUBSET Rows, Ask(S)
    PROVE  Gathered'
  <1>1. feed' = [r \in Feeds |-> IF r \in S THEN "sent" ELSE "idle"]
    BY DEF Ask
  <1>2. feed' \in [Feeds -> {"idle", "sent"} \cup Ended]
    BY <1>1
  <1>3. answer'.releases = <<>>
    BY DEF Ask, NoAnswer
  <1>4. Ranked(answer'.releases)
    BY <1>3, EmptyIs
  <1>5. CASE S = {}
    <2>1. handler' = Blank("answered", S)
      BY <1>5, BlankIs DEF Ask
    <2> QED BY <1>2, <1>4, <1>5, <2>1, FreshHandler
  <1>6. CASE S # {}
    <2>1. handler' = Blank("joining", S)
      BY <1>6, BlankIs DEF Ask
    <2> QED BY <1>2, <1>4, <2>1, FreshHandler
  <1> QED BY <1>5, <1>6

\* What the answer holds when every task has been joined.
LEMMA AnswerIs ==
    ASSUME Gathered, Answer
    PROVE  /\ \A r \in handler.rows : At(r) \in Ended
           /\ IF Succeeded = {}
              THEN /\ answer'.status = 400 /\ answer'.releases = <<>>
                   /\ ToSet(answer'.failures) = handler.rows
                   /\ IsInjective(answer'.failures)
              ELSE /\ answer'.status = 200
                   /\ IsInjective(answer'.releases)
                   /\ ToSet(answer'.releases) = UNION {AllReleases(r) : r \in Succeeded}
                   /\ Ranked(answer'.releases)
  <1>1. handler.tasks = {}
    BY DEF Answer, AllJoined
  <1>2. Joined = handler.rows /\ JoinedOk = Succeeded
    BY <1>1 DEF Joined, JoinedOk, Succeeded
  <1>3. handler.rows \in SUBSET Rows /\ Succeeded \in SUBSET Rows
    BY DEF Gathered, Handlers, Succeeded
  <1>4. handler.succeeded = 0 <=> Succeeded = {}
    BY <1>2 DEF Gathered
  <1>5. CASE Succeeded = {}
    <2>1. answer' = Refusal
      BY <1>4, <1>5 DEF Answer
    <2> QED BY <1>2, <1>5, <2>1 DEF Gathered, Refusal
  <1>6. CASE Succeeded # {}
    <2>1. answer' = Listed
      BY <1>4, <1>6 DEF Answer
    <2>2. Collected(handler.releases, Succeeded)
      BY <1>2 DEF Gathered
    <2>3. answer'.status = 200 /\ answer'.releases = Sorted(handler.releases)
      BY <2>1 DEF Listed
    <2> QED BY <1>2, <1>3, <1>6, <2>2, <2>3, SortedCollection DEF Gathered
  <1> QED BY <1>5, <1>6

LEMMA AnswerGathers ==
    ASSUME Gathered, Answer
    PROVE  Gathered'
  <1>1. feed' \in [Feeds -> {"idle", "sent"} \cup Ended]
    BY DEF Gathered, Answer
  <1>2. Ranked(answer'.releases)
    BY AnswerIs, EmptyIs
  <1>3. handler' = Blank("answered", {})
    BY BlankIs DEF Answer
  <1> QED BY <1>1, <1>2, <1>3, FreshHandler

LEMMA HangUpGathers ==
    ASSUME Gathered, HangUp
    PROVE  Gathered'
  <1>1. feed' \in [Feeds -> {"idle", "sent"} \cup Ended] /\ Ranked(answer'.releases)
    BY DEF Gathered, HangUp
  <1>2. handler' = Blank("idle", {})
    BY BlankIs DEF HangUp
  <1> QED BY <1>1, <1>2, FreshHandler

LEMMA GatheredKeeps ==
    ASSUME TypeOK, AllTidy, Gathered, [NextEndpoint]_endpointVars
    PROVE  Gathered'
  <1>1. ASSUME UNCHANGED <<run, feed, handler, answer>> PROVE Gathered'
    BY <1>1, GatheredStays DEF Gathered
  <1>2. Expire /\ UNCHANGED <<feed, handler, answer>> => UNCHANGED <<run, feed, handler, answer>>
    BY DEF Expire
  <1>3. UNCHANGED endpointVars => UNCHANGED <<run, feed, handler, answer>>
    BY DEF endpointVars, vars
  <1>4. ASSUME NEW S \in SUBSET Rows, Ask(S) PROVE Gathered'
    BY <1>4, AskGathers
  <1>5. ASSUME NEW s \in Searches, Torznab(s) \/ Background(s) PROVE Gathered'
    BY <1>5, SearchGathers
  <1>6. ASSUME NEW r \in Feeds, FeedArrives(r) PROVE Gathered'
    BY <1>6, FeedGathers
  <1>7. ASSUME NEW r \in Rows, Join(r) PROVE Gathered'
    BY <1>7, JoinGathers
  <1>8. CASE Answer \/ HangUp
    BY <1>8, AnswerGathers, HangUpGathers
  <1> QED BY <1>1, <1>2, <1>3, <1>4, <1>5, <1>6, <1>7, <1>8 DEF NextEndpoint

LEMMA GatheredAlways == SpecEndpoint => [](TypeOK /\ AllTidy /\ Gathered)
  <1>1. InitEndpoint => Gathered
    <2> SUFFICES ASSUME InitEndpoint PROVE Gathered
      OBVIOUS
    <2>1. feed = [r \in Feeds |-> "idle"] /\ handler = AtRest /\ answer.releases = <<>>
      BY DEF InitEndpoint, NoAnswer
    <2>2. feed \in [Feeds -> {"idle", "sent"} \cup Ended]
      BY <2>1
    <2>3. Joined = {} /\ JoinedOk = {} /\ handler.tasks \subseteq handler.rows
      BY <2>1 DEF Joined, JoinedOk, AtRest
    <2>4. handler \in Handlers
      BY <2>1, EmptyIs DEF AtRest, Handlers
    <2>5. /\ handler.succeeded = 0 /\ handler.failures = <<>> /\ handler.releases = <<>>
          /\ handler.rows = {}
      BY <2>1 DEF AtRest
    <2> QED BY <2>1, <2>2, <2>3, <2>4, <2>5, EmptyIs, NothingCollected DEF Gathered
  <1>2. TypeOK /\ AllTidy /\ Gathered /\ [NextEndpoint]_endpointVars => Gathered'
    BY GatheredKeeps
  <1> QED BY <1>1, <1>2, EndpointAlways, PTL DEF SpecEndpoint

\* Every answer of GET /api/v1/search lists its releases by seeders, those without a
\* count last and ties of one row in the order of its pages: for any rows, listings
\* and interleaving of the searches.
THEOREM AnswersAreRanked == SpecEndpoint => []AnswerIsRanked
  <1>1. Gathered => AnswerIsRanked
    BY DEF Gathered, Ranked, Before, AnswerIsRanked
  <1> QED BY <1>1, GatheredAlways, PTL

\* The handler answers when every task has ended: with all that the rows which
\* succeeded listed, each release once, or, when none did, with a refusal that names
\* each failed row once.
THEOREM AnswersAreHonest == SpecEndpoint => AnswerIsHonest
  <1> DEFINE Honest == Answers =>
        /\ \A r \in handler.rows : At(r) \in Ended
        /\ IF Succeeded = {}
           THEN /\ answer'.status = 400 /\ answer'.releases = <<>>
                /\ ToSet(answer'.failures) = handler.rows
                /\ IsInjective(answer'.failures)
           ELSE /\ answer'.status = 200
                /\ IsInjective(answer'.releases)
                /\ ToSet(answer'.releases) = UNION {AllReleases(r) : r \in Succeeded}
  <1>1. ASSUME TypeOK, AllTidy, Gathered, [NextEndpoint]_endpointVars, Answers
        PROVE  Answer
    <2>1. handler.at = "joining" /\ handler'.at = "answered" /\ handler # handler'
      BY <1>1 DEF Answers
    <2>2. ASSUME NEW r \in Rows, Join(r) PROVE FALSE
      BY <1>1, <2>1, <2>2 DEF Join, Found, Gathered, Handlers
    <2>3. ~HangUp
      BY <2>1 DEF HangUp, AtRest
    <2> QED BY <1>1, <2>1, <2>2, <2>3
            DEF NextEndpoint, Ask, Torznab, Background, FeedArrives, endpointVars
  <1>2. TypeOK /\ AllTidy /\ Gathered /\ [NextEndpoint]_endpointVars => [Honest]_endpointVars
    BY <1>1, AnswerIs
  <1>3. AnswerIsHonest <=> [][Honest]_endpointVars
    BY DEF AnswerIsHonest
  <1> HIDE DEF Honest
  <1> QED BY <1>2, <1>3, GatheredAlways, PTL DEF SpecEndpoint
-----------------------------------------------------------------------------
(***************************************************************************)
(* Descent: what lies ahead of a handler that joins its tasks.  A task is  *)
(* ahead with every step that is left of it, and once more to be joined.   *)
(***************************************************************************)
RowLeft(r) == IF r \in Feeds THEN (IF feed[r] = "sent" THEN 1 ELSE 0) ELSE StepsLeft(run[r])

Ahead == {a \in handler.tasks \X (0..10 * Pages) : a[2] <= RowLeft(a[1])}

\* The safety half of AskIsAnswered.  While the handler joins, no step adds to what
\* lies ahead of it, whatever the Torznab route and the client of another request do;
\* and each step of one of its tasks, and each join, takes something away.
AsksDescend ==
    [][handler.at = "joining" /\ handler'.at = "joining" =>
         /\ Ahead' \subseteq Ahead
         /\ \A r \in handler.rows :
               Join(r) \/ (r \in Feeds /\ FeedArrives(r)) \/ (r \in Searches /\ Background(r))
                 => Ahead' # Ahead]_endpointVars

\* A task the handler still waits for is under way or has ended: none is lost, for
\* which join_next would wait without end.
NoTaskIsLost ==
    handler.at = "joining" =>
        \A r \in handler.tasks : IF r \in Feeds THEN feed[r] # "idle" ELSE run[r].at # "idle"

LEMMA RowLeftIs ==
    ASSUME TypeOK, NEW r \in Rows
    PROVE  RowLeft(r) \in 0..10 * Pages
  <1>1. Pages \in Nat \ {0}
    BY Types
  <1>2. CASE r \in Feeds
    BY <1>1, <1>2 DEF RowLeft
  <1>3. CASE r \notin Feeds
    <2>1. r \in Searches
      BY <1>3 DEF Rows
    <2> QED BY <1>3, <2>1, Types, StepsLeftIs DEF RowLeft
  <1> QED BY <1>2, <1>3

LEMMA RowLeftWillBe ==
    ASSUME TypeOK', NEW r \in Rows
    PROVE  RowLeft(r)' \in 0..10 * Pages
  <1>1. Pages \in Nat \ {0}
    BY CardigannSessionAssumption
  <1>2. CASE r \in Feeds
    BY <1>1, <1>2 DEF RowLeft
  <1>3. CASE r \notin Feeds
    <2>1. r \in Searches
      BY <1>3 DEF Rows
    <2>2. run'[r] \in Runs
      BY <2>1 DEF TypeOK, Runs, Replies, Extractions
    <2>3. RowLeft(r)' = StepsLeft(run'[r])
      BY <1>3 DEF RowLeft, StepsLeft
    <2> QED BY <2>2, <2>3, StepsLeftIs
  <1> QED BY <1>2, <1>3

LEMMA AheadShrinks ==
    ASSUME TypeOK, TypeOK', handler.tasks \in SUBSET Rows, handler'.tasks \subseteq handler.tasks,
           \A r \in handler'.tasks : RowLeft(r)' <= RowLeft(r)
    PROVE  /\ Ahead' \subseteq Ahead
           /\ (\E r \in handler.tasks : r \notin handler'.tasks \/ RowLeft(r)' < RowLeft(r))
                => Ahead' # Ahead
  <1>1. Pages \in Nat
    BY Types
  <1>2. \A r \in handler.tasks : RowLeft(r) \in 0..10 * Pages
    BY RowLeftIs
  <1>3. \A r \in handler.tasks : RowLeft(r)' \in 0..10 * Pages
    BY RowLeftWillBe
  <1> DEFINE before(r) == RowLeft(r)
             after(r) == RowLeft(r)'
             N == 10 * Pages
  <1>4. N \in Nat
    BY <1>1
  <1>5. /\ Ahead = {a \in handler.tasks \X (0..N) : a[2] <= before(a[1])}
        /\ Ahead' = {a \in handler'.tasks \X (0..N) : a[2] <= after(a[1])}
    BY DEF Ahead
  <1>6. /\ \A r \in handler.tasks : before(r) \in 0..N /\ after(r) \in 0..N
        /\ \A r \in handler'.tasks : after(r) <= before(r)
    BY <1>2, <1>3
  <1> HIDE DEF before, after, N
  <1>7. ASSUME NEW a \in Ahead' PROVE a \in Ahead
    <2>1. a \in handler'.tasks \X (0..N) /\ a[2] <= after(a[1])
      BY <1>5
    <2>2. a[1] \in handler'.tasks /\ a[2] \in 0..N /\ a \in handler.tasks \X (0..N)
      BY <2>1
    <2>3. a[2] <= before(a[1])
      BY <1>4, <1>6, <2>1, <2>2
    <2> QED BY <1>5, <2>2, <2>3
  <1>8. ASSUME NEW r \in handler.tasks, r \notin handler'.tasks \/ after(r) < before(r)
        PROVE  Ahead' # Ahead
    <2> DEFINE a == <<r, before(r)>>
    <2>1. before(r) \in 0..N /\ after(r) \in 0..N
      BY <1>6
    <2>2. a \in Ahead
      BY <1>4, <1>5, <2>1
    <2>3. a \notin Ahead'
      BY <1>4, <1>5, <1>8, <2>1
    <2> QED BY <2>2, <2>3
  <1> QED BY <1>7, <1>8 DEF before, after

LEMMA AskDescends ==
    ASSUME TypeOK, TypeOK', Gathered, [NextEndpoint]_endpointVars,
           handler.at = "joining", handler'.at = "joining"
    PROVE  /\ Ahead' \subseteq Ahead
           /\ \A r \in handler.rows :
                 Join(r) \/ (r \in Feeds /\ FeedArrives(r)) \/ (r \in Searches /\ Background(r))
                   => Ahead' # Ahead
  <1>1. /\ handler.tasks \in SUBSET Rows /\ handler.rows \in SUBSET Rows
        /\ handler.tasks \subseteq handler.rows
        /\ \A r \in handler.rows \ handler.tasks : At(r) \in Ended
    BY DEF Gathered, Handlers, Joined
  <1>0. Pages \in Nat
    BY Types
  <1>2. \A r \in Rows : RowLeft(r) \in Nat
    BY RowLeftIs
  <1>3. ASSUME NEW r \in Rows, Join(r)
        PROVE  Ahead' \subseteq Ahead /\ Ahead' # Ahead
    <2>1. r \in handler.tasks /\ UNCHANGED <<run, feed>>
      BY <1>3 DEF Join, vars
    <2>2. handler'.tasks = handler.tasks \ {r}
      BY <1>3 DEF Join, Found, Gathered, Handlers
    <2>3. \A q \in handler.tasks : RowLeft(q)' = RowLeft(q)
      BY <2>1 DEF RowLeft, StepsLeft
    <2>4. \A q \in handler'.tasks : RowLeft(q)' <= RowLeft(q)
      BY <1>1, <1>2, <2>2, <2>3
    <2> QED BY <1>1, <2>1, <2>2, <2>4, AheadShrinks
  <1>4. ASSUME NEW r \in Feeds, FeedArrives(r)
        PROVE  Ahead' \subseteq Ahead /\ (r \in handler.rows => Ahead' # Ahead)
    <2>1. feed[r] = "sent" /\ UNCHANGED <<run, handler>>
      BY <1>4 DEF FeedArrives, vars
    <2>2. PICK end \in Ended : feed' = [feed EXCEPT ![r] = end]
      BY <1>4 DEF FeedArrives
    <2>3. feed'[r] \in Ended /\ \A q \in Feeds : q # r => feed'[q] = feed[q]
      BY <2>2 DEF Gathered
    <2>4. RowLeft(r) = 1 /\ RowLeft(r)' = 0
      BY <2>1, <2>3 DEF RowLeft, Ended
    <2>5. \A q \in handler.tasks : q # r => RowLeft(q)' = RowLeft(q)
      BY <2>1, <2>3 DEF RowLeft, StepsLeft
    <2>6. \A q \in handler'.tasks : RowLeft(q)' <= RowLeft(q)
      BY <1>1, <1>2, <2>1, <2>4, <2>5
    <2>7. r \in handler.rows => r \in handler.tasks
      BY <1>1, <2>1 DEF At, Ended
    <2>8. r \in handler.rows => \E q \in handler.tasks : RowLeft(q)' < RowLeft(q)
      BY <2>4, <2>7
    <2> QED BY <1>1, <2>1, <2>6, <2>8, AheadShrinks
  <1>5. ASSUME NEW s \in Searches, Background(s)
        PROVE  Ahead' \subseteq Ahead /\ (s \in handler.rows => Ahead' # Ahead)
    <2>1. /\ Busy(s) /\ Else(s) /\ StepsLeft(run'[s]) < StepsLeft(run[s])
          /\ UNCHANGED <<feed, handler>>
      BY <1>5, StepLowers, BusySteps DEF Background
    <2>2. s \in Rows /\ s \notin Feeds /\ At(s) = run[s].at
      BY RowsAre
    <2>3. RowLeft(s)' < RowLeft(s)
      BY <2>1, <2>2 DEF RowLeft, StepsLeft
    <2>4. \A q \in handler.tasks : q # s => RowLeft(q)' = RowLeft(q)
      BY <1>1, <2>1 DEF RowLeft, StepsLeft, Else, Rows
    <2>5. RowLeft(s)' \in Nat
      BY <2>2, RowLeftWillBe, <1>0
    <2>6. \A q \in handler'.tasks : RowLeft(q)' <= RowLeft(q)
      BY <1>1, <1>2, <2>1, <2>2, <2>3, <2>4, <2>5
    <2>7. s \in handler.rows => s \in handler.tasks
      BY <1>1, <2>1, <2>2 DEF Busy, Requests, Ended
    <2>8. s \in handler.rows => \E q \in handler.tasks : RowLeft(q)' < RowLeft(q)
      BY <2>3, <2>7
    <2> QED BY <1>1, <2>1, <2>6, <2>8, AheadShrinks
  <1>6. ASSUME NEW s \in Searches, Torznab(s) PROVE Ahead' \subseteq Ahead
    <2>1. Begin({s}) /\ s \notin handler.rows /\ UNCHANGED <<feed, handler>>
      BY <1>6 DEF Torznab
    <2>2. Else(s)
      BY <2>1 DEF Begin, Else
    <2>3. \A q \in handler.tasks : RowLeft(q)' = RowLeft(q)
      BY <1>1, <2>1, <2>2 DEF RowLeft, StepsLeft, Else, Rows
    <2>4. \A q \in handler'.tasks : RowLeft(q)' <= RowLeft(q)
      BY <1>1, <1>2, <2>1, <2>3
    <2> QED BY <1>1, <2>1, <2>4, AheadShrinks
  <1>7. ASSUME UNCHANGED <<run, feed, handler>> PROVE Ahead' \subseteq Ahead
    BY <1>7 DEF Ahead, RowLeft, StepsLeft
  <1>8. UNCHANGED endpointVars \/ (Expire /\ UNCHANGED <<feed, handler, answer>>) => Ahead' \subseteq Ahead
    BY <1>7 DEF endpointVars, vars, Expire
  <1>9. ~Answer /\ ~HangUp /\ \A S \in SUBSET Rows : ~Ask(S)
    BY DEF Answer, HangUp, Ask, AtRest
  <1>10. Ahead' \subseteq Ahead
    BY <1>3, <1>4, <1>5, <1>6, <1>8, <1>9 DEF NextEndpoint
  <1>11. ASSUME NEW r \in handler.rows,
                Join(r) \/ (r \in Feeds /\ FeedArrives(r)) \/ (r \in Searches /\ Background(r))
         PROVE  Ahead' # Ahead
    BY <1>1, <1>3, <1>4, <1>5, <1>11
  <1> QED BY <1>10, <1>11

LEMMA TasksStay ==
    ASSUME TypeOK, Gathered, NoTaskIsLost, [NextEndpoint]_endpointVars
    PROVE  NoTaskIsLost'
  <1> DEFINE here(r) == IF r \in Feeds THEN feed[r] # "idle" ELSE run[r].at # "idle"
             there(r) == IF r \in Feeds THEN feed'[r] # "idle" ELSE run'[r].at # "idle"
  <1> SUFFICES ASSUME handler'.at = "joining", NEW r \in handler'.tasks PROVE there(r)
    BY DEF NoTaskIsLost
  <1>1. \A q \in handler.tasks : q \in Rows
    BY DEF Gathered, Handlers
  <1>2. ASSUME NEW S \in SUBSET Rows, Ask(S) PROVE there(r)
    <2>1. S # {}
      BY <1>2 DEF Ask, AtRest
    <2>2. handler' = Blank("joining", S)
      BY <1>2, <2>1, BlankIs DEF Ask
    <2>3. r \in S
      BY <2>2 DEF Blank
    <2>4. CASE r \in Feeds
      BY <1>2, <2>3, <2>4 DEF Ask
    <2>5. CASE r \notin Feeds
      <3>1. r \in Searches /\ Begin(S \cap Searches)
        BY <1>2, <2>3, <2>5 DEF Ask, Rows
      <3> QED BY <2>3, <2>5, <3>1 DEF Begin, Resting
    <2> QED BY <2>4, <2>5
  <1>3. ASSUME UNCHANGED handler PROVE r \in handler.tasks /\ here(r) /\ r \in Rows
    BY <1>1, <1>3 DEF NoTaskIsLost
  <1>4. ASSUME NEW s \in Searches, Torznab(s) PROVE there(r)
    <2>1. Begin({s}) /\ UNCHANGED <<feed, handler>>
      BY <1>4 DEF Torznab
    <2>2. /\ \A q \in Searches : q # s => run'[q] = run[q]
          /\ run'[s].at = "page"
      BY <2>1 DEF Begin, Resting
    <2> QED BY <1>3, <2>1, <2>2 DEF Rows
  <1>5. ASSUME NEW s \in Searches, Background(s) PROVE there(r)
    <2>1. Busy(s) /\ Else(s) /\ UNCHANGED <<feed, handler>>
      BY <1>5, BusySteps DEF Background
    <2>2. CASE r # s
      BY <1>3, <2>1, <2>2 DEF Rows, Else
    <2>3. CASE r = s
      <3>1. s \in handler.rows
        BY <1>3, <2>1, <2>3 DEF Gathered
      <3>2. Receive(s) \/ ServePage(s) \/ ServeLogin(s) \/ Fail(s)
        BY <1>5, <3>1 DEF Background, Exchange
      <3>3. Receive(s) => run'[s].at # "idle"
        BY ReceiveMoves DEF Paged, Submits, Lands, Posts, Verifies, GivesUp, Moved
      <3>4. ServePage(s) \/ ServeLogin(s) => run'[s].at # "idle"
        BY <2>1, PageServed, LoginServed DEF ServedOne, Busy, Requests
      <3>5. Fail(s) => run'[s].at # "idle"
        BY EndIs DEF Fail
      <3> QED BY <2>3, <3>2, <3>3, <3>4, <3>5, RowsAre
    <2> QED BY <2>2, <2>3
  <1>6. ASSUME NEW q \in Feeds, FeedArrives(q) PROVE there(r)
    <2>1. UNCHANGED <<run, handler>> /\ \E end \in Ended : feed' = [feed EXCEPT ![q] = end]
      BY <1>6 DEF FeedArrives, vars
    <2>2. feed'[q] # "idle" /\ \A p \in Feeds : p # q => feed'[p] = feed[p]
      BY <2>1 DEF Gathered, Ended
    <2> QED BY <1>3, <2>1, <2>2
  <1>7. ASSUME NEW q \in Rows, Join(q) PROVE there(r)
    <2>1. UNCHANGED <<run, feed>> /\ handler'.tasks = handler.tasks \ {q} /\ handler'.at = handler.at
      BY <1>7 DEF Join, Found, Gathered, Handlers, vars
    <2> QED BY <2>1 DEF NoTaskIsLost
  <1>8. ~Answer /\ ~HangUp
    BY DEF Answer, HangUp, AtRest
  <1>9. ASSUME UNCHANGED <<run, feed, handler>> PROVE there(r)
    BY <1>3, <1>9
  <1>10. UNCHANGED endpointVars \/ (Expire /\ UNCHANGED <<feed, handler, answer>>) => there(r)
    BY <1>9 DEF endpointVars, vars, Expire
  <1> QED BY <1>2, <1>4, <1>5, <1>6, <1>7, <1>8, <1>10 DEF NextEndpoint

\* What is ahead of a handler is finite, so that it can be taken away only so often.
LEMMA AheadIsFinite ==
    ASSUME TypeOK, Gathered
    PROVE  IsFiniteSet(Ahead)
  <1>1. IsFiniteSet(Rows)
    BY CardigannSessionAssumption, SearchEndpointAssumption, FS_Union DEF Rows
  <1>2. IsFiniteSet(handler.tasks)
    BY <1>1, FS_Subset DEF Gathered, Handlers
  <1>3. 0 \in Int /\ 10 * Pages \in Int
    BY Types
  <1>4. IsFiniteSet(0..10 * Pages)
    BY <1>3, FS_Interval
  <1>5. IsFiniteSet(handler.tasks \X (0..10 * Pages))
    BY <1>2, <1>4, FS_Product
  <1>6. Ahead \in SUBSET (handler.tasks \X (0..10 * Pages))
    BY DEF Ahead
  <1> QED BY <1>5, <1>6, FS_Subset

\* A request to GET /api/v1/search is answered after finitely many steps of its
\* tasks: they form a finite set, each step and each join takes from it, none adds
\* to it, and no task the handler waits for is lost; however the searches of the
\* Torznab route share the jar with it.
THEOREM AsksGoDown ==
    SpecEndpoint => AsksDescend /\ []NoTaskIsLost /\ []IsFiniteSet(Ahead)
  <1>1. TypeOK /\ TypeOK' /\ Gathered /\ [NextEndpoint]_endpointVars =>
          [handler.at = "joining" /\ handler'.at = "joining" =>
             /\ Ahead' \subseteq Ahead
             /\ \A r \in handler.rows :
                   Join(r) \/ (r \in Feeds /\ FeedArrives(r)) \/ (r \in Searches /\ Background(r))
                     => Ahead' # Ahead]_endpointVars
    BY AskDescends
  <1>2. InitEndpoint => NoTaskIsLost
    BY DEF InitEndpoint, NoTaskIsLost, AtRest
  <1>3. TypeOK /\ Gathered /\ NoTaskIsLost /\ [NextEndpoint]_endpointVars => NoTaskIsLost'
    BY TasksStay
  <1>4. TypeOK /\ Gathered => IsFiniteSet(Ahead)
    BY AheadIsFinite
  <1> QED BY <1>1, <1>2, <1>3, <1>4, GatheredAlways, PTL DEF SpecEndpoint, AsksDescend
=============================================================================
