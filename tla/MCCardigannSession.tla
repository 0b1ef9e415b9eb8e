------------------------ MODULE MCCardigannSession ------------------------
(* Instances of CardigannSession for TLC. *)
EXTENDS CardigannSession

CONSTANTS s1, s2

Definition(login, rules, test, literal, cookie, valid) ==
    [login |-> login, rules |-> rules, test |-> test, literal |-> literal,
     cookie |-> cookie, valid |-> valid]

Tracker(visitors, single, hides, token) ==
    [visitors |-> visitors, single |-> single, hides |-> hides, token |-> token]

Plain == Tracker(FALSE, FALSE, FALSE, FALSE)
Strict == Tracker(TRUE, TRUE, TRUE, TRUE)

Submit == Definition("submit", TRUE, TRUE, FALSE, FALSE, TRUE)
Form == Definition("form", TRUE, FALSE, FALSE, FALSE, TRUE)
Literal == [Form EXCEPT !.literal = TRUE]
Cookie == Definition("cookie", TRUE, TRUE, FALSE, TRUE, TRUE)

(* Every login method on a tracker with nothing special and on a strict one,  *)
(* credentials that are refused, told by login.error or by nothing at all,    *)
(* and every way there is no login to make.                                   *)
Explored ==
    ({Submit, Form} \X {Plain, Strict})
    \cup {<<Literal, Strict>>,
          <<[Submit EXCEPT !.valid = FALSE], Plain>>,
          <<[Form EXCEPT !.valid = FALSE, !.rules = FALSE], Plain>>,
          <<Cookie, Plain>>, <<[Cookie EXCEPT !.test = FALSE], Plain>>,
          <<[Cookie EXCEPT !.cookie = FALSE], Plain>>}
    \cup {<<[Submit EXCEPT !.login = l], Plain>> : l \in {"none", "captcha"}}
=============================================================================
