--------------------------- MODULE MCIdentityStore ---------------------------
(* Instances of IdentityStore for TLC: which routes the requests call.     *)
EXTENDS IdentityStore, Sequences

CONSTANTS r1, r2, r3, r4, a1, a2

TwoAttempts  == {a1, a2}
FourRequests == {r1, r2, r3, r4}
Floor        == 100

Of(kinds, attempts) ==
  LET n == [r \in FourRequests |-> CASE r = r1 -> 1 [] r = r2 -> 2 [] r = r3 -> 3 [] r = r4 -> 4]
  IN  [r \in FourRequests |-> [kind |-> kinds[n[r]], attempt |-> attempts[n[r]]]]

(* One QR attempt after another with two checks, or with a check and a     *)
(* cancel of the first.                                                    *)
TwoChecks == Of(<<"key", "key", "check", "check">>, <<a1, a2, a1, a1>>)
WithCancel == Of(<<"key", "key", "check", "cancel">>, <<a1, a2, a1, a1>>)
(* A login against a logout and a profile patch; two refreshes of one      *)
(* account against a logout and a registration; credentials that arrive    *)
(* while the settings replace the device.                                  *)
WithLogout  == Of(<<"key", "check", "logout", "detail">>, <<a1, a1, a1, a1>>)
TwoRefreshes == Of(<<"detail", "detail", "logout", "playlist">>, <<a1, a1, a1, a1>>)
NewDevice   == Of(<<"settings", "detail", "key", "check">>, <<a1, a1, a1, a1>>)

AllWorkloads   == {TwoChecks, WithCancel, WithLogout, TwoRefreshes, NewDevice}
=============================================================================
