------------------------- MODULE MCRequestScheduler -------------------------
(* Instances of RequestScheduler for TLC: which request comes from which   *)
(* submit call, which is an image, and which function may hang.            *)
EXTENDS RequestScheduler

CONSTANTS a, b, c, w1, w2

ThreeJobs  == {a, b, c}
TwoJobs    == {a, b}
TwoWorkers == {w1, w2}

Req(api, kind, fn)  == [api |-> api, kind |-> kind, fn |-> fn]
Two(ra, rb)         == [j \in TwoJobs |-> IF j = a THEN ra ELSE rb]
Three(ra, rb, rc)   == [j \in ThreeJobs |-> CASE j = a -> ra [] j = b -> rb [] j = c -> rc]

(* With and without a deadline; and three images, two of them "latest".    *)
Mixed  == Three(Req("deadline", "Image", "returns"), Req("plain", "Generic", "returns"),
                Req("noDeadline", "Generic", "returns"))
Images == Three(Req("noDeadline", "Image", "returns"), Req("latest", "Image", "returns"),
                Req("latestDetached", "Image", "returns"))
SafetyWorkloads == {Mixed, Images}

(* An image that hangs until it is cancelled in front of another; and an   *)
(* function that hangs for ever.                                           *)
Moves == Two(Req("deadline", "Image", "cooperative"), Req("plain", "Image", "returns"))
Hang  == Two(Req("deadline", "Generic", "stubborn"), Req("plain", "Generic", "returns"))
LiveWorkloads == {Moves, Hang}
=============================================================================
