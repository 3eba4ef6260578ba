--------------------------- MODULE MCPhoneService ---------------------------
(***************************************************************************)
(* Small instances of PhoneService.                                        *)
(***************************************************************************)
EXTENDS PhoneService, TLC

CONSTANTS c1, c2, m1, m2, t1, t2

Scene(calls, media, busy, answers, n, f) ==
    [calls |-> calls, media |-> media, talking |-> busy, auto |-> answers, ops |-> n, faults |-> f]

\* One call: two requests for it while it comes up, a request beside the auto answer and a
\* failure, two takeovers of it and a failure.  Two calls: beside the auto answer; the
\* second one during and after the first, with a request and the auto answer, or with a
\* failure, say that the gateway stops and ends them both.
MCScenes == {Scene(1, 2, FALSE, FALSE, 2, 0), Scene(1, 1, FALSE, TRUE, 1, 1),
             Scene(1, 2, TRUE, FALSE, 2, 1), Scene(2, 0, FALSE, TRUE, 0, 0),
             Scene(2, 1, TRUE, TRUE, 1, 0), Scene(2, 1, TRUE, FALSE, 0, 1)}

Symmetry == Permutations({c1, c2}) \cup Permutations({m1, m2}) \cup Permutations({t1, t2})
=============================================================================
