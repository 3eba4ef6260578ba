---------------------------- MODULE MCMbnService ----------------------------
(***************************************************************************)
(* Small instances of MbnService: two SIMs, two or three profiles.         *)
(***************************************************************************)
EXTENDS MbnService

Plain == [kind |-> "apply", target |-> None, adds |-> None, replacement |-> None,
          candidates |-> <<>>, restore |-> 0]

Fixed(p) == [auto |-> FALSE, profile |-> p]

MCRequests ==
    ("apply" :> [Plain EXCEPT !.target = Fixed("C"), !.adds = "C"])
    @@ ("delete" :> [Plain EXCEPT !.kind = "delete", !.target = Fixed("A"), !.replacement = "B"])
    @@ ("trial" :> [Plain EXCEPT !.kind = "trial", !.candidates = <<"B", "A">>])
    @@ ("restore" :> [Plain EXCEPT !.kind = "restore", !.restore = 1])
    @@ ("import" :> [Plain EXCEPT !.kind = "import", !.adds = "C"])

\* What leaves the modem uncertain comes first, what recovers it second.
MCOffered == <<{"apply", "import", "trial", "delete"}, {"restore"}>>

MCPolicies == {[target |-> [auto |-> TRUE, profile |-> None], import |-> FALSE]}
=============================================================================
