------------------------- MODULE MCVowifiLifecycle -------------------------
(***************************************************************************)
(* Instances of VowifiLifecycle.  The mix of calls is the bound: each call *)
(* is made once, and every counter is bounded by the calls that advance it.*)
(***************************************************************************)
EXTENDS VowifiLifecycle, TLC

CONSTANTS a, b, c, d

calls(ka, kb, kc, kd) == (a :> ka @@ b :> kb @@ c :> kc @@ d :> kd)

SafetyMixes ==
  { calls("enable", "recover", "disable", "none"),       \* two starts and a stop take turns
    calls("enable", "recover", "reconnect", "none"),     \* a teardown that takes no runMu
    calls("restart", "restart", "none", "none"),         \* restarts preempt each other
    calls("restart", "reconnect", "none", "none"),
    calls("enable", "switchBegin", "switchEnd", "desired") }  \* an eSIM switch

\* a restart is overtaken by an enable, and then disabled
RestartMixes == { calls("restart", "enable", "disable", "none") }
=============================================================================
