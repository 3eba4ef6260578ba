-------------------------- MODULE MCWebdavArchive --------------------------
(***************************************************************************)
(* Small instances of WebdavArchive: one SMS and two calls that may share  *)
(* a recording.                                                            *)
(***************************************************************************)
EXTENDS WebdavArchive

Everything == [sms |-> TRUE, calls |-> TRUE, recordings |-> TRUE, auto |-> TRUE]

MCRecordingName == [r \in CallIDs |-> CHOOSE n \in Recordings : TRUE]

\* The second call is there, or arrives while its recording may be on its way out.
SafetyRows == {{1, 2}, {2, 3}}

SafetyConfigs == {Everything, [Everything EXCEPT !.calls = FALSE, !.auto = FALSE]}
=============================================================================
