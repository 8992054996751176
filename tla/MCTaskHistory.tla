--------------------------- MODULE MCTaskHistory ---------------------------
(* Instances of TaskHistory for TLC.                                       *)
EXTENDS TaskHistory

\* One reply of every kind that gives its own verdict.
SomeReplies == {<<"throws", "E_ABORTED">>, <<"answers", "done">>, <<"answers", "running">>}
=============================================================================
