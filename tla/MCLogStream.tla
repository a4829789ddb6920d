---------------------------- MODULE MCLogStream ----------------------------
(***************************************************************************)
(* A claim about LogStream that the code does not keep.                    *)
(***************************************************************************)
EXTENDS LogStream

\* The follower gets to the newest log: once the server has been started
\* again the lines of its new log are streamed (the test "current != path" on
\* every round, web/main.go:110; server_log of the console, minecera:26).
FollowsNewest == \A f \in 1..MaxFiles : files >= f ~> path >= f
=============================================================================
