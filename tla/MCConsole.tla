------------------------------- MODULE MCConsole -----------------------------
(* A small instance of Console for TLC.                                    *)
EXTENDS Console, TLC

\* An ordinary device id, and one with a slash in it.
MCLevels == ("d" :> <<"d">>) @@ ("a/b" :> <<"a", "b">>)
=============================================================================
