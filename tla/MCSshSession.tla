---------------------------- MODULE MCSshSession ----------------------------
(* Small instances of the server for TLC.                                  *)
EXTENDS SshSession, TLC

CONSTANTS plain,    \* a name that reads as no number
          seven,    \* "7"
          padded    \* "007"

\* The column keeps "007" as 7: the key of nobody, or of the user "7".
KeyOfNobody == (plain :> plain) @@ (padded :> NoUser)
KeyOfOther  == (seven :> seven) @@ (padded :> seven)
=============================================================================
