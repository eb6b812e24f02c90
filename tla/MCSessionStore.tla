---------------------------- MODULE MCSessionStore ----------------------------
(* Small instances of SessionStore for TLC. *)
EXTENDS SessionStore

\* A message, and a thought that an older version stored.
ThoughtInFile == <<11, 12>>
Thoughts == {12}
AliasOfTwo == <<21, 22>>
NoAlias == <<>>
===============================================================================
