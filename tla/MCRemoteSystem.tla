---------------------------- MODULE MCRemoteSystem ----------------------------
(***************************************************************************)
(* Small instances of RemoteSystem.                                        *)
(***************************************************************************)
EXTENDS RemoteSystem, TLC

S(h, t) == [host |-> h, token |-> t]

OneSetting == {S("home", "secret")}

\* "home" wants a token, "open" does not.  The user points the app at either,
\* mistypes the token, and leaves it in place where none is wanted.
ManySettings == {S("home", "secret"), S("home", "wrong"), S("open", "secret")}
HomeToken == [h \in Host |-> IF h = "home" THEN "secret" ELSE None]

Perms == Permutations(Conn)
==============================================================================
