--------------------------- MODULE MCAdminSessions ---------------------------
(* Small instances: one user, and a username that nobody has.              *)
EXTENDS AdminSessions, TLC

CONSTANTS u1, ghost

Symmetry == Permutations(Logins) \cup Permutations(Handlers) \cup Permutations(Tokens)
=============================================================================
