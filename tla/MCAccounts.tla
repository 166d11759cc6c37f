------------------------------ MODULE MCAccounts ------------------------------
(* Small instances: two users, two legacy keys and a generated one, and     *)
(* files with a plaintext password, with none, and with a key listed twice. *)
EXTENDS Accounts, TLC

CONSTANTS admin, bob, p, q, old1, old2, fresh

TwoMigrations == <<"usage", "accounts">>
File(password, phc, gateway_keys) ==
  [admin_password |-> password, phc |-> phc, gateway_keys |-> gateway_keys]
SomeFiles == {File(p, FALSE, <<old1, old2>>), File(NoPassword, TRUE, <<old1>>),
              File(p, TRUE, <<old1, old1>>)}

Symmetry == Permutations(Tasks)
=============================================================================
