------------------------------ MODULE MCVault ------------------------------
(* Vault on a small instance.                                              *)
EXTENDS Vault, TLC

CONSTANTS human, machine, other, makeH, makeM, edit, show, exec, share, ls, drop

MCSecretOf ==
  [n \in Nonce |-> IF n \in {makeM, exec} THEN machine ELSE human]
MCSubjectOf == [n \in Nonce |-> IF n = show THEN other ELSE Owner]
MCActionOf ==
  makeH :> "create" @@ makeM :> "create" @@ edit :> "update" @@ show :> "reveal"
    @@ exec :> "use" @@ share :> "grant" @@ ls :> "list" @@ drop :> "delete"

Symmetry == Permutations(Operator) \cup Permutations(Pass)

=============================================================================
