----------------------------- MODULE MCAccounts -----------------------------
(****************************************************************************)
(* An administrator who has logged in, and a user who was inserted by hand  *)
(* with a password in clear, uses OIDC and has a client.  A third user can  *)
(* be created.                                                              *)
(****************************************************************************)
EXTENDS Accounts, TLC

CONSTANTS ann, bob, new, na, nb, nc, ea, eb, ec, c1, r1, r2

MCUsers ==
    (ann :> [name |-> na, email |-> ea, display |-> 1, level |-> "ADMIN",
             active |-> TRUE, password |-> "hashed"])
    @@ (bob :> [name |-> nb, email |-> eb, display |-> 1, level |-> "USER",
                active |-> TRUE, password |-> "clear"])
    @@ (new :> None)

MCClients == (c1 :> bob) @@ (Blank :> None)

MCSessions == (ann :> "live") @@ (bob :> "none") @@ (new :> "none")

MCUserPatches == {[name |-> na, active |-> TRUE], [email |-> eb, level |-> "ADMIN"]}

MCProfilePatches == {[display |-> 2, password |-> "hashed"], [email |-> ea]}
=============================================================================
