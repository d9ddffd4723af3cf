------------------------------- MODULE MCAuth -------------------------------
(***************************************************************************)
(* Auth on small instances: two clients that know one password each.       *)
(* Accounts, sessions and requests are interchangeable, and so are the     *)
(* clients together with their passwords.                                  *)
(***************************************************************************)
EXTENDS Auth, TLC

CONSTANTS alice, bob, pwAlice, pwBob

TwoClients == (alice :> {pwAlice}) @@ (bob :> {pwBob})

SwapClients == (alice :> bob) @@ (bob :> alice)
                   @@ (pwAlice :> pwBob) @@ (pwBob :> pwAlice)

Interchangeable ==
    Permutations(Requests) \cup Permutations(SessionIds)
        \cup Permutations(Emails) \cup {SwapClients}
=============================================================================
