\* Two accounts and two clients that log in, register and reuse identifiers
\* concurrently, two sessions, a token, and every statement may fail.  A
\* lifetime of 0 ends at the next tick.
CONSTANTS
    alice = alice
    bob = bob
    pwAlice = pwAlice
    pwBob = pwBob
    Emails = {u1, u2}
    Passwords = {pwAlice, pwBob}
    Clients = {alice, bob}
    Knows <- TwoClients
    SessionIds = {s1, s2}
    TokenIds = {t1}
    Requests = {q1, q2}
    Nothing = Nothing
    SessionTTL = 0
    TokenTTL = 0
    StoreFails = TRUE
SPECIFICATION AuthSpec
SYMMETRY Interchangeable
INVARIANTS
    AuthTypeOK
    PrincipalWasLive
    LiveCredentialAccepted
    PrincipalKnowsPassword
