-------------------------- MODULE MCManagedSessions --------------------------
EXTENDS ManagedSessions, TLC

CONSTANTS root, fork, again, ext, w1, w2, k1, k2

\* A root session, a fork of it, and a fork of an external session that reuses
\* the key of the first.
MCParent == root :> NoSession @@ fork :> root @@ again :> ext @@ ext :> NoSession
MCKey == root :> k1 @@ fork :> k2 @@ again :> k1 @@ ext :> NoSession
=============================================================================
