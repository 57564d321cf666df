---------------------------- MODULE ReplyRouter ----------------------------
(***************************************************************************)
(* What the proxy promises its clients, without redis connections, maps,   *)
(* event loops or threads: a request that was accepted is answered or      *)
(* dropped, once; an answer goes to the client that asked; and a client    *)
(* connection carries at most one answer, because the proxy closes it      *)
(* after the first.                                                        *)
(***************************************************************************)
EXTENDS Sequences

CONSTANTS Commands, Clients, connOf

VARIABLES
    accepted,       \* requests the proxy has read
    outstanding,    \* accepted and neither answered nor dropped
    delivered       \* the answers handed to each client, in order

routerVars == <<accepted, outstanding, delivered>>

Init ==
    /\ accepted = {}
    /\ outstanding = {}
    /\ delivered = [c \in Clients |-> <<>>]

Accept(r) ==
    /\ r \notin accepted
    /\ accepted' = accepted \cup {r}
    /\ outstanding' = outstanding \cup {r}
    /\ UNCHANGED delivered

\* Read, and dropped in the same step: no redis connection took it.
Reject(r) ==
    /\ r \notin accepted
    /\ accepted' = accepted \cup {r}
    /\ UNCHANGED <<outstanding, delivered>>

Answer(r) ==
    /\ r \in outstanding
    /\ delivered[connOf[r]] = <<>>
    /\ outstanding' = outstanding \ {r}
    /\ delivered' = [delivered EXCEPT ![connOf[r]] = <<r>>]
    /\ UNCHANGED accepted

Drop(r) ==
    /\ r \in outstanding
    /\ outstanding' = outstanding \ {r}
    /\ UNCHANGED <<accepted, delivered>>

Next == \E r \in Commands : Accept(r) \/ Reject(r) \/ Answer(r) \/ Drop(r)

Spec == Init /\ [][Next]_routerVars

=============================================================================
