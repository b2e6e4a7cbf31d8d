---------------------------- MODULE ShareSessions ----------------------------
(***************************************************************************)
(* What the share relay promises to the two ends of a session: both are    *)
(* greeted before anything else, payload crosses over, and at most one end *)
(* is told that the session is over, as the last thing it hears of it.     *)
(***************************************************************************)
EXTENDS Integers, Sequences

CONSTANTS Socket, Session, None

VARIABLES
    ends,      \* session -> its host and its client, or None before it begins
    over,      \* session -> whether it has ended
    atHost,    \* session -> what its host has been sent
    atClient   \* session -> what its client has been sent

sessionVars == <<ends, over, atHost, atClient>>

Message(event, payload) == [event |-> event, payload |-> payload]

SessionsInit ==
    /\ ends     = [id \in Session |-> None]
    /\ over     = [id \in Session |-> FALSE]
    /\ atHost   = [id \in Session |-> <<>>]
    /\ atClient = [id \in Session |-> <<>>]

Live(id) == ends[id] # None /\ ~over[id]

Begin(id) ==
    /\ ends[id] = None
    /\ \E h, c \in Socket : ends'[id] = [host |-> h, client |-> c]
    /\ over'[id] = FALSE
    /\ atHost'[id] = <<Message("share-client", None)>>
    /\ atClient'[id] = <<Message("share-connected", None)>>

ToHost(id) ==
    /\ Live(id)
    /\ \E m \in {Message("share-session-start", None), Message("share-data", ends[id].client)} :
          atHost'[id] = Append(atHost[id], m)
    /\ ends'[id] = ends[id] /\ over'[id] = FALSE /\ atClient'[id] = atClient[id]

ToClient(id) ==
    /\ Live(id)
    /\ atClient'[id] = Append(atClient[id], Message("share-data", ends[id].host))
    /\ ends'[id] = ends[id] /\ over'[id] = FALSE /\ atHost'[id] = atHost[id]

End(id) ==
    LET told(stream) == Append(stream, Message("share-end", None))
    IN  /\ Live(id)
        /\ ends'[id] = ends[id] /\ over'[id] = TRUE
        /\ \/ atHost'[id] = told(atHost[id]) /\ atClient'[id] = atClient[id]
           \/ atHost'[id] = atHost[id] /\ atClient'[id] = told(atClient[id])
           \/ atHost'[id] = atHost[id] /\ atClient'[id] = atClient[id]

Stay(id) ==
    /\ ends'[id] = ends[id] /\ over'[id] = over[id]
    /\ atHost'[id] = atHost[id] /\ atClient'[id] = atClient[id]

\* One step of the relay may end several sessions.
SessionsNext ==
    \A id \in Session : Begin(id) \/ ToHost(id) \/ ToClient(id) \/ End(id) \/ Stay(id)

SessionsSpec == SessionsInit /\ [][SessionsNext]_sessionVars
=============================================================================
