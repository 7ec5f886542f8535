-------------------------------- MODULE Wire --------------------------------
(***************************************************************************)
(* Connections of internal/pgwire to a Postgres server, and the server's   *)
(* side of them as far as the driver relies on it.  A connection carries   *)
(* queries one way and messages the other, in order; it may break at any   *)
(* time, and the server learns of that later, or after it has executed     *)
(* what had reached it.  Left out are the messages that collectResults and *)
(* startup skip, and what is inside a row.                                 *)
(***************************************************************************)
EXTENDS Naturals, Sequences, FiniteSets

CONSTANTS
    Conn,       \* bound: connections there are at a time
    Client,     \* goroutines that use the database
    Auth        \* the authentication methods a server may ask for

ASSUME WireAssumption == Auth \subseteq {"trust", "cleartext", "md5", "scram"}

VARIABLES
    link,       \* conn.nc, seen from the driver
    session,    \* the transaction status of the server's session
    sent,       \* queries the server has not executed yet
    reply,      \* messages the driver has not read yet
    committed   \* whose transactions the server has committed

wireVars == <<link, session, sent, reply, committed>>

\* Who asks, and what.
Query == Client \X {"startup", "password", "read", "begin", "stmt", "commit", "rollback"}

\* 'R' by its method, 'E', 'C', 'Z', and the query it belongs to.
Message == [typ : {"cleartext", "md5", "scram", "error", "complete", "ready"}, of : Query]
Msg(typ, q) == [typ |-> typ, of |-> q]

WireTypeOK ==
    /\ link \in [Conn -> {"none", "up", "down"}]
    /\ session \in [Conn -> {"none", "start", "auth", "idle", "open", "failed"}]
    /\ sent \in [Conn -> Seq(Query)]
    /\ reply \in [Conn -> Seq(Message)]
    /\ committed \subseteq Client

WireInit ==
    /\ link = [c \in Conn |-> "none"]
    /\ session = [c \in Conn |-> "none"]
    /\ sent = [c \in Conn |-> <<>>]
    /\ reply = [c \in Conn |-> <<>>]
    /\ committed = {}

-----------------------------------------------------------------------------
\* The driver's side.

Unused(c) == link[c] = "none" /\ session[c] = "none"

\* Connect: the server has accepted, and startup has sent its first message.
Dial(c, k) ==
    /\ link' = [link EXCEPT ![c] = "up"]
    /\ session' = [session EXCEPT ![c] = "start"]
    /\ sent' = [sent EXCEPT ![c] = <<<<k, "startup">>>>]
    /\ UNCHANGED <<reply, committed>>

\* What is written to a broken connection is lost, without an error or with
\* one: either way the next thing to happen is that reading fails.
Write(c, q) == sent' = [sent EXCEPT ![c] = IF link[c] = "up" THEN Append(@, q) ELSE @]

HasMessage(c, types) == reply[c] # <<>> /\ Head(reply[c]).typ \in types
ReadMessage(c) == reply' = [reply EXCEPT ![c] = Tail(@)]

\* Close: what is unread is lost; the server reads on until it notices.
Close(c) ==
    /\ link' = [link EXCEPT ![c] = "none"]
    /\ reply' = [reply EXCEPT ![c] = <<>>]

-----------------------------------------------------------------------------
\* The server's side.

Answer(c, to, messages) ==
    /\ session' = [session EXCEPT ![c] = to]
    /\ sent' = [sent EXCEPT ![c] = Tail(@)]
    /\ reply' = [reply EXCEPT ![c] = IF link[c] = "up" THEN @ \o messages ELSE @]
    /\ UNCHANGED link

\* A start-up message: let in at once, asked for a password, or turned away.
Greet(c) ==
    /\ session[c] = "start" /\ sent[c] # <<>>
    /\ LET q == Head(sent[c]) IN
        \/ "trust" \in Auth /\ Answer(c, "idle", <<Msg("ready", q)>>)
        \/ \E m \in Auth \ {"trust"} : Answer(c, "auth", <<Msg(m, q)>>)
        \/ Answer(c, "none", <<Msg("error", q)>>)
    /\ UNCHANGED committed

CheckPassword(c) ==
    /\ session[c] = "auth" /\ sent[c] # <<>>
    /\ LET q == Head(sent[c]) IN
        \/ Answer(c, "idle", <<Msg("ready", q)>>)
        \/ Answer(c, "none", <<Msg("error", q)>>)
    /\ UNCHANGED committed

\* What a query may turn the session's status into, without and with an error.
\* COMMIT of a failed transaction rolls it back and reports no error.
Succeeds(from, does, to) ==
    \/ does = "begin" /\ from \in {"idle", "open"} /\ to = "open"
    \/ does \in {"read", "stmt"} /\ from \in {"idle", "open"} /\ to = from
    \/ does \in {"commit", "rollback"} /\ to = "idle"

Fails(from, does, to) ==
    \/ does \in {"read", "stmt"} /\ from = "idle" /\ to = "idle"
    \/ does \in {"read", "stmt"} /\ from = "open" /\ to = "failed"
    \/ does \in {"begin", "read", "stmt"} /\ from = "failed" /\ to = "failed"
    \/ does = "commit" /\ from = "open" /\ to = "idle"

\* One query of a session, its answer and ReadyForQuery.
Execute(c) ==
    /\ session[c] \in {"idle", "open", "failed"} /\ sent[c] # <<>>
    /\ LET q == Head(sent[c]) IN
        \/ \E to \in {"idle", "open"} :
            /\ Succeeds(session[c], q[2], to)
            /\ Answer(c, to, <<Msg("complete", q), Msg("ready", q)>>)
            /\ committed' = IF q[2] = "commit" /\ session[c] = "open"
                            THEN committed \cup {q[1]} ELSE committed
        \/ \E to \in {"idle", "failed"} :
            /\ Fails(session[c], q[2], to)
            /\ Answer(c, to, <<Msg("error", q), Msg("ready", q)>>)
            /\ UNCHANGED committed

\* The server notices that the connection is gone, and rolls back.
SessionEnds(c) ==
    /\ session[c] # "none" /\ link[c] # "up"
    /\ session' = [session EXCEPT ![c] = "none"]
    /\ sent' = [sent EXCEPT ![c] = <<>>]
    /\ UNCHANGED <<link, reply, committed>>

ServerStep(c) == Greet(c) \/ CheckPassword(c) \/ Execute(c) \/ SessionEnds(c)

\* The network fails, or the server restarts.
Break(c) ==
    /\ link[c] = "up"
    /\ link' = [link EXCEPT ![c] = "down"]
    /\ UNCHANGED <<session, sent, reply, committed>>
=============================================================================
