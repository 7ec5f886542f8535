-------------------------------- MODULE Pool --------------------------------
(***************************************************************************)
(* Goroutines that use the database: each runs one transaction, or one     *)
(* query outside of any, through database/sql and the driver of            *)
(* pgwire/driver.go.  The pool is database/sql's as main.go sets it up.    *)
(* The driver never reports driver.ErrBadConn, so the pool takes every     *)
(* connection back, a broken one too, until its lifetime is over; and it   *)
(* ignores its contexts, so that a goroutine whose context has ended gives *)
(* up only between two queries.                                            *)
(*                                                                         *)
(*   wait -> dial -> held -> read -> done                                  *)
(*                   held -> begin -> tx -> stmt -> tx -> commit -> done   *)
(*                          stmt -> undo -> rollback -> done               *)
(***************************************************************************)
EXTENDS Wire

CONSTANTS
    MaxOpen,    \* SetMaxOpenConns
    MaxIdle,    \* SetMaxIdleConns
    Statements  \* the statements of a transaction

ASSUME PoolAssumption ==
    /\ MaxOpen \in Nat \ {0}
    /\ MaxIdle \in Nat
    /\ Statements \in Nat \ {0}

VARIABLES
    free,       \* DB.freeConn
    old,        \* connections whose lifetime is over
    pc,         \* where a goroutine is
    at,         \* the connections it holds: one or none
    failed,     \* collectResults has seen an error
    executed,   \* statements of its transaction that have succeeded
    cancelled,  \* its context has ended
    result      \* what its transaction or query has returned

poolVars == <<free, old>>
clientVars == <<pc, at, failed, executed, cancelled, result>>
vars == <<wireVars, poolVars, clientVars>>

Asking == {"begin", "stmt", "read", "commit", "rollback"}

TypeOK ==
    /\ WireTypeOK
    /\ free \subseteq Conn
    /\ old \subseteq Conn
    /\ pc \in [Client -> Asking \cup {"wait", "dial", "held", "tx", "undo", "done"}]
    /\ at \in [Client -> SUBSET Conn]
    /\ failed \in [Client -> BOOLEAN]
    /\ executed \in [Client -> 0 .. Statements]
    /\ cancelled \in [Client -> BOOLEAN]
    /\ result \in [Client -> {"none", "ok", "error"}]

Init ==
    /\ WireInit
    /\ free = {}
    /\ old = {}
    /\ pc = [k \in Client |-> "wait"]
    /\ at = [k \in Client |-> {}]
    /\ failed = [k \in Client |-> FALSE]
    /\ executed = [k \in Client |-> 0]
    /\ cancelled = [k \in Client |-> FALSE]
    /\ result = [k \in Client |-> "none"]

Goto(k, where) == pc' = [pc EXCEPT ![k] = where]

Return(k, what) ==
    /\ Goto(k, "done")
    /\ result' = [result EXCEPT ![k] = what]
    /\ UNCHANGED <<failed, executed, cancelled>>

\* Connections that count against the limit.
Open == free \cup UNION {at[k] : k \in Client}
MayOpen == free = {} /\ Cardinality(Open) < MaxOpen

-----------------------------------------------------------------------------
\* DB.conn: a free connection, a new one, or a wait for either.

TakeFree(k, c) ==
    /\ pc[k] = "wait" /\ c \in free \ old
    /\ free' = free \ {c}
    /\ at' = [at EXCEPT ![k] = {c}]
    /\ Goto(k, "held")
    /\ UNCHANGED <<wireVars, old, failed, executed, cancelled, result>>

OpenNew(k, c) ==
    /\ pc[k] = "wait" /\ MayOpen /\ Unused(c)
    /\ Dial(c, k)
    /\ at' = [at EXCEPT ![k] = {c}]
    /\ Goto(k, "dial")
    /\ UNCHANGED <<poolVars, failed, executed, cancelled, result>>

\* net.DialTimeout returns an error.
DialFails(k) ==
    /\ pc[k] = "wait" /\ MayOpen
    /\ Return(k, "error")
    /\ UNCHANGED <<wireVars, poolVars, at>>

\* Only here does the end of a context end a wait.
Withdraw(k) ==
    /\ pc[k] = "wait" /\ cancelled[k]
    /\ Return(k, "error")
    /\ UNCHANGED <<wireVars, poolVars, at>>

\* Mutant: connections have no maximal lifetime.
NeverAges(c) == c \in Open \cap old /\ UNCHANGED vars

\* The lifetime of an open connection ends.
Ages(c) ==
    /\ c \in Open \ old
    /\ old' = old \cup {c}
    /\ UNCHANGED <<wireVars, free, clientVars>>

\* By the connection cleaner, or by a goroutine that was about to take it.
CloseOld(c) ==
    /\ c \in free \cap old
    /\ Close(c)
    /\ free' = free \ {c}
    /\ old' = old \ {c}
    /\ UNCHANGED <<session, sent, committed, clientVars>>

-----------------------------------------------------------------------------
\* startup and handleAuth.

SendPassword(k) ==
    /\ pc[k] = "dial"
    /\ \E c \in at[k] :
        /\ HasMessage(c, {"cleartext", "md5"})
        /\ ReadMessage(c)
        /\ Write(c, <<k, "password">>)
    /\ UNCHANGED <<link, session, committed, poolVars, clientVars>>

\* An error, a method the driver does not know, or a broken connection.
StartupFails(k) ==
    /\ pc[k] = "dial"
    /\ \E c \in at[k] :
        /\ HasMessage(c, {"error", "scram"}) \/ link[c] = "down"
        /\ Close(c)
    /\ old' = old \ at[k]
    /\ at' = [at EXCEPT ![k] = {}]
    /\ Return(k, "error")
    /\ UNCHANGED <<session, sent, committed, free>>

Connected(k) ==
    /\ pc[k] = "dial"
    /\ \E c \in at[k] : HasMessage(c, {"ready"}) /\ ReadMessage(c)
    /\ Goto(k, "held")
    /\ UNCHANGED <<link, session, sent, committed, poolVars, at, failed, executed, cancelled, result>>

-----------------------------------------------------------------------------
\* simpleQuery and execExtended up to Flush.
Ask(k, does) ==
    /\ \E c \in at[k] : Write(c, <<k, does>>)
    /\ Goto(k, does)
    /\ failed' = [failed EXCEPT ![k] = FALSE]
    /\ UNCHANGED <<link, session, reply, committed, poolVars, at, executed, cancelled, result>>

QueryAlone(k) == pc[k] = "held" /\ Ask(k, "read")
BeginTx(k) == pc[k] = "held" /\ Ask(k, "begin")

\* A Tx asks nothing more once its context has ended.
InTx(k) == pc[k] = "tx" /\ ~ cancelled[k]

\* Mutant: one statement too many.
QueryInTxAgain(k) == InTx(k) /\ Ask(k, "stmt")

QueryInTx(k) == InTx(k) /\ executed[k] < Statements /\ Ask(k, "stmt")
Commit(k) == InTx(k) /\ executed[k] = Statements /\ Ask(k, "commit")

\* After an error, after rows that are a reason not to go on, or after the
\* context has ended.
Rollback(k) ==
    /\ \/ pc[k] = "undo"
       \/ pc[k] = "tx" /\ (cancelled[k] \/ executed[k] > 0)
    /\ Ask(k, "rollback")

-----------------------------------------------------------------------------
\* DB.putConn: a connection goes back unless it is old or there are enough.
Keep(c) == c \notin old /\ Cardinality(free) < MaxIdle

PutBack(k, c) ==
    /\ free' = free \cup {c}
    /\ at' = [at EXCEPT ![k] = {}]
    /\ UNCHANGED <<link, session, sent, committed, old>>

Discard(k, c) ==
    /\ link' = [link EXCEPT ![c] = "none"]
    /\ old' = old \ {c}
    /\ at' = [at EXCEPT ![k] = {}]
    /\ UNCHANGED <<session, sent, committed, free>>

\* When the context ended first, it is Tx.awaitDone that rolls back, and it
\* keeps no connection.
Release(k, c) ==
    \/ Keep(c) /\ PutBack(k, c)
    \/ ~ Keep(c) /\ Discard(k, c)
    \/ pc[k] = "rollback" /\ cancelled[k] /\ Discard(k, c)

Stay == UNCHANGED <<link, session, sent, committed, poolVars, at>>

\* What a query without an error, and one with an error, lead to.  Rows whose
\* context has ended return its error.
QuerySucceeds(k, c) ==
    \/ /\ pc[k] = "begin"
       /\ Stay /\ Goto(k, "tx")
       /\ UNCHANGED <<failed, executed, cancelled, result>>
    \/ /\ pc[k] = "stmt"
       /\ Stay /\ Goto(k, "tx")
       /\ executed' = [executed EXCEPT ![k] = @ + 1]
       /\ UNCHANGED <<failed, cancelled, result>>
    \/ pc[k] \in {"read", "commit"} /\ Release(k, c) /\ Return(k, "ok")
    \/ pc[k] = "read" /\ cancelled[k] /\ Release(k, c) /\ Return(k, "error")
    \/ pc[k] = "rollback" /\ Release(k, c) /\ Return(k, "error")

\* Mutant: the error of a statement is not looked at.
QueryFailsUnnoticed(k, c) ==
    \/ /\ pc[k] = "stmt"
       /\ Stay /\ Goto(k, "tx")
       /\ executed' = [executed EXCEPT ![k] = @ + 1]
       /\ UNCHANGED <<failed, cancelled, result>>
    \/ pc[k] \in Asking \ {"stmt"} /\ Release(k, c) /\ Return(k, "error")

\* Mutant: a transaction with a failed statement is left without ROLLBACK.
QueryFailsInside(k, c) == pc[k] \in Asking /\ Release(k, c) /\ Return(k, "error")

\* Mutant: a failed statement is tried again in its transaction.
QueryFailsAgain(k, c) ==
    \/ /\ pc[k] = "stmt"
       /\ Stay /\ Goto(k, "tx")
       /\ UNCHANGED <<failed, executed, cancelled, result>>
    \/ pc[k] \in Asking \ {"stmt"} /\ Release(k, c) /\ Return(k, "error")

QueryFails(k, c) ==
    \/ /\ pc[k] = "stmt"
       /\ Stay /\ Goto(k, "undo")
       /\ UNCHANGED <<failed, executed, cancelled, result>>
    \/ pc[k] \in Asking \ {"stmt"} /\ Release(k, c) /\ Return(k, "error")

-----------------------------------------------------------------------------
\* Mutant: an error ends the query before ReadyForQuery.
CollectHasty(k) ==
    /\ pc[k] \in Asking
    /\ \E c \in at[k] :
        /\ HasMessage(c, {"complete", "error"})
        /\ ReadMessage(c)
        /\ IF Head(reply[c]).typ = "error"
           THEN QueryFails(k, c)
           ELSE UNCHANGED <<link, session, sent, committed, poolVars, clientVars>>

\* Mutant: the error is not kept until the end.
CollectDropping(k) ==
    /\ pc[k] \in Asking
    /\ \E c \in at[k] : HasMessage(c, {"complete", "error"}) /\ ReadMessage(c)
    /\ UNCHANGED <<link, session, sent, committed, poolVars, clientVars>>

\* collectResults: one message; the error it surfaces is kept until the end.
Collect(k) ==
    /\ pc[k] \in Asking
    /\ \E c \in at[k] :
        /\ HasMessage(c, {"complete", "error"})
        /\ ReadMessage(c)
        /\ failed' = [failed EXCEPT ![k] = @ \/ Head(reply[c]).typ = "error"]
    /\ UNCHANGED <<link, session, sent, committed, poolVars, pc, at, executed, cancelled, result>>

\* ReadyForQuery: collectResults returns.
CollectReady(k) ==
    /\ pc[k] \in Asking
    /\ \E c \in at[k] :
        /\ HasMessage(c, {"ready"})
        /\ ReadMessage(c)
        /\ IF failed[k] THEN QueryFails(k, c) ELSE QuerySucceeds(k, c)

\* readMessage returns an error; what was unread is not read any more.
ReadFails(k) ==
    /\ pc[k] \in Asking
    /\ \E c \in at[k] :
        /\ link[c] = "down"
        /\ reply' = [reply EXCEPT ![c] = <<>>]
        /\ QueryFails(k, c)

-----------------------------------------------------------------------------
\* The context of a call ends: a time limit, or an HTTP client that hangs up.
Cancel(k) ==
    /\ pc[k] # "done" /\ ~ cancelled[k]
    /\ cancelled' = [cancelled EXCEPT ![k] = TRUE]
    /\ UNCHANGED <<wireVars, poolVars, pc, at, failed, executed, result>>

ClientStep(k) ==
    \/ \E c \in Conn : TakeFree(k, c) \/ OpenNew(k, c)
    \/ Withdraw(k)
    \/ SendPassword(k)
    \/ StartupFails(k)
    \/ Connected(k)
    \/ QueryAlone(k)
    \/ BeginTx(k)
    \/ QueryInTx(k)
    \/ Commit(k)
    \/ Rollback(k)
    \/ Collect(k)
    \/ CollectReady(k)
    \/ ReadFails(k)

AllDone ==
    /\ \A k \in Client : pc[k] = "done"
    /\ UNCHANGED vars

Next ==
    \/ \E k \in Client : ClientStep(k) \/ DialFails(k) \/ Cancel(k)
    \/ \E c \in Conn : \/ ServerStep(c) /\ UNCHANGED <<poolVars, clientVars>>
                       \/ Break(c) /\ UNCHANGED <<poolVars, clientVars>>
                       \/ Ages(c)
                       \/ CloseOld(c)
    \/ AllDone

Spec == Init /\ [][Next]_vars

\* Goroutines run; a server reads on, and notices a connection that is gone;
\* lifetimes end, and the cleaner looks at the connections whose has.
FairSpec ==
    /\ Spec
    /\ \A k \in Client : WF_vars(ClientStep(k))
    /\ \A c \in Conn : /\ WF_vars(ServerStep(c) /\ UNCHANGED <<poolVars, clientVars>>)
                       /\ WF_vars(Ages(c))
                       /\ WF_vars(CloseOld(c))

-----------------------------------------------------------------------------
\* Whatever is read from a connection answers what its holder has just asked:
\* collectResults drains every answer, so that nobody reads another's rows.
InStep ==
    \A c \in Conn : \A i \in DOMAIN reply[c] : \E k \in Client :
        /\ c \in at[k]
        /\ reply[c][i].of \in IF pc[k] = "dial" THEN {<<k, "startup">>, <<k, "password">>}
                              ELSE {<<k, pc[k]>>}

\* A connection in the pool, unless it is broken, is outside of any transaction
\* and owes nobody an answer: however a call ends, its transaction ended first.
FreeIsClean ==
    \A c \in free : link[c] = "up" =>
        session[c] = "idle" /\ sent[c] = <<>> /\ reply[c] = <<>>

\* A transaction that returns no error is committed with all its statements,
\* and one that gave up, or whose statement failed, is never committed, not
\* even later by a server that reads on.
OutcomesAreTrue ==
    \A k \in Client :
        /\ result[k] = "ok" /\ executed[k] = Statements => k \in committed
        /\ k \in committed => pc[k] \in {"commit", "done"} /\ executed[k] = Statements

\* Every call returns, although calls wait for each other's connections,
\* connections break, and contexts interrupt no query.
EveryCallEnds == \A k \in Client : <>(pc[k] = "done")

\* A broken connection does not stay in the pool for ever, although the driver
\* never says that one is broken.
BrokenLeaves == \A c \in Conn : (c \in free /\ link[c] = "down") ~> c \notin Open

-----------------------------------------------------------------------------
\* Why.  Where a goroutine is tells what its connection is about to do, unless
\* that is broken: nothing, or the query just asked, or its answer is unread.

Quiet(c) == sent[c] = <<>> /\ reply[c] = <<>>

Greeted(k, c) ==
    /\ \/ reply[c] = <<>>
       \/ \E typ \in {"cleartext", "md5", "scram", "error", "ready"},
             does \in {"startup", "password"} : reply[c] = <<Msg(typ, <<k, does>>)>>
    /\ link[c] = "up" =>
        \/ reply[c] = <<>> /\ session[c] = "start" /\ sent[c] = <<<<k, "startup">>>>
        \/ reply[c] = <<>> /\ session[c] = "auth" /\ sent[c] = <<<<k, "password">>>>
        \/ /\ reply[c] # <<>> /\ sent[c] = <<>>
           /\ Head(reply[c]).typ \in {"cleartext", "md5"} => session[c] = "auth"
           /\ Head(reply[c]).typ = "ready" => session[c] = "idle"

\* The answer that is being read holds an error.
Erred(k, c) == failed[k] \/ Head(reply[c]).typ = "error"

Answered(k, c) ==
    LET q == <<k, pc[k]>> IN
    /\ \/ reply[c] = <<Msg("ready", q)>>
       \/ /\ ~ failed[k]
          /\ \E typ \in {"complete", "error"} : reply[c] = <<Msg(typ, q), Msg("ready", q)>>
    /\ pc[k] = "commit" /\ ~ Erred(k, c) => k \in committed
    /\ link[c] = "up" =>
        /\ sent[c] = <<>>
        /\ pc[k] = "begin" => session[c] = "open" /\ ~ Erred(k, c)
        /\ pc[k] = "stmt" => session[c] = IF Erred(k, c) THEN "failed" ELSE "open"
        /\ pc[k] \in {"read", "commit", "rollback"} => session[c] = "idle"

Unanswered(k, c) ==
    /\ reply[c] = <<>>
    /\ link[c] = "up" =>
        /\ ~ failed[k] /\ sent[c] = <<<<k, pc[k]>>>>
        /\ pc[k] \in {"read", "begin"} => session[c] = "idle"
        /\ pc[k] \in {"stmt", "commit"} => session[c] = "open"
        /\ pc[k] = "rollback" => session[c] \in {"open", "failed"}

Talk(k, c) ==
    /\ pc[k] = "dial" => Greeted(k, c)
    /\ pc[k] \in {"held", "tx", "undo"} =>
        /\ reply[c] = <<>>
        /\ link[c] = "up" =>
            /\ Quiet(c)
            /\ session[c] = CASE pc[k] = "held" -> "idle" [] pc[k] = "tx" -> "open"
                              [] pc[k] = "undo" -> "failed"
    /\ pc[k] \in Asking => Answered(k, c) \/ Unanswered(k, c)

\* A connection is in the pool or belongs to one goroutine, which has one.
Ownership ==
    /\ \A c \in Conn : link[c] = "none" <=> c \notin free /\ \A k \in Client : c \notin at[k]
    /\ \A k \in Client :
        /\ at[k] \cap free = {}
        /\ \A l \in Client \ {k} : at[k] \cap at[l] = {}
        /\ \A c, d \in at[k] : c = d
        /\ pc[k] \in {"wait", "done"} => at[k] = {}

Progress(k) ==
    /\ pc[k] # "done" => result[k] = "none"
    /\ pc[k] \in {"wait", "dial", "held", "read", "begin"} => executed[k] = 0
    /\ pc[k] = "stmt" => executed[k] < Statements
    /\ pc[k] = "commit" => executed[k] = Statements

\* What the server has not read yet: a COMMIT among it is the last thing that
\* its goroutine has asked, even if that has given up waiting.
Sending(c) ==
    sent[c] # <<>> => \E k \in Client, does \in {"startup", "password"} \cup Asking :
        /\ sent[c] = <<<<k, does>>>>
        /\ does = "commit" => pc[k] \in {"commit", "done"} /\ executed[k] = Statements

\* Goroutines, connections and sessions agree at every step of every call, so
\* that a connection can be handed on without asking the server how it is
\* (database/sql never looks at conn.txStatus, protocol.go:51).
PoolInv ==
    /\ Ownership
    /\ \A k \in Client : Progress(k)
    /\ \A c \in Conn : Sending(c)
    /\ \A c \in Conn : c \in free \/ link[c] = "none" => reply[c] = <<>>
    /\ \A k \in Client : \A c \in at[k] : Talk(k, c)
    /\ FreeIsClean
    /\ OutcomesAreTrue
=============================================================================
