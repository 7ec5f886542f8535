------------------------------ MODULE Startup ------------------------------
(***************************************************************************)
(* The start of orchestrator instances over one Postgres database:         *)
(* mustBuildAccountsStore of cmd/orchestrator/main.go, which applies the   *)
(* schema and seeds the demo data.  Any error is fatal, and an instance    *)
(* that has ended is started again.  Its server session stays behind and   *)
(* still does what it was asked.  A broken connection is a crash here,     *)
(* since the instance ends with the error.                                 *)
(*                                                                         *)
(* A server session does one query at a time: the objects of the schema    *)
(* are created and looked up in order, every one committed by itself; the  *)
(* rows of the demo data are inserted in order by one transaction.         *)
(***************************************************************************)
EXTENDS Naturals

CONSTANTS
    Instance,   \* instances of the orchestrator
    Session,    \* bound: server sessions there are at a time
    Objects,    \* tables and indexes of the schema
    Rows,       \* rows of the demo data; each has a unique key
    MaxCrashes  \* bound: crashes and expired start-up contexts

ASSUME StartupAssumption ==
    /\ Objects \in Nat \ {0}
    /\ Rows \in Nat \ {0}
    /\ MaxCrashes \in Nat

VARIABLES
    pc,         \* an instance is down, starting or serving
    at,         \* the session it uses: one or none
    live,       \* sessions of the server
    asked,      \* what a session was asked last
    answer,     \* and its answer
    looked,     \* CREATE ... IF NOT EXISTS has found nothing and goes on
    open,       \* sessions inside a transaction
    held,       \* rows a session has inserted and not committed
    made,       \* objects in the catalogue
    committed,  \* rows of the demo data that everybody sees
    seedings,   \* transactions that have committed rows
    crashes

instanceVars == <<pc, at>>
sessionVars == <<live, asked, answer, looked, open, held>>
databaseVars == <<made, committed, seedings>>
vars == <<instanceVars, sessionVars, databaseVars, crashes>>

Object == 1 .. Objects
Row == 1 .. Rows
Query == [does : {"create", "count", "begin", "insert", "commit", "rollback"}, nth : Nat]
Q(does, n) == [does |-> does, nth |-> n]

TypeOK ==
    /\ pc \in [Instance -> {"down", "starting", "serving"}]
    /\ at \in [Instance -> SUBSET Session]
    /\ live \subseteq Session
    /\ asked \in [Session -> Query]
    /\ answer \in [Session -> {"none", "ok", "error", "empty", "found"}]
    /\ looked \in [Session -> BOOLEAN]
    /\ open \subseteq Session
    /\ held \in [Session -> SUBSET Row]
    /\ made \subseteq Object
    /\ committed \subseteq Row
    /\ seedings \in Nat
    /\ crashes \in 0 .. MaxCrashes

\* A database nobody has used yet.
Init ==
    /\ pc = [i \in Instance |-> "down"]
    /\ at = [i \in Instance |-> {}]
    /\ live = {}
    /\ asked = [s \in Session |-> Q("rollback", 0)]
    /\ answer = [s \in Session |-> "ok"]
    /\ looked = [s \in Session |-> FALSE]
    /\ open = {}
    /\ held = [s \in Session |-> {}]
    /\ made = {}
    /\ committed = {}
    /\ seedings = 0
    /\ crashes = 0

-----------------------------------------------------------------------------
\* The instance.

Ask(s, q) ==
    /\ asked' = [asked EXCEPT ![s] = q]
    /\ answer' = [answer EXCEPT ![s] = "none"]

\* The next query of a starting instance, once the last one is answered.
Goes(i, last, answered, q) ==
    /\ pc[i] = "starting"
    /\ \E s \in at[i] :
        /\ asked[s] = last /\ answer[s] = answered
        /\ Ask(s, q)
    /\ UNCHANGED <<instanceVars, live, looked, open, held, databaseVars, crashes>>

\* docker starts the process, which connects and begins with the schema.
Start(i) ==
    /\ pc[i] = "down"
    /\ pc' = [pc EXCEPT ![i] = "starting"]
    /\ \E s \in Session \ live :
        /\ live' = live \cup {s}
        /\ at' = [at EXCEPT ![i] = {s}]
        /\ Ask(s, Q("create", 1))
    /\ UNCHANGED <<looked, open, held, databaseVars, crashes>>

\* Mutant: one statement too many.
ApplyPast(i) ==
    \/ \E n \in Object : Goes(i, Q("create", n), "ok", Q("create", n + 1))
    \/ Goes(i, Q("create", Objects), "ok", Q("count", 0))

\* schema.Apply.
ApplyNext(i) ==
    \/ \E n \in Object \ {Objects} : Goes(i, Q("create", n), "ok", Q("create", n + 1))
    \/ Goes(i, Q("create", Objects), "ok", Q("count", 0))

\* Mutant: the rows are inserted without BEGIN.
SeedAtOnce(i) == Goes(i, Q("count", 0), "empty", Q("insert", 1))

\* SeedDemoData.
BeginSeeding(i) == Goes(i, Q("count", 0), "empty", Q("begin", 0))

SeedNext(i) ==
    \/ Goes(i, Q("begin", 0), "ok", Q("insert", 1))
    \/ \E n \in Row \ {Rows} : Goes(i, Q("insert", n), "ok", Q("insert", n + 1))

\* Mutant: the loop over the rows commits.
CommitEarly(i) == \E n \in Row : Goes(i, Q("insert", n), "ok", Q("commit", 0))

CommitSeed(i) == Goes(i, Q("insert", Rows), "ok", Q("commit", 0))

Serve(i) ==
    /\ pc[i] = "starting"
    /\ \E s \in at[i] :
        \/ asked[s] = Q("count", 0) /\ answer[s] = "found"
        \/ asked[s] = Q("commit", 0) /\ answer[s] = "ok"
    /\ pc' = [pc EXCEPT ![i] = "serving"]
    /\ UNCHANGED <<at, sessionVars, databaseVars, crashes>>

Exit(i) ==
    /\ pc' = [pc EXCEPT ![i] = "down"]
    /\ at' = [at EXCEPT ![i] = {}]
    /\ UNCHANGED <<sessionVars, databaseVars>>

\* log.Fatalf; an INSERT that fails is rolled back first.
Fails(i) ==
    \/ /\ pc[i] = "starting"
       /\ \E s \in at[i] :
            \/ asked[s].does = "create" /\ answer[s] = "error"
            \/ asked[s].does = "rollback" /\ answer[s] = "ok"
       /\ Exit(i)
       /\ UNCHANGED crashes
    \/ \E n \in Row : Goes(i, Q("insert", n), "error", Q("rollback", 0))

Budget == crashes < MaxCrashes /\ crashes' = crashes + 1

\* The 10 s of the start-up's context are over: the next call returns an error.
GivesUp(i) ==
    /\ pc[i] = "starting"
    /\ Budget
    /\ \E s \in at[i] :
        \/ /\ asked[s].does \in {"create", "count"} /\ answer[s] \in {"ok", "empty", "found"}
           /\ Exit(i)
        \/ /\ asked[s].does \in {"begin", "insert"} /\ answer[s] = "ok"
           /\ Ask(s, Q("rollback", 0))
           /\ UNCHANGED <<instanceVars, live, looked, open, held, databaseVars>>

Crash(i) == pc[i] # "down" /\ Budget /\ Exit(i)

-----------------------------------------------------------------------------
\* The server.

Answers(s, what) ==
    /\ answer' = [answer EXCEPT ![s] = what]
    /\ UNCHANGED <<instanceVars, live, asked, crashes>>

Pending(s, does) == s \in live /\ asked[s].does = does /\ answer[s] = "none"

\* Mutant: CREATE without IF NOT EXISTS.
LookStrictly(s) ==
    /\ Pending(s, "create") /\ ~ looked[s]
    /\ IF asked[s].nth \in made
       THEN Answers(s, "error") /\ UNCHANGED <<looked, open, held, databaseVars>>
       ELSE /\ looked' = [looked EXCEPT ![s] = TRUE]
            /\ UNCHANGED <<instanceVars, live, asked, answer, open, held, databaseVars, crashes>>

\* IF NOT EXISTS.
Look(s) ==
    /\ Pending(s, "create") /\ ~ looked[s]
    /\ IF asked[s].nth \in made
       THEN Answers(s, "ok") /\ UNCHANGED <<looked, open, held, databaseVars>>
       ELSE /\ looked' = [looked EXCEPT ![s] = TRUE]
            /\ UNCHANGED <<instanceVars, live, asked, answer, open, held, databaseVars, crashes>>

\* Somebody else may have created it meanwhile: an error, or a second look.
Create(s) ==
    /\ Pending(s, "create") /\ looked[s]
    /\ \/ asked[s].nth \notin made /\ Answers(s, "ok")
       \/ asked[s].nth \in made /\ \E what \in {"ok", "error"} : Answers(s, what)
    /\ looked' = [looked EXCEPT ![s] = FALSE]
    /\ made' = made \cup {asked[s].nth}
    /\ UNCHANGED <<open, held, committed, seedings>>

Count(s) ==
    /\ Pending(s, "count")
    /\ Answers(s, IF committed = {} THEN "empty" ELSE "found")
    /\ UNCHANGED <<looked, open, held, databaseVars>>

Begin(s) ==
    /\ Pending(s, "begin")
    /\ Answers(s, "ok")
    /\ open' = open \cup {s}
    /\ UNCHANGED <<looked, held, databaseVars>>

\* Outside of a transaction a row is committed at once.
Store(s, n) ==
    IF s \in open
    THEN /\ held' = [held EXCEPT ![s] = @ \cup {n}]
         /\ UNCHANGED committed
    ELSE /\ committed' = committed \cup {n}
         /\ UNCHANGED held

\* Mutant: the keys of the demo data are not unique.
InsertAnyway(s) ==
    /\ Pending(s, "insert")
    /\ Answers(s, "ok")
    /\ Store(s, asked[s].nth)
    /\ UNCHANGED <<looked, open, made, seedings>>

\* UNIQUE: an INSERT waits for a transaction that has inserted the same key and
\* not ended, and fails when one has committed it.
Insert(s) ==
    LET n == asked[s].nth IN
    /\ Pending(s, "insert")
    /\ \A t \in Session \ {s} : n \notin held[t]
    /\ \/ n \in committed /\ Answers(s, "error") /\ UNCHANGED <<held, committed>>
       \/ n \notin committed /\ Answers(s, "ok") /\ Store(s, n)
    /\ UNCHANGED <<looked, open, made, seedings>>

Ends(s) ==
    /\ open' = open \ {s}
    /\ held' = [held EXCEPT ![s] = {}]

Commit(s) ==
    /\ Pending(s, "commit")
    /\ Answers(s, "ok")
    /\ Ends(s)
    /\ committed' = committed \cup held[s]
    /\ seedings' = seedings + 1
    /\ UNCHANGED <<looked, made>>

Rollback(s) ==
    /\ Pending(s, "rollback")
    /\ Answers(s, "ok")
    /\ Ends(s)
    /\ UNCHANGED <<looked, databaseVars>>

\* The server has done what it was asked and notices that nobody listens.
SessionEnds(s) ==
    /\ s \in live /\ answer[s] # "none"
    /\ \A i \in Instance : s \notin at[i]
    /\ live' = live \ {s}
    /\ Ends(s)
    /\ UNCHANGED <<instanceVars, asked, answer, looked, databaseVars, crashes>>

-----------------------------------------------------------------------------
InstanceStep(i) ==
    \/ Start(i)
    \/ ApplyNext(i)
    \/ BeginSeeding(i)
    \/ SeedNext(i)
    \/ CommitSeed(i)
    \/ Serve(i)
    \/ Fails(i)

ServerStep(s) ==
    \/ Look(s)
    \/ Create(s)
    \/ Count(s)
    \/ Begin(s)
    \/ Insert(s)
    \/ Commit(s)
    \/ Rollback(s)
    \/ SessionEnds(s)

\* All serve, and no session is left behind.
Settled ==
    /\ \A i \in Instance : pc[i] = "serving"
    /\ live \subseteq UNION {at[i] : i \in Instance}
    /\ UNCHANGED vars

Next ==
    \/ \E i \in Instance : InstanceStep(i) \/ GivesUp(i) \/ Crash(i)
    \/ \E s \in Session : ServerStep(s)
    \/ Settled

Spec == Init /\ [][Next]_vars

\* Processes run and are started again; the server does what it is asked.
FairSpec ==
    /\ Spec
    /\ \A i \in Instance : WF_vars(InstanceStep(i))
    /\ \A s \in Session : WF_vars(ServerStep(s))

-----------------------------------------------------------------------------
\* However many instances start at once, and whatever a crashed one's session
\* still does, the demo data is committed once.
SeededOnce == seedings <= 1

\* An instance that serves has the whole schema and all of the demo data, the
\* clearing account included: nobody is let in by a part of them.
ServesComplete ==
    \A i \in Instance : pc[i] = "serving" => made = Object /\ committed = Row

\* Every instance comes to serve for good once crashes have ended, although
\* those that start at once fail on each other's objects and rows.
AllServe == <>[](\A i \in Instance : pc[i] = "serving")

-----------------------------------------------------------------------------
\* Why.  An instance goes through the schema in order and seeds in order, so
\* that what its session was asked last, and whether that is answered, tells
\* what exists and what the session holds.
Stage(s) ==
    LET does == asked[s].does
        n == asked[s].nth
        a == answer[s]
    IN  /\ does = "create" =>
            /\ n \in Object /\ 1 .. (n - 1) \subseteq made
            /\ held[s] = {} /\ s \notin open
            /\ a = "ok" => n \in made
        /\ does # "create" => made = Object
        /\ does = "count" =>
            /\ held[s] = {} /\ s \notin open
            /\ a = "found" => committed = Row
        /\ does = "begin" => held[s] = {} /\ (a = "none" \/ s \in open)
        /\ does = "insert" =>
            /\ n \in Row /\ s \in open
            /\ held[s] = IF a = "ok" THEN 1 .. n ELSE 1 .. (n - 1)
        /\ does = "commit" =>
            IF a = "none" THEN held[s] = Row ELSE held[s] = {} /\ committed = Row
        /\ does = "rollback" =>
            IF a = "none" THEN \E k \in 0 .. Rows : held[s] = 1 .. k ELSE held[s] = {}

\* Who has inserted the first row keeps everybody else from seeding.
OneSeeds ==
    /\ \A s \in Session : held[s] # {} => 1 \in held[s] /\ committed = {}
    /\ \A s, t \in Session : 1 \in held[s] /\ 1 \in held[t] => s = t

\* What a session was asked last tells how far the schema and the demo data
\* are; whoever has inserted the first row seeds alone; and the demo data is
\* there as a whole or not at all (postgres_repository.go:36-131).
StartupInv ==
    /\ \A i \in Instance : at[i] \subseteq live
    /\ \A s \in live : Stage(s)
    /\ \A s \in Session \ live : held[s] = {} /\ s \notin open
    /\ OneSeeds
    /\ \/ committed = {} /\ seedings = 0
       \/ committed = Row /\ seedings = 1
    /\ ServesComplete
=============================================================================
