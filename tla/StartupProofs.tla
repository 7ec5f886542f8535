--------------------------- MODULE StartupProofs ---------------------------
(***************************************************************************)
(* The start-up, for any instances, sessions, objects, rows and crashes.   *)
(***************************************************************************)
EXTENDS Startup, TLAPS

Inv == TypeOK /\ StartupInv

\* The demo data is there as a whole or not at all.
WholeOrNone ==
    \/ committed = {} /\ seedings = 0
    \/ committed = Row /\ seedings = 1

Answer == {"none", "ok", "error", "empty", "found"}

-----------------------------------------------------------------------------
LEMMA QueryType ==
    ASSUME NEW d \in {"create", "count", "begin", "insert", "commit", "rollback"},
           NEW n \in Nat
    PROVE  Q(d, n) \in Query /\ Q(d, n).does = d /\ Q(d, n).nth = n
  BY DEF Q, Query

LEMMA InitInv == Init => Inv
<1> SUFFICES ASSUME Init
             PROVE  Inv
  OBVIOUS
<1>1. TypeOK
  <2>1. Q("rollback", 0) \in Query
    BY QueryType
  <2> QED
    BY <2>1, StartupAssumption DEF Init, TypeOK
<1>2. StartupInv
  BY DEF Init, StartupInv, OneSeeds, ServesComplete
<1> QED
  BY <1>1, <1>2 DEF Inv

\* A session that does nothing itself loses nothing by what others do: the
\* schema only grows, and the demo data only becomes complete.
LEMMA StageKept ==
    ASSUME Inv, NEW t \in live,
           asked'[t] = asked[t], answer'[t] = answer[t], held'[t] = held[t],
           t \in open' <=> t \in open,
           made \subseteq made', made' \subseteq Object,
           committed' = committed \/ committed' = Row
    PROVE  Stage(t)'
<1>1. Stage(t)
  BY DEF Inv, StartupInv
<1>2. made = Object => made' = Object
  OBVIOUS
<1> QED
  BY <1>1, <1>2 DEF Stage

-----------------------------------------------------------------------------
\* An instance asks, and that fits what its session has reached.
LEMMA AskStep ==
    ASSUME Inv, NEW i \in Instance, NEW s \in at[i], NEW q \in Query,
           Ask(s, q), Stage(s)', crashes' \in 0 .. MaxCrashes,
           UNCHANGED <<instanceVars, live, looked, open, held, databaseVars>>
    PROVE  Inv'
<1> USE DEF instanceVars, databaseVars
<1>1. s \in live /\ s \in Session
  BY DEF Inv, StartupInv, TypeOK
<1>2. TypeOK'
  BY <1>1 DEF Inv, TypeOK, Ask
<1>3. ASSUME NEW t \in live'
      PROVE  Stage(t)'
  <2>1. CASE t = s
    BY <2>1
  <2>2. CASE t # s
    <3>1. asked'[t] = asked[t] /\ answer'[t] = answer[t]
      BY <2>2 DEF Ask, Inv, TypeOK
    <3> QED
      BY <3>1, StageKept DEF Inv, TypeOK
  <2> QED
    BY <2>1, <2>2
<1>4. /\ \A j \in Instance : at'[j] \subseteq live'
      /\ \A t \in Session \ live' : held'[t] = {} /\ t \notin open'
      /\ OneSeeds' /\ WholeOrNone' /\ ServesComplete'
  BY DEF Inv, StartupInv, OneSeeds, WholeOrNone, ServesComplete
<1> QED
  BY <1>2, <1>3, <1>4 DEF Inv, StartupInv, WholeOrNone

LEMMA ExitStep ==
    ASSUME Inv, NEW i \in Instance, Exit(i), crashes' \in 0 .. MaxCrashes
    PROVE  Inv'
<1> USE DEF Exit, sessionVars, databaseVars
<1>1. TypeOK'
  BY DEF Inv, TypeOK
<1>2. \A t \in live' : Stage(t)'
  <2> SUFFICES ASSUME NEW t \in live
               PROVE  Stage(t)'
    OBVIOUS
  <2> QED
    BY StageKept DEF Inv, TypeOK
<1>3. /\ \A j \in Instance : at'[j] \subseteq live'
      /\ \A t \in Session \ live' : held'[t] = {} /\ t \notin open'
      /\ OneSeeds' /\ WholeOrNone'
  BY DEF Inv, StartupInv, OneSeeds, WholeOrNone, TypeOK
<1>4. ServesComplete'
  BY DEF Inv, StartupInv, ServesComplete, TypeOK
<1> QED
  BY <1>1, <1>2, <1>3, <1>4 DEF Inv, StartupInv, WholeOrNone

-----------------------------------------------------------------------------
LEMMA StartStep ==
    ASSUME Inv, NEW i \in Instance, Start(i)
    PROVE  Inv'
<1> USE DEF databaseVars
<1>1. PICK s \in Session \ live :
        /\ live' = live \cup {s}
        /\ at' = [at EXCEPT ![i] = {s}]
        /\ Ask(s, Q("create", 1))
  BY DEF Start
<1>2. Q("create", 1) \in Query /\ Q("create", 1).does = "create" /\ Q("create", 1).nth = 1
  BY QueryType
<1>3. asked'[s] = Q("create", 1) /\ answer'[s] = "none"
  BY <1>1 DEF Ask, Inv, TypeOK
<1>4. TypeOK'
  BY <1>1, <1>2 DEF Start, Ask, Inv, TypeOK
<1>5. ASSUME NEW t \in live'
      PROVE  Stage(t)'
  <2>1. CASE t = s
    <3>1. held'[s] = {} /\ s \notin open'
      BY <1>1 DEF Start, Inv, StartupInv
    <3>2. 1 \in Object /\ 1 .. 0 = {}
      BY StartupAssumption DEF Object
    <3> QED
      BY <1>2, <1>3, <2>1, <3>1, <3>2 DEF Stage
  <2>2. CASE t # s
    <3>1. t \in live /\ asked'[t] = asked[t] /\ answer'[t] = answer[t]
      BY <1>1, <2>2 DEF Ask, Inv, TypeOK
    <3> QED
      BY <3>1, StageKept DEF Start, Inv, TypeOK
  <2> QED
    BY <2>1, <2>2
<1>6. /\ \A j \in Instance : at'[j] \subseteq live'
      /\ \A t \in Session \ live' : held'[t] = {} /\ t \notin open'
      /\ OneSeeds' /\ WholeOrNone'
  BY <1>1 DEF Start, Inv, StartupInv, OneSeeds, WholeOrNone, TypeOK
<1>7. ServesComplete'
  BY DEF Start, Inv, StartupInv, ServesComplete, TypeOK
<1> QED
  BY <1>4, <1>5, <1>6, <1>7 DEF Inv, StartupInv, WholeOrNone

\* Goes: what the last answer says of the session is what the next query needs.
LEMMA GoesStep ==
    ASSUME Inv, NEW i \in Instance,
           NEW d \in {"create", "count", "begin", "insert", "commit", "rollback"},
           NEW n \in Nat, NEW last, NEW answered,
           Goes(i, last, answered, Q(d, n)),
           \A s \in live :
             /\ asked[s] = last
             /\ answer[s] = answered
             /\ asked'[s] = Q(d, n)
             /\ answer'[s] = "none"
             /\ UNCHANGED <<open, held, databaseVars>>
             => Stage(s)'
    PROVE  Inv'
<1>1. PICK s \in at[i] : asked[s] = last /\ answer[s] = answered /\ Ask(s, Q(d, n))
  BY DEF Goes
<1>2. s \in live /\ s \in Session
  BY DEF Inv, StartupInv, TypeOK
<1>3. asked'[s] = Q(d, n) /\ answer'[s] = "none"
  BY <1>1, <1>2 DEF Ask, Inv, TypeOK
<1>4. Stage(s)'
  BY <1>1, <1>2, <1>3 DEF Goes
<1>5. crashes' \in 0 .. MaxCrashes
  BY DEF Goes, Inv, TypeOK
<1>6. Q(d, n) \in Query
  BY QueryType
<1> QED
  BY <1>1, <1>4, <1>5, <1>6, AskStep DEF Goes

LEMMA ApplyStep ==
    ASSUME Inv, NEW i \in Instance, ApplyNext(i)
    PROVE  Inv'
<1> USE StartupAssumption DEF databaseVars
<1>1. CASE \E n \in Object \ {Objects} : Goes(i, Q("create", n), "ok", Q("create", n + 1))
  <2>1. PICK n \in Object \ {Objects} : Goes(i, Q("create", n), "ok", Q("create", n + 1))
    BY <1>1
  <2>2. n \in Nat /\ n + 1 \in Nat /\ n + 1 \in Object /\ 1 .. (n + 1 - 1) = (1 .. (n - 1)) \cup {n}
    BY DEF Object
  <2>3. ASSUME NEW s \in live, asked[s] = Q("create", n), answer[s] = "ok",
               asked'[s] = Q("create", n + 1), answer'[s] = "none",
               UNCHANGED <<open, held, databaseVars>>
        PROVE  Stage(s)'
    <3>1. /\ asked[s].does = "create" /\ asked[s].nth = n
          /\ asked'[s].does = "create" /\ asked'[s].nth = n + 1
      BY <2>2, <2>3, QueryType
    <3>2. 1 .. (n - 1) \subseteq made /\ n \in made /\ held[s] = {} /\ s \notin open
      BY <2>3, <3>1 DEF Inv, StartupInv, Stage
    <3> QED
      BY <2>2, <2>3, <3>1, <3>2 DEF Stage
  <2> QED
    BY <2>1, <2>2, <2>3, GoesStep
<1>2. CASE Goes(i, Q("create", Objects), "ok", Q("count", 0))
  <2>1. ASSUME NEW s \in live, asked[s] = Q("create", Objects), answer[s] = "ok",
               asked'[s] = Q("count", 0), answer'[s] = "none",
               UNCHANGED <<open, held, databaseVars>>
        PROVE  Stage(s)'
    <3>1. /\ asked[s].does = "create" /\ asked[s].nth = Objects
          /\ asked'[s].does = "count" /\ asked'[s].nth = 0
      BY <2>1, QueryType
    <3>2. 1 .. (Objects - 1) \subseteq made /\ Objects \in made /\ held[s] = {} /\ s \notin open
      BY <2>1, <3>1 DEF Inv, StartupInv, Stage
    <3>3. Object = (1 .. (Objects - 1)) \cup {Objects}
      BY DEF Object
    <3>4. made = Object
      BY <3>2, <3>3 DEF Inv, TypeOK
    <3> QED
      BY <2>1, <3>1, <3>2, <3>4 DEF Stage
  <2> QED
    BY <1>2, <2>1, GoesStep
<1> QED
  BY <1>1, <1>2 DEF ApplyNext

LEMMA SeedStep ==
    ASSUME Inv, NEW i \in Instance, BeginSeeding(i) \/ SeedNext(i) \/ CommitSeed(i)
    PROVE  Inv'
<1> USE StartupAssumption DEF databaseVars
<1>1. CASE BeginSeeding(i)
  <2>1. ASSUME NEW s \in live, asked[s] = Q("count", 0), answer[s] = "empty",
               asked'[s] = Q("begin", 0), answer'[s] = "none",
               UNCHANGED <<open, held, databaseVars>>
        PROVE  Stage(s)'
    <3>1. asked[s].does = "count" /\ asked'[s].does = "begin"
      BY <2>1, QueryType
    <3> QED
      BY <2>1, <3>1 DEF Inv, StartupInv, Stage
  <2> QED
    BY <1>1, <2>1, GoesStep DEF BeginSeeding
<1>2. CASE Goes(i, Q("begin", 0), "ok", Q("insert", 1))
  <2>1. ASSUME NEW s \in live, asked[s] = Q("begin", 0), answer[s] = "ok",
               asked'[s] = Q("insert", 1), answer'[s] = "none",
               UNCHANGED <<open, held, databaseVars>>
        PROVE  Stage(s)'
    <3>1. asked[s].does = "begin" /\ asked'[s].does = "insert" /\ asked'[s].nth = 1
      BY <2>1, QueryType
    <3>2. held[s] = {} /\ s \in open /\ made = Object
      BY <2>1, <3>1 DEF Inv, StartupInv, Stage
    <3>3. 1 \in Row /\ 1 .. (1 - 1) = {}
      BY DEF Row
    <3> QED
      BY <2>1, <3>1, <3>2, <3>3 DEF Stage
  <2> QED
    BY <1>2, <2>1, GoesStep
<1>3. CASE \E n \in Row \ {Rows} : Goes(i, Q("insert", n), "ok", Q("insert", n + 1))
  <2>1. PICK n \in Row \ {Rows} : Goes(i, Q("insert", n), "ok", Q("insert", n + 1))
    BY <1>3
  <2>2. n \in Nat /\ n + 1 \in Nat /\ n + 1 \in Row /\ n + 1 - 1 = n
    BY DEF Row
  <2>3. ASSUME NEW s \in live, asked[s] = Q("insert", n), answer[s] = "ok",
               asked'[s] = Q("insert", n + 1), answer'[s] = "none",
               UNCHANGED <<open, held, databaseVars>>
        PROVE  Stage(s)'
    <3>1. /\ asked[s].does = "insert" /\ asked[s].nth = n
          /\ asked'[s].does = "insert" /\ asked'[s].nth = n + 1
      BY <2>2, <2>3, QueryType
    <3>2. held[s] = 1 .. n /\ s \in open /\ made = Object
      BY <2>3, <3>1 DEF Inv, StartupInv, Stage
    <3> QED
      BY <2>2, <2>3, <3>1, <3>2 DEF Stage
  <2> QED
    BY <2>1, <2>2, <2>3, GoesStep
<1>4. CASE CommitSeed(i)
  <2>1. ASSUME NEW s \in live, asked[s] = Q("insert", Rows), answer[s] = "ok",
               asked'[s] = Q("commit", 0), answer'[s] = "none",
               UNCHANGED <<open, held, databaseVars>>
        PROVE  Stage(s)'
    <3>1. asked[s].does = "insert" /\ asked[s].nth = Rows /\ asked'[s].does = "commit"
      BY <2>1, QueryType
    <3> QED
      BY <2>1, <3>1 DEF Inv, StartupInv, Stage, Row
  <2> QED
    BY <1>4, <2>1, GoesStep DEF CommitSeed
<1> QED
  BY <1>1, <1>2, <1>3, <1>4 DEF SeedNext

\* Nothing else changes, but somebody serves, who has found the demo data or
\* committed it.
LEMMA ServeStep ==
    ASSUME Inv, NEW i \in Instance, Serve(i)
    PROVE  Inv'
<1> USE DEF sessionVars, databaseVars
<1>1. PICK s \in at[i] : \/ asked[s] = Q("count", 0) /\ answer[s] = "found"
                         \/ asked[s] = Q("commit", 0) /\ answer[s] = "ok"
  BY DEF Serve
<1>2. s \in live
  BY DEF Inv, StartupInv
<1>3. made = Object /\ committed = Row
  <2>1. asked[s].does \in {"count", "commit"} /\ (asked[s].does = "count" => answer[s] = "found")
        /\ (asked[s].does = "commit" => answer[s] = "ok")
    BY <1>1, QueryType
  <2> QED
    BY <1>2, <2>1 DEF Inv, StartupInv, Stage
<1>4. TypeOK'
  BY DEF Serve, Inv, TypeOK
<1>5. ServesComplete'
  BY <1>3 DEF Serve, ServesComplete
<1>6. \A t \in live' : Stage(t)'
  <2> SUFFICES ASSUME NEW t \in live
               PROVE  Stage(t)'
    BY DEF Serve
  <2> QED
    BY StageKept DEF Serve, Inv, TypeOK
<1>7. /\ \A j \in Instance : at'[j] \subseteq live'
      /\ \A t \in Session \ live' : held'[t] = {} /\ t \notin open'
      /\ OneSeeds' /\ WholeOrNone'
  BY DEF Serve, Inv, StartupInv, OneSeeds, WholeOrNone
<1> QED
  BY <1>4, <1>5, <1>6, <1>7 DEF Inv, StartupInv, WholeOrNone

LEMMA FailsStep ==
    ASSUME Inv, NEW i \in Instance, Fails(i)
    PROVE  Inv'
<1> USE StartupAssumption DEF databaseVars
<1>1. CASE Exit(i) /\ UNCHANGED crashes
  BY <1>1, ExitStep DEF Inv, TypeOK
<1>2. CASE \E n \in Row : Goes(i, Q("insert", n), "error", Q("rollback", 0))
  <2>1. PICK n \in Row : Goes(i, Q("insert", n), "error", Q("rollback", 0))
    BY <1>2
  <2>2. n \in Nat /\ n - 1 \in 0 .. Rows
    BY DEF Row
  <2>3. ASSUME NEW s \in live, asked[s] = Q("insert", n), answer[s] = "error",
               asked'[s] = Q("rollback", 0), answer'[s] = "none",
               UNCHANGED <<open, held, databaseVars>>
        PROVE  Stage(s)'
    <3>1. asked[s].does = "insert" /\ asked[s].nth = n /\ asked'[s].does = "rollback"
      BY <2>2, <2>3, QueryType
    <3>2. held[s] = 1 .. (n - 1) /\ made = Object
      BY <2>3, <3>1 DEF Inv, StartupInv, Stage
    <3> QED
      BY <2>2, <2>3, <3>1, <3>2 DEF Stage
  <2> QED
    BY <2>1, <2>3, GoesStep
<1> QED
  BY <1>1, <1>2 DEF Fails

LEMMA GivesUpStep ==
    ASSUME Inv, NEW i \in Instance, GivesUp(i)
    PROVE  Inv'
<1> USE StartupAssumption DEF databaseVars
<1>1. crashes' \in 0 .. MaxCrashes
  BY DEF GivesUp, Budget, Inv, TypeOK
<1>2. CASE Exit(i)
  BY <1>1, <1>2, ExitStep
<1>3. CASE ~ Exit(i)
  <2>1. PICK s \in at[i] :
          /\ asked[s].does \in {"begin", "insert"} /\ answer[s] = "ok"
          /\ Ask(s, Q("rollback", 0))
          /\ UNCHANGED <<instanceVars, live, looked, open, held, databaseVars>>
    BY <1>3 DEF GivesUp
  <2>2. s \in live /\ s \in Session
    BY DEF Inv, StartupInv, TypeOK
  <2>3. asked'[s].does = "rollback" /\ answer'[s] = "none"
    BY <2>1, <2>2, QueryType DEF Ask, Inv, TypeOK
  <2>4. made = Object /\ \E k \in 0 .. Rows : held[s] = 1 .. k
    <3>1. CASE asked[s].does = "begin"
      <4>1. held[s] = {} /\ made = Object
        BY <2>2, <3>1 DEF Inv, StartupInv, Stage
      <4>2. 0 \in 0 .. Rows /\ 1 .. 0 = {}
        OBVIOUS
      <4> QED
        BY <4>1, <4>2
    <3>2. CASE asked[s].does = "insert"
      <4>1. asked[s].nth \in Row /\ held[s] = 1 .. asked[s].nth /\ made = Object
        BY <2>1, <2>2, <3>2 DEF Inv, StartupInv, Stage
      <4> QED
        BY <4>1 DEF Row
    <3> QED
      BY <2>1, <3>1, <3>2
  <2>5. Stage(s)'
    BY <2>1, <2>3, <2>4 DEF Stage
  <2> QED
    BY <1>1, <2>1, <2>5, AskStep, QueryType
<1> QED
  BY <1>2, <1>3

-----------------------------------------------------------------------------
\* The server answers one session, and what it has done fits the answer.
LEMMA AnswerStep ==
    ASSUME Inv, NEW s \in live, NEW what \in Answer, Answers(s, what),
           Stage(s)',
           looked' \in [Session -> BOOLEAN],
           open' \subseteq Session,
           held' \in [Session -> SUBSET Row],
           \A t \in Session \ {s} : held'[t] = held[t] /\ (t \in open' <=> t \in open),
           made \subseteq made', made' \subseteq Object,
           committed' = committed \/ committed' = Row,
           seedings' \in Nat, WholeOrNone', OneSeeds'
    PROVE  Inv'
<1> USE DEF Answers, instanceVars
<1>1. TypeOK'
  <2>1. answer' \in [Session -> {"none", "ok", "error", "empty", "found"}]
    BY DEF Inv, TypeOK, Answer
  <2>2. committed' \subseteq Row
    BY DEF Inv, TypeOK
  <2> QED
    BY <2>1, <2>2 DEF Inv, TypeOK
<1>2. ASSUME NEW t \in live'
      PROVE  Stage(t)'
  <2>1. CASE t = s
    BY <2>1
  <2>2. CASE t # s
    <3>1. t \in live /\ t \in Session \ {s} /\ answer'[t] = answer[t] /\ asked'[t] = asked[t]
      BY <2>2 DEF Inv, TypeOK
    <3> QED
      BY <3>1, StageKept
  <2> QED
    BY <2>1, <2>2
<1>3. /\ \A j \in Instance : at'[j] \subseteq live'
      /\ \A t \in Session \ live' : held'[t] = {} /\ t \notin open'
  BY DEF Inv, StartupInv
<1>4. ServesComplete'
  BY DEF Inv, StartupInv, ServesComplete
<1> QED
  BY <1>1, <1>2, <1>3, <1>4 DEF Inv, StartupInv, WholeOrNone

LEMMA LookStep ==
    ASSUME Inv, NEW s \in Session, Look(s)
    PROVE  Inv'
<1> USE DEF databaseVars, instanceVars
<1>1. s \in live /\ asked[s].does = "create" /\ answer[s] = "none"
  BY DEF Look, Pending
<1>2. Stage(s)
  BY <1>1 DEF Inv, StartupInv
<1>3. WholeOrNone /\ OneSeeds
  BY DEF Inv, StartupInv, WholeOrNone
<1>4. CASE asked[s].nth \in made
  <2>1. Answers(s, "ok") /\ UNCHANGED <<looked, open, held, databaseVars>>
    BY <1>4 DEF Look
  <2>2. asked'[s] = asked[s] /\ answer'[s] = "ok"
    BY <2>1 DEF Answers, Inv, TypeOK
  <2>3. Stage(s)'
    BY <1>1, <1>2, <1>4, <2>1, <2>2 DEF Stage
  <2>4. WholeOrNone' /\ OneSeeds'
    BY <1>3, <2>1 DEF WholeOrNone, OneSeeds
  <2>5. /\ looked' \in [Session -> BOOLEAN] /\ open' \subseteq Session
        /\ held' \in [Session -> SUBSET Row] /\ seedings' \in Nat /\ made' \subseteq Object
    BY <2>1 DEF Inv, TypeOK
  <2> QED
    BY <1>1, <2>1, <2>3, <2>4, <2>5, AnswerStep DEF Answer
<1>5. CASE asked[s].nth \notin made
  <2>1. /\ looked' = [looked EXCEPT ![s] = TRUE]
        /\ UNCHANGED <<instanceVars, live, asked, answer, open, held, databaseVars, crashes>>
    BY <1>5 DEF Look
  <2>2. TypeOK'
    BY <2>1 DEF Inv, TypeOK
  <2>3. StartupInv'
    BY <2>1 DEF Inv, StartupInv, Stage, OneSeeds, ServesComplete
  <2> QED
    BY <2>2, <2>3 DEF Inv
<1> QED
  BY <1>4, <1>5

\* CREATE, SELECT count(*) and BEGIN write no row of the demo data.
LEMMA NoRowStep ==
    ASSUME Inv, NEW s \in Session, Create(s) \/ Count(s) \/ Begin(s)
    PROVE  Inv'
<1> USE StartupAssumption DEF databaseVars
<1>1. s \in live /\ answer[s] = "none"
  BY DEF Create, Count, Begin, Pending
<1>2. Stage(s)
  BY <1>1 DEF Inv, StartupInv
<1>3. WholeOrNone /\ OneSeeds
  BY DEF Inv, StartupInv, WholeOrNone
<1>4. UNCHANGED <<held, committed, seedings>>
  BY DEF Create, Count, Begin
<1>5. WholeOrNone' /\ OneSeeds'
  BY <1>3, <1>4 DEF WholeOrNone, OneSeeds
<1>6. held' \in [Session -> SUBSET Row] /\ seedings' \in Nat
  BY <1>4 DEF Inv, TypeOK
<1>7. CASE Create(s)
  <2>1. PICK what \in {"ok", "error"} : Answers(s, what)
    BY <1>7 DEF Create
  <2>2. /\ asked[s].does = "create" /\ asked[s].nth \in Object
        /\ made' = made \cup {asked[s].nth} /\ open' = open
        /\ looked' = [looked EXCEPT ![s] = FALSE]
    BY <1>2, <1>7 DEF Create, Pending, Stage
  <2>3. asked'[s] = asked[s] /\ answer'[s] = what
    BY <2>1 DEF Answers, Inv, TypeOK
  <2>4. Stage(s)'
    BY <1>2, <1>4, <2>2, <2>3 DEF Stage
  <2>5. looked' \in [Session -> BOOLEAN] /\ open' \subseteq Session /\ made' \subseteq Object
    BY <2>2 DEF Inv, TypeOK
  <2> QED
    BY <1>1, <1>4, <1>5, <1>6, <2>1, <2>2, <2>4, <2>5, AnswerStep DEF Answer
<1>8. CASE Count(s)
  <2> DEFINE what == IF committed = {} THEN "empty" ELSE "found"
  <2>1. Answers(s, what) /\ UNCHANGED <<looked, open, made>> /\ asked[s].does = "count"
    BY <1>8 DEF Count, Pending
  <2>2. asked'[s] = asked[s] /\ answer'[s] = what
    BY <2>1 DEF Answers, Inv, TypeOK
  <2>3. what = "found" => committed = Row
    BY <1>3 DEF WholeOrNone
  <2>4. Stage(s)'
    BY <1>2, <1>4, <2>1, <2>2, <2>3 DEF Stage
  <2>5. looked' \in [Session -> BOOLEAN] /\ open' \subseteq Session /\ made' \subseteq Object
    BY <2>1 DEF Inv, TypeOK
  <2>6. what \in Answer
    BY DEF Answer
  <2> QED
    BY <1>1, <1>4, <1>5, <1>6, <2>1, <2>4, <2>5, <2>6, AnswerStep
<1>9. CASE Begin(s)
  <2>1. Answers(s, "ok") /\ UNCHANGED <<looked, made>> /\ open' = open \cup {s} /\ asked[s].does = "begin"
    BY <1>9 DEF Begin, Pending
  <2>2. asked'[s] = asked[s] /\ answer'[s] = "ok"
    BY <2>1 DEF Answers, Inv, TypeOK
  <2>3. Stage(s)'
    BY <1>2, <1>4, <2>1, <2>2 DEF Stage
  <2>4. looked' \in [Session -> BOOLEAN] /\ open' \subseteq Session /\ made' \subseteq Object
    BY <2>1 DEF Inv, TypeOK
  <2> QED
    BY <1>1, <1>4, <1>5, <1>6, <2>1, <2>3, <2>4, AnswerStep DEF Answer
<1> QED
  BY <1>7, <1>8, <1>9

\* The first row goes to one session, while nothing is committed; the others
\* go to the session that has the first.
LEMMA InsertStep ==
    ASSUME Inv, NEW s \in Session, Insert(s)
    PROVE  Inv'
<1> USE StartupAssumption DEF databaseVars
<1> DEFINE n == asked[s].nth
<1>1. s \in live /\ asked[s].does = "insert" /\ answer[s] = "none"
  BY DEF Insert, Pending
<1>2. Stage(s) /\ WholeOrNone /\ OneSeeds
  BY <1>1 DEF Inv, StartupInv, WholeOrNone
<1>3. n \in Row /\ s \in open /\ held[s] = 1 .. (n - 1)
  BY <1>1, <1>2 DEF Stage
<1>4. UNCHANGED <<looked, open, made, seedings>>
  BY DEF Insert
<1>5. CASE n \in committed /\ Answers(s, "error") /\ UNCHANGED <<held, committed>>
  <2>1. asked'[s] = asked[s] /\ answer'[s] = "error"
    BY <1>5 DEF Answers, Inv, TypeOK
  <2>2. Stage(s)'
    BY <1>1, <1>2, <1>4, <1>5, <2>1 DEF Stage
  <2>3. WholeOrNone' /\ OneSeeds'
    BY <1>2, <1>4, <1>5 DEF WholeOrNone, OneSeeds
  <2> QED
    BY <1>1, <1>4, <1>5, <2>2, <2>3, AnswerStep DEF Answer, Inv, TypeOK
<1>6. CASE n \notin committed /\ Answers(s, "ok") /\ Store(s, n)
  <2>1. asked'[s] = asked[s] /\ answer'[s] = "ok"
    BY <1>6 DEF Answers, Inv, TypeOK
  <2>2. committed' = committed /\ held' = [held EXCEPT ![s] = @ \cup {n}]
    BY <1>3, <1>6 DEF Store
  <2>3. held'[s] = 1 .. n /\ \A t \in Session \ {s} : held'[t] = held[t]
    <3>1. 1 .. n = (1 .. (n - 1)) \cup {n}
      BY <1>3 DEF Row
    <3> QED
      BY <1>3, <2>2, <3>1 DEF Inv, TypeOK
  <2>4. Stage(s)'
    BY <1>1, <1>2, <1>3, <1>4, <2>1, <2>2, <2>3 DEF Stage
  <2>5. committed = {}
    BY <1>2, <1>3, <1>6 DEF WholeOrNone
  <2>6. \A t \in Session \ {s} : 1 \notin held[t]
    <3>1. CASE n = 1
      BY <3>1 DEF Insert
    <3>2. CASE n # 1
      <4>1. 1 \in held[s]
        BY <1>3, <3>2 DEF Row
      <4> QED
        BY <1>2, <4>1 DEF OneSeeds
    <3> QED
      BY <3>1, <3>2
  <2>7. 1 \in held'[s]
    BY <1>3, <2>3 DEF Row
  <2>8. OneSeeds'
    BY <1>2, <2>2, <2>3, <2>5, <2>6, <2>7 DEF OneSeeds
  <2>9. WholeOrNone'
    BY <1>2, <1>4, <2>2 DEF WholeOrNone
  <2>10. held' \in [Session -> SUBSET Row]
    BY <1>3, <2>2 DEF Inv, TypeOK
  <2> QED
    BY <1>1, <1>4, <1>6, <2>2, <2>3, <2>4, <2>8, <2>9, <2>10, AnswerStep DEF Answer, Inv, TypeOK
<1> QED
  BY <1>5, <1>6 DEF Insert

\* The session that commits holds all of the rows, and it is the only one that
\* holds any.
LEMMA EndStep ==
    ASSUME Inv, NEW s \in Session, Commit(s) \/ Rollback(s)
    PROVE  Inv'
<1> USE StartupAssumption DEF databaseVars
<1>1. s \in live /\ answer[s] = "none"
  BY DEF Commit, Rollback, Pending
<1>2. Stage(s) /\ WholeOrNone /\ OneSeeds
  BY <1>1 DEF Inv, StartupInv, WholeOrNone
<1>3. Answers(s, "ok") /\ Ends(s) /\ UNCHANGED <<looked, made>>
  BY DEF Commit, Rollback
<1>4. asked'[s] = asked[s] /\ answer'[s] = "ok"
  BY <1>3 DEF Answers, Inv, TypeOK
<1>5. /\ held'[s] = {} /\ held' \in [Session -> SUBSET Row] /\ open' \subseteq Session
      /\ \A t \in Session \ {s} : held'[t] = held[t] /\ (t \in open' <=> t \in open)
  BY <1>3 DEF Ends, Inv, TypeOK
<1>6. CASE Commit(s)
  <2>1. asked[s].does = "commit" /\ held[s] = Row /\ 1 \in Row
    BY <1>1, <1>2, <1>6 DEF Commit, Pending, Stage, Row
  <2>2. committed = {} /\ seedings = 0
    BY <1>2, <2>1 DEF OneSeeds, WholeOrNone
  <2>3. committed' = Row /\ seedings' = 1
    BY <1>6, <2>1, <2>2 DEF Commit
  <2>4. \A t \in Session : held'[t] = {}
    BY <1>2, <1>5, <2>1 DEF OneSeeds
  <2>5. Stage(s)'
    BY <1>2, <1>3, <1>4, <1>5, <2>1, <2>3 DEF Stage
  <2>6. OneSeeds' /\ WholeOrNone'
    BY <2>3, <2>4 DEF OneSeeds, WholeOrNone
  <2> QED
    BY <1>1, <1>3, <1>5, <2>3, <2>5, <2>6, AnswerStep DEF Answer, Inv, TypeOK
<1>7. CASE Rollback(s)
  <2>1. asked[s].does = "rollback" /\ UNCHANGED <<committed, seedings>>
    BY <1>7 DEF Rollback, Pending
  <2>2. Stage(s)'
    BY <1>2, <1>3, <1>4, <1>5, <2>1 DEF Stage
  <2>3. OneSeeds' /\ WholeOrNone'
    BY <1>2, <1>5, <2>1 DEF OneSeeds, WholeOrNone
  <2> QED
    BY <1>1, <1>3, <1>5, <2>1, <2>2, <2>3, AnswerStep DEF Answer, Inv, TypeOK
<1> QED
  BY <1>6, <1>7

LEMMA SessionEndsStep ==
    ASSUME Inv, NEW s \in Session, SessionEnds(s)
    PROVE  Inv'
<1> USE DEF SessionEnds, Ends, databaseVars, instanceVars
<1>1. TypeOK'
  BY DEF Inv, TypeOK
<1>2. \A t \in Session \ {s} : held'[t] = held[t] /\ (t \in open' <=> t \in open)
  BY DEF Inv, TypeOK
<1>3. held'[s] = {} /\ s \notin open'
  BY DEF Inv, TypeOK
<1>4. \A t \in live' : Stage(t)'
  <2> SUFFICES ASSUME NEW t \in live \ {s}
               PROVE  Stage(t)'
    OBVIOUS
  <2> QED
    BY <1>2, StageKept DEF Inv, TypeOK
<1>5. /\ \A j \in Instance : at'[j] \subseteq live'
      /\ \A t \in Session \ live' : held'[t] = {} /\ t \notin open'
  BY <1>2, <1>3 DEF Inv, StartupInv
<1>6. OneSeeds' /\ WholeOrNone' /\ ServesComplete'
  BY <1>2, <1>3 DEF Inv, StartupInv, OneSeeds, WholeOrNone, ServesComplete
<1> QED
  BY <1>1, <1>4, <1>5, <1>6 DEF Inv, StartupInv, WholeOrNone

-----------------------------------------------------------------------------
LEMMA NextInv == Inv /\ [Next]_vars => Inv'
<1> SUFFICES ASSUME Inv, [Next]_vars
             PROVE  Inv'
  OBVIOUS
<1>1. ASSUME NEW i \in Instance, InstanceStep(i) \/ GivesUp(i)
      PROVE  Inv'
  BY <1>1, StartStep, ApplyStep, SeedStep, ServeStep, FailsStep, GivesUpStep DEF InstanceStep
<1>2. ASSUME NEW i \in Instance, Crash(i)
      PROVE  Inv'
  BY <1>2, ExitStep, StartupAssumption DEF Crash, Budget, Inv, TypeOK
<1>3. ASSUME NEW s \in Session, ServerStep(s)
      PROVE  Inv'
  BY <1>3, LookStep, NoRowStep, InsertStep, EndStep, SessionEndsStep DEF ServerStep
<1>4. CASE UNCHANGED vars
  BY <1>4 DEF vars, instanceVars, sessionVars, databaseVars, Inv, TypeOK, StartupInv, Stage,
              OneSeeds, ServesComplete
<1> QED
  BY <1>1, <1>2, <1>3, <1>4 DEF Next, Settled

THEOREM AlwaysInv == Spec => []Inv
<1> QED
  BY InitInv, NextInv, PTL DEF Spec

\* The variables keep their types, and every session's stage tells what exists
\* and who seeds: sessions of crashed instances included.
THEOREM StartupAlwaysConsistent == Spec => [](TypeOK /\ StartupInv)
<1>1. Inv => TypeOK /\ StartupInv
  BY DEF Inv
<1> QED
  BY <1>1, AlwaysInv, PTL

\* However many instances start, crash and start again, one transaction seeds.
THEOREM AlwaysSeededOnce == Spec => []SeededOnce
<1>1. Inv => SeededOnce
  BY DEF Inv, StartupInv, SeededOnce
<1> QED
  BY <1>1, AlwaysInv, PTL

\* Nobody serves without the whole schema and all of the demo data.
THEOREM AlwaysServesComplete == Spec => []ServesComplete
<1>1. Inv => ServesComplete
  BY DEF Inv, StartupInv
<1> QED
  BY <1>1, AlwaysInv, PTL

(* Instances, sessions and the database keep their types at every step     *)
(* (schema.go, postgres_repository.go:36-131).                             *)
THEOREM StartupTypes == Spec => []TypeOK
  BY StartupAlwaysConsistent, PTL
=============================================================================
