----------------------------- MODULE PoolProofs -----------------------------
(***************************************************************************)
(* The pool, its connections and the goroutines, for any number of each,   *)
(* any limits, and any number of statements in a transaction.              *)
(***************************************************************************)
EXTENDS Pool, TLAPS

Inv == TypeOK /\ PoolInv

-----------------------------------------------------------------------------
\* One message, and two of them.
LEMMA One ==
    ASSUME NEW a
    PROVE  /\ Head(<<a>>) = a /\ Tail(<<a>>) = <<>> /\ <<a>> # <<>>
           /\ Append(<<>>, a) = <<a>> /\ <<>> \o <<a>> = <<a>>
           /\ \A b : <<a>> = <<b>> => a = b
           /\ DOMAIN <<a>> = {1} /\ <<a>>[1] = a
  OBVIOUS

LEMMA Two ==
    ASSUME NEW a, NEW b
    PROVE  /\ Head(<<a, b>>) = a /\ Tail(<<a, b>>) = <<b>> /\ <<a, b>> # <<>>
           /\ <<>> \o <<a, b>> = <<a, b>>
           /\ \A c : <<a, b>> # <<c>>
           /\ DOMAIN <<a, b>> = {1, 2} /\ <<a, b>>[1] = a /\ <<a, b>>[2] = b
  OBVIOUS

LEMMA MsgType ==
    ASSUME NEW typ \in {"cleartext", "md5", "scram", "error", "complete", "ready"},
           NEW q \in Query
    PROVE  /\ Msg(typ, q) \in Message /\ Msg(typ, q).typ = typ /\ Msg(typ, q).of = q
  BY DEF Msg, Message

LEMMA QueryType ==
    ASSUME NEW k \in Client,
           NEW does \in {"startup", "password", "read", "begin", "stmt", "commit", "rollback"}
    PROVE  <<k, does>> \in Query
  BY DEF Query

LEMMA InitInv == Init => Inv
<1> SUFFICES ASSUME Init
             PROVE  Inv
  OBVIOUS
<1> USE DEF Init, WireInit
<1>1. TypeOK
  BY PoolAssumption DEF TypeOK, WireTypeOK
<1>2. Ownership /\ \A k \in Client : Progress(k)
  BY PoolAssumption DEF Ownership, Progress
<1>3. \A c \in Conn : Sending(c) /\ reply[c] = <<>>
  BY DEF Sending
<1>4. FreeIsClean /\ OutcomesAreTrue
  BY DEF FreeIsClean, OutcomesAreTrue
<1> QED
  BY <1>1, <1>2, <1>3, <1>4 DEF Inv, PoolInv

-----------------------------------------------------------------------------
\* What a step leaves alone.

LEMMA TalkKept ==
    ASSUME NEW k, NEW c, Talk(k, c),
           pc'[k] = pc[k], failed'[k] = failed[k], reply'[c] = reply[c],
           link'[c] = "up" =>
             link[c] = "up" /\ sent'[c] = sent[c] /\ session'[c] = session[c],
           committed \subseteq committed'
    PROVE  Talk(k, c)'
<1>1. Greeted(k, c) => Greeted(k, c)'
  BY DEF Greeted
<1>2. Erred(k, c)' <=> Erred(k, c)
  BY DEF Erred
<1>3. Answered(k, c) => Answered(k, c)'
  BY <1>2 DEF Answered
<1>4. Unanswered(k, c) => Unanswered(k, c)'
  BY DEF Unanswered
<1> QED
  BY <1>1, <1>3, <1>4 DEF Talk, Quiet

LEMMA SendingKept ==
    ASSUME NEW c, Sending(c), sent'[c] = sent[c] \/ sent'[c] = <<>>,
           \A k \in Client : pc[k] \in {"commit", "done"} /\ executed[k] = Statements =>
                pc'[k] \in {"commit", "done"} /\ executed'[k] = Statements
    PROVE  Sending(c)'
  BY DEF Sending

\* A goroutine goes on with its connection.
LEMMA StayStep ==
    ASSUME Inv, NEW k \in Client, NEW c \in at[k],
           TypeOK',
           UNCHANGED <<link, session, committed, free, at, result>>,
           \A d \in Conn \ {c} : sent'[d] = sent[d] /\ reply'[d] = reply[d],
           \A l \in Client \ {k} :
             pc'[l] = pc[l] /\ failed'[l] = failed[l] /\ executed'[l] = executed[l],
           \/ pc[k] \notin {"commit", "done"}
           \/ pc'[k] = pc[k] /\ executed'[k] = executed[k],
           pc'[k] \notin {"wait", "done"}, pc[k] # "done",
           Progress(k)', Sending(c)', Talk(k, c)'
    PROVE  Inv'
<1>1. c \in Conn /\ c \notin free /\ link[c] # "none"
  BY DEF Inv, TypeOK, PoolInv, Ownership
<1>2. Ownership'
  BY DEF Inv, PoolInv, Ownership
<1>3. \A l \in Client : Progress(l)'
  BY DEF Inv, PoolInv, Progress
<1>4. \A d \in Conn : Sending(d)'
  <2> SUFFICES ASSUME NEW d \in Conn \ {c}
               PROVE  Sending(d)'
    OBVIOUS
  <2> QED
    BY SendingKept DEF Inv, PoolInv
<1>5. \A d \in Conn : d \in free' \/ link'[d] = "none" => reply'[d] = <<>>
  BY <1>1 DEF Inv, PoolInv
<1>6. ASSUME NEW l \in Client, NEW d \in at'[l]
      PROVE  Talk(l, d)'
  <2>1. CASE d = c
    BY <2>1, <1>1 DEF Inv, PoolInv, Ownership
  <2>2. CASE d # c
    <3>1. l # k /\ d \in Conn /\ Talk(l, d)
      BY <2>2 DEF Inv, PoolInv, Ownership, TypeOK
    <3> QED
      BY <2>2, <3>1, TalkKept
  <2> QED
    BY <2>1, <2>2
<1>7. FreeIsClean'
  BY <1>1 DEF Inv, PoolInv, FreeIsClean, TypeOK
<1>8. OutcomesAreTrue'
  BY DEF Inv, PoolInv, OutcomesAreTrue, Progress
<1> QED
  BY <1>2, <1>3, <1>4, <1>5, <1>6, <1>7, <1>8 DEF Inv, PoolInv

\* A goroutine is done with its connection, which goes back or is closed.
LEMMA LeaveStep ==
    ASSUME Inv, NEW k \in Client, NEW c \in at[k],
           TypeOK',
           UNCHANGED <<sent, session, committed, executed>>,
           at' = [at EXCEPT ![k] = {}], pc' = [pc EXCEPT ![k] = "done"],
           reply' = [reply EXCEPT ![c] = <<>>],
           \A l \in Client \ {k} : failed'[l] = failed[l] /\ result'[l] = result[l],
           \/ /\ free' = free \cup {c} /\ link' = link
              /\ link[c] = "up" => session[c] = "idle" /\ sent[c] = <<>>
           \/ free' = free /\ link' = [link EXCEPT ![c] = "none"],
           result'[k] = "ok" /\ executed[k] = Statements => k \in committed,
           pc[k] # "done"
    PROVE  Inv'
<1>1. c \in Conn /\ c \notin free /\ link[c] # "none" /\ at[k] = {c}
  BY DEF Inv, TypeOK, PoolInv, Ownership
<1>2. /\ \A l \in Client \ {k} : pc'[l] = pc[l] /\ at'[l] = at[l] /\ c \notin at[l]
      /\ pc'[k] = "done" /\ at'[k] = {}
  BY DEF Inv, TypeOK, PoolInv, Ownership
<1>3. /\ \A d \in Conn \ {c} : reply'[d] = reply[d] /\ link'[d] = link[d]
      /\ reply'[c] = <<>>
      /\ c \in free' => link'[c] = link[c]
      /\ c \notin free' => link'[c] = "none"
  BY <1>1 DEF Inv, TypeOK, WireTypeOK
<1>4. Ownership'
  <2>1. \A d \in Conn : link'[d] = "none" <=> d \notin free' /\ \A l \in Client : d \notin at'[l]
    <3> SUFFICES ASSUME NEW d \in Conn
                 PROVE  link'[d] = "none" <=> d \notin free' /\ \A l \in Client : d \notin at'[l]
      OBVIOUS
    <3>1. CASE d = c
      BY <1>1, <1>2, <1>3, <3>1
    <3>2. CASE d # c
      BY <1>1, <1>2, <1>3, <3>2 DEF Inv, PoolInv, Ownership
    <3> QED
      BY <3>1, <3>2
  <2>2. \A l \in Client :
          /\ at'[l] \cap free' = {}
          /\ \A o \in Client \ {l} : at'[l] \cap at'[o] = {}
          /\ \A d, e \in at'[l] : d = e
          /\ pc'[l] \in {"wait", "done"} => at'[l] = {}
    BY <1>1, <1>2 DEF Inv, PoolInv, Ownership
  <2> QED
    BY <2>1, <2>2 DEF Ownership
<1>5. \A l \in Client : Progress(l)'
  BY <1>2 DEF Inv, PoolInv, Progress
<1>6. \A d \in Conn : Sending(d)'
  BY <1>2, SendingKept DEF Inv, PoolInv
<1>7. \A d \in Conn : d \in free' \/ link'[d] = "none" => reply'[d] = <<>>
  BY <1>3 DEF Inv, PoolInv
<1>8. ASSUME NEW l \in Client, NEW d \in at'[l]
      PROVE  Talk(l, d)'
  <2>1. l # k /\ d \in at[l] /\ d \in Conn \ {c} /\ Talk(l, d)
    BY <1>2 DEF Inv, PoolInv, TypeOK
  <2> QED
    BY <1>2, <1>3, <2>1, TalkKept
<1>9. FreeIsClean'
  BY <1>1, <1>3 DEF Inv, PoolInv, FreeIsClean, TypeOK
<1>10. OutcomesAreTrue'
  BY <1>2 DEF Inv, PoolInv, OutcomesAreTrue
<1> QED
  BY <1>4, <1>5, <1>6, <1>7, <1>8, <1>9, <1>10 DEF Inv, PoolInv

\* A waiting goroutine gets a connection from the pool, or a new one.
LEMMA TakeStep ==
    ASSUME Inv, NEW k \in Client, NEW c \in Conn,
           TypeOK', pc[k] = "wait",
           c \in free \/ link[c] = "none",
           free' = free \ {c}, at' = [at EXCEPT ![k] = {c}],
           UNCHANGED <<reply, committed, failed, executed, result>>,
           \A l \in Client \ {k} : pc'[l] = pc[l],
           pc'[k] \in {"dial", "held"}, link'[c] # "none",
           \A d \in Conn \ {c} : link'[d] = link[d] /\ session'[d] = session[d] /\ sent'[d] = sent[d],
           Sending(c)', Talk(k, c)'
    PROVE  Inv'
<1>1. at[k] = {} /\ reply[c] = <<>> /\ \A l \in Client : c \notin at[l]
  BY DEF Inv, PoolInv, Ownership
<1>2. at'[k] = {c} /\ \A l \in Client \ {k} : at'[l] = at[l]
  BY DEF Inv, TypeOK
<1>3. Ownership'
  <2>1. \A d \in Conn : link'[d] = "none" <=> d \notin free' /\ \A l \in Client : d \notin at'[l]
    <3> SUFFICES ASSUME NEW d \in Conn
                 PROVE  link'[d] = "none" <=> d \notin free' /\ \A l \in Client : d \notin at'[l]
      OBVIOUS
    <3>1. CASE d = c
      BY <1>2, <3>1
    <3>2. CASE d # c
      BY <1>1, <1>2, <3>2 DEF Inv, PoolInv, Ownership
    <3> QED
      BY <3>1, <3>2
  <2>2. \A l \in Client :
          /\ at'[l] \cap free' = {}
          /\ \A o \in Client \ {l} : at'[l] \cap at'[o] = {}
          /\ \A d, e \in at'[l] : d = e
          /\ pc'[l] \in {"wait", "done"} => at'[l] = {}
    BY <1>1, <1>2 DEF Inv, PoolInv, Ownership
  <2> QED
    BY <2>1, <2>2 DEF Ownership
<1>4. \A l \in Client : Progress(l)'
  BY DEF Inv, PoolInv, Progress
<1>5. \A d \in Conn : Sending(d)'
  <2> SUFFICES ASSUME NEW d \in Conn \ {c}
               PROVE  Sending(d)'
    OBVIOUS
  <2> QED
    BY SendingKept DEF Inv, PoolInv
<1>6. \A d \in Conn : d \in free' \/ link'[d] = "none" => reply'[d] = <<>>
  BY <1>1 DEF Inv, PoolInv
<1>7. ASSUME NEW l \in Client, NEW d \in at'[l]
      PROVE  Talk(l, d)'
  <2>1. CASE l = k
    BY <1>2, <2>1
  <2>2. CASE l # k
    <3>1. d \in at[l] /\ d \in Conn \ {c} /\ Talk(l, d)
      BY <1>1, <1>2, <2>2 DEF Inv, PoolInv, TypeOK
    <3> QED
      BY <2>2, <3>1, TalkKept
  <2> QED
    BY <2>1, <2>2
<1>8. FreeIsClean'
  BY DEF Inv, PoolInv, FreeIsClean, TypeOK
<1>9. OutcomesAreTrue'
  BY DEF Inv, PoolInv, OutcomesAreTrue, Progress
<1> QED
  BY <1>3, <1>4, <1>5, <1>6, <1>7, <1>8, <1>9 DEF Inv, PoolInv

\* The server answers, or the connection changes while nobody acts.
LEMMA WireStep ==
    ASSUME Inv, NEW c \in Conn,
           TypeOK',
           UNCHANGED <<pc, at, failed, executed, result, free>>,
           \A d \in Conn : link'[d] = "none" <=> link[d] = "none",
           \A d \in Conn \ {c} : /\ link'[d] = link[d] /\ session'[d] = session[d]
                                 /\ sent'[d] = sent[d] /\ reply'[d] = reply[d],
           sent'[c] = sent[c] \/ sent'[c] = <<>>,
           committed \subseteq committed',
           \A k \in committed' : pc[k] \in {"commit", "done"} /\ executed[k] = Statements,
           c \in free \/ link[c] = "none" => reply'[c] = <<>>,
           c \in free /\ link'[c] = "up" => session'[c] = "idle" /\ sent'[c] = <<>>,
           \A k \in Client : c \in at[k] => Talk(k, c)'
    PROVE  Inv'
<1>1. Ownership'
  BY DEF Inv, PoolInv, Ownership
<1>2. \A k \in Client : Progress(k)'
  BY DEF Inv, PoolInv, Progress
<1>3. \A d \in Conn : Sending(d)'
  BY SendingKept DEF Inv, PoolInv
<1>4. \A d \in Conn : d \in free' \/ link'[d] = "none" => reply'[d] = <<>>
  BY DEF Inv, PoolInv
<1>5. ASSUME NEW k \in Client, NEW d \in at'[k]
      PROVE  Talk(k, d)'
  <2>1. CASE d = c
    BY <2>1
  <2>2. CASE d # c
    <3>1. d \in Conn /\ Talk(k, d)
      BY DEF Inv, PoolInv, TypeOK
    <3> QED
      BY <2>2, <3>1, TalkKept
  <2> QED
    BY <2>1, <2>2
<1>6. FreeIsClean'
  <2> SUFFICES ASSUME NEW d \in Conn, d \in free', link'[d] = "up"
               PROVE  session'[d] = "idle" /\ sent'[d] = <<>> /\ reply'[d] = <<>>
    BY DEF FreeIsClean, Inv, TypeOK
  <2>1. CASE d = c
    BY <1>4, <2>1
  <2>2. CASE d # c
    BY <1>4, <2>2 DEF Inv, PoolInv, FreeIsClean
  <2> QED
    BY <2>1, <2>2
<1>7. OutcomesAreTrue'
  BY DEF Inv, PoolInv, OutcomesAreTrue
<1> QED
  BY <1>1, <1>2, <1>3, <1>4, <1>5, <1>6, <1>7 DEF Inv, PoolInv

-----------------------------------------------------------------------------
\* The server.

\* What a session whose connection is up has to answer, and to whom.
LEMMA AskedOfServer ==
    ASSUME Inv, NEW c \in Conn, sent[c] # <<>>
    PROVE  \E k \in Client, does \in {"startup", "password"} \cup Asking :
             /\ sent[c] = <<<<k, does>>>> /\ Head(sent[c]) = <<k, does>> /\ Tail(sent[c]) = <<>>
             /\ does = "commit" => pc[k] \in {"commit", "done"} /\ executed[k] = Statements
             /\ link[c] = "up" => c \in at[k] /\ reply[c] = <<>>
<1>1. PICK k \in Client, does \in {"startup", "password"} \cup Asking :
        /\ sent[c] = <<<<k, does>>>>
        /\ does = "commit" => pc[k] \in {"commit", "done"} /\ executed[k] = Statements
  BY DEF Inv, PoolInv, Sending
<1>2. Head(sent[c]) = <<k, does>> /\ Tail(sent[c]) = <<>>
  BY <1>1, One
<1>3. ASSUME link[c] = "up"
      PROVE  c \in at[k] /\ reply[c] = <<>>
  <2>1. c \notin free
    BY <1>3 DEF Inv, PoolInv, FreeIsClean
  <2>2. PICK l \in Client : c \in at[l]
    BY <1>3, <2>1 DEF Inv, PoolInv, Ownership
  <2>3. Talk(l, c) /\ pc[l] \notin {"wait", "done"}
    BY <2>2 DEF Inv, PoolInv, Ownership
  <2>4. /\ pc[l] \in {"dial", "held", "tx", "undo"} \cup Asking
        /\ pc[l] \notin {"held", "tx", "undo"}
    BY <1>3, <2>3 DEF Talk, Quiet, Inv, TypeOK
  <2>5. reply[c] = <<>> /\ \E d : sent[c] = <<<<l, d>>>>
    <3>1. CASE pc[l] = "dial"
      <4>1. Greeted(l, c)
        BY <2>3, <3>1 DEF Talk
      <4> QED
        BY <1>3, <4>1 DEF Greeted
    <3>2. CASE pc[l] \in Asking
      <4>1. ~ Answered(l, c)
        BY <1>3 DEF Answered
      <4>2. Unanswered(l, c)
        BY <2>3, <3>2, <4>1 DEF Talk
      <4> QED
        BY <1>3, <4>2 DEF Unanswered
    <3> QED
      BY <2>4, <3>1, <3>2
  <2>6. l = k
    BY <1>1, <2>5, One
  <2> QED
    BY <2>2, <2>5, <2>6
<1> QED
  BY <1>1, <1>2, <1>3

LEMMA BreakStep ==
    ASSUME Inv, NEW c \in Conn, Break(c), UNCHANGED <<poolVars, clientVars>>
    PROVE  Inv'
<1> USE DEF Break, poolVars, clientVars
<1>1. TypeOK' /\ link' = [link EXCEPT ![c] = "down"] /\ link'[c] = "down"
  BY DEF Inv, TypeOK, WireTypeOK
<1>2. \A d \in Conn : link'[d] = "none" <=> link[d] = "none"
  BY DEF Inv, TypeOK, WireTypeOK
<1>3. \A k \in Client : c \in at[k] => Talk(k, c)'
  BY <1>1, TalkKept DEF Inv, PoolInv
<1>4. \A d \in Conn \ {c} : link'[d] = link[d]
  BY <1>1 DEF Inv, TypeOK, WireTypeOK
<1>5. \A k \in committed' : pc[k] \in {"commit", "done"} /\ executed[k] = Statements
  BY DEF Inv, PoolInv, OutcomesAreTrue, TypeOK, WireTypeOK
<1>6. c \in free \/ link[c] = "none" => reply'[c] = <<>>
  BY DEF Inv, PoolInv
<1> QED
  BY <1>1, <1>2, <1>3, <1>4, <1>5, <1>6, WireStep

LEMMA SessionEndsStep ==
    ASSUME Inv, NEW c \in Conn, SessionEnds(c), UNCHANGED <<poolVars, clientVars>>
    PROVE  Inv'
<1> USE DEF SessionEnds, poolVars, clientVars
<1>1. TypeOK' /\ sent'[c] = <<>>
  BY DEF Inv, TypeOK, WireTypeOK
<1>2. \A d \in Conn \ {c} : session'[d] = session[d] /\ sent'[d] = sent[d]
  BY DEF Inv, TypeOK, WireTypeOK
<1>3. \A k \in Client : c \in at[k] => Talk(k, c)'
  BY <1>1, TalkKept DEF Inv, PoolInv
<1>4. \A k \in committed' : pc[k] \in {"commit", "done"} /\ executed[k] = Statements
  BY DEF Inv, PoolInv, OutcomesAreTrue, TypeOK, WireTypeOK
<1>5. c \in free \/ link[c] = "none" => reply'[c] = <<>>
  BY DEF Inv, PoolInv
<1> QED
  BY <1>1, <1>2, <1>3, <1>4, <1>5, WireStep

\* An answer goes to who asked, or to nobody.
LEMMA AnswerStep ==
    ASSUME Inv, NEW c \in Conn, NEW to \in {"none", "auth", "idle", "open", "failed"},
           NEW messages \in Seq(Message),
           sent[c] # <<>>, Answer(c, to, messages),
           UNCHANGED <<poolVars, clientVars>>,
           committed' \subseteq Client, committed \subseteq committed',
           \A k \in committed' : pc[k] \in {"commit", "done"} /\ executed[k] = Statements,
           \A k \in Client :
             /\ c \in at[k] /\ link[c] = "up" /\ link'[c] = "up"
             /\ reply'[c] = messages /\ session'[c] = to /\ sent'[c] = <<>>
             => Talk(k, c)'
    PROVE  Inv'
<1> USE DEF Answer, poolVars, clientVars
<1>1. /\ sent'[c] = Tail(sent[c]) /\ session'[c] = to
      /\ reply'[c] = IF link[c] = "up" THEN reply[c] \o messages ELSE reply[c]
      /\ \A d \in Conn \ {c} : sent'[d] = sent[d] /\ session'[d] = session[d] /\ reply'[d] = reply[d]
  BY DEF Inv, TypeOK, WireTypeOK
<1>2. Tail(sent[c]) = <<>>
  BY AskedOfServer
<1>3. link[c] = "up" => reply'[c] = messages /\ c \notin free
  <2>1. ASSUME link[c] = "up"
        PROVE  reply[c] = <<>> /\ \E k \in Client : c \in at[k]
    BY <2>1, AskedOfServer
  <2>2. <<>> \o messages = messages
    OBVIOUS
  <2> QED
    BY <1>1, <2>1, <2>2 DEF Inv, PoolInv, Ownership
<1>4. TypeOK'
  <2>1. session' \in [Conn -> {"none", "start", "auth", "idle", "open", "failed"}]
    BY DEF Inv, TypeOK, WireTypeOK
  <2>2. sent' \in [Conn -> Seq(Query)]
    <3>1. Tail(sent[c]) \in Seq(Query)
      BY DEF Inv, TypeOK, WireTypeOK
    <3> QED
      BY <3>1 DEF Inv, TypeOK, WireTypeOK
  <2>3. reply' \in [Conn -> Seq(Message)]
    <3>1. reply[c] \o messages \in Seq(Message)
      BY DEF Inv, TypeOK, WireTypeOK
    <3> QED
      BY <3>1 DEF Inv, TypeOK, WireTypeOK
  <2> QED
    BY <2>1, <2>2, <2>3 DEF Inv, TypeOK, WireTypeOK
<1>5. \A k \in Client : c \in at[k] => Talk(k, c)'
  <2> SUFFICES ASSUME NEW k \in Client, c \in at[k]
               PROVE  Talk(k, c)'
    OBVIOUS
  <2>1. CASE link[c] = "up"
    BY <1>1, <1>2, <1>3, <2>1
  <2>2. CASE link[c] # "up"
    BY <1>1, <2>2, TalkKept DEF Inv, PoolInv
  <2> QED
    BY <2>1, <2>2
<1>6. c \in free \/ link[c] = "none" => reply'[c] = <<>>
  BY <1>1, <1>3 DEF Inv, PoolInv
<1> QED
  BY <1>1, <1>2, <1>3, <1>4, <1>5, <1>6, WireStep

LEMMA GreetStep ==
    ASSUME Inv, NEW c \in Conn, Greet(c) \/ CheckPassword(c),
           UNCHANGED <<poolVars, clientVars>>
    PROVE  Inv'
<1>1. sent[c] # <<>> /\ session[c] \in {"start", "auth"} /\ committed' = committed
  BY DEF Greet, CheckPassword
<1>2. PICK k \in Client, does \in {"startup", "password"} \cup Asking :
        /\ Head(sent[c]) = <<k, does>> /\ sent[c] = <<<<k, does>>>>
        /\ link[c] = "up" => c \in at[k] /\ reply[c] = <<>>
  BY <1>1, AskedOfServer
<1>3. <<k, does>> \in Query
  BY QueryType DEF Asking
<1>4. PICK typ \in {"cleartext", "md5", "scram", "error", "ready"}, to \in {"none", "auth", "idle"} :
        /\ Answer(c, to, <<Msg(typ, <<k, does>>)>>)
        /\ typ = "ready" => to = "idle"
        /\ typ \in {"cleartext", "md5"} => to = "auth"
  BY <1>2, WireAssumption DEF Greet, CheckPassword
<1>5. Msg(typ, <<k, does>>) \in Message /\ Msg(typ, <<k, does>>).typ = typ
  BY <1>3, MsgType
<1>6. ASSUME NEW l \in Client, c \in at[l], link[c] = "up", link'[c] = "up",
             reply'[c] = <<Msg(typ, <<k, does>>)>>, session'[c] = to, sent'[c] = <<>>
      PROVE  Talk(l, c)'
  <2>1. l = k
    BY <1>2, <1>6 DEF Inv, PoolInv, Ownership
  <2>2. Talk(k, c)
    BY <1>6, <2>1 DEF Inv, PoolInv
  <2>3. pc[k] = "dial"
    <3>1. pc[k] \notin {"wait", "done"}
      BY <1>6, <2>1 DEF Inv, PoolInv, Ownership
    <3>2. pc[k] \notin {"held", "tx", "undo"}
      BY <1>1, <1>6, <2>2 DEF Talk, Quiet
    <3>3. pc[k] \notin Asking
      <4>1. ~ Answered(k, c)
        BY <1>1, <1>6 DEF Answered
      <4>2. ~ Unanswered(k, c) \/ pc[k] \notin Asking
        BY <1>1, <1>6 DEF Unanswered, Asking
      <4> QED
        BY <2>2, <4>1, <4>2 DEF Talk
    <3> QED
      BY <3>1, <3>2, <3>3 DEF Inv, TypeOK
  <2>4. does \in {"startup", "password"}
    <3>1. Greeted(k, c)
      BY <2>2, <2>3 DEF Talk
    <3>2. sent[c] = <<<<k, "startup">>>> \/ sent[c] = <<<<k, "password">>>>
      BY <1>1, <1>6, <3>1 DEF Greeted
    <3> QED
      BY <1>2, <3>2, One
  <2>5. Head(reply'[c]) = Msg(typ, <<k, does>>) /\ reply'[c] # <<>>
    BY <1>6, One
  <2>6. Greeted(k, c)'
    BY <1>4, <1>5, <1>6, <2>4, <2>5 DEF Greeted
  <2>7. pc'[k] = "dial"
    BY <2>3 DEF clientVars
  <2> QED
    BY <2>1, <2>6, <2>7 DEF Talk, Asking
<1>7. \A l \in committed' : pc[l] \in {"commit", "done"} /\ executed[l] = Statements
  BY <1>1 DEF Inv, PoolInv, OutcomesAreTrue, TypeOK, WireTypeOK
<1>8. committed' \subseteq Client
  BY <1>1 DEF Inv, TypeOK, WireTypeOK
<1>9. <<Msg(typ, <<k, does>>)>> \in Seq(Message)
  BY <1>5
<1> QED
  BY <1>1, <1>4, <1>6, <1>7, <1>8, <1>9, AnswerStep

LEMMA ExecuteStep ==
    ASSUME Inv, NEW c \in Conn, Execute(c), UNCHANGED <<poolVars, clientVars>>
    PROVE  Inv'
<1>1. sent[c] # <<>> /\ session[c] \in {"idle", "open", "failed"}
  BY DEF Execute
<1>2. PICK k \in Client, does \in {"startup", "password"} \cup Asking :
        /\ Head(sent[c]) = <<k, does>> /\ sent[c] = <<<<k, does>>>>
        /\ does = "commit" => pc[k] \in {"commit", "done"} /\ executed[k] = Statements
        /\ link[c] = "up" => c \in at[k] /\ reply[c] = <<>>
  BY <1>1, AskedOfServer
<1> DEFINE q == <<k, does>>
<1>3. q \in Query /\ q[1] = k /\ q[2] = does
  BY QueryType DEF Asking
<1>4. PICK typ \in {"complete", "error"}, to \in {"idle", "open", "failed"} :
        /\ Answer(c, to, <<Msg(typ, q), Msg("ready", q)>>)
        /\ typ = "complete" => Succeeds(session[c], does, to)
        /\ typ = "error" => Fails(session[c], does, to)
        /\ committed' = IF typ = "complete" /\ does = "commit" /\ session[c] = "open"
                        THEN committed \cup {k} ELSE committed
  <2>1. CASE \E to \in {"idle", "open"} :
               /\ Succeeds(session[c], q[2], to)
               /\ Answer(c, to, <<Msg("complete", q), Msg("ready", q)>>)
               /\ committed' = IF q[2] = "commit" /\ session[c] = "open"
                               THEN committed \cup {q[1]} ELSE committed
    BY <1>3, <2>1
  <2>2. CASE \E to \in {"idle", "failed"} :
               /\ Fails(session[c], q[2], to)
               /\ Answer(c, to, <<Msg("error", q), Msg("ready", q)>>)
               /\ UNCHANGED committed
    BY <1>3, <2>2
  <2> QED
    BY <1>2, <2>1, <2>2 DEF Execute
<1>5. /\ Msg(typ, q) \in Message /\ Msg(typ, q).typ = typ
      /\ Msg("ready", q) \in Message
  BY <1>3, MsgType
<1>6. ASSUME NEW l \in Client, c \in at[l], link[c] = "up", link'[c] = "up",
             reply'[c] = <<Msg(typ, q), Msg("ready", q)>>, session'[c] = to, sent'[c] = <<>>
      PROVE  Talk(l, c)'
  <2>1. l = k
    BY <1>2, <1>6 DEF Inv, PoolInv, Ownership
  <2>2. Talk(k, c)
    BY <1>6, <2>1 DEF Inv, PoolInv
  <2>3. pc[k] \in Asking /\ Unanswered(k, c)
    <3>1. pc[k] \notin {"wait", "done"}
      BY <1>6, <2>1 DEF Inv, PoolInv, Ownership
    <3>2. pc[k] \notin {"held", "tx", "undo"}
      BY <1>1, <1>6, <2>2 DEF Talk, Quiet
    <3>3. pc[k] # "dial"
      BY <1>1, <1>6, <2>2 DEF Talk, Greeted
    <3>4. ~ Answered(k, c)
      BY <1>1, <1>6 DEF Answered
    <3> QED
      BY <2>2, <3>1, <3>2, <3>3, <3>4 DEF Talk, Inv, TypeOK
  <2>4. does = pc[k] /\ ~ failed[k]
    <3>1. sent[c] = <<<<k, pc[k]>>>> /\ ~ failed[k]
      BY <1>6, <2>3 DEF Unanswered
    <3> QED
      BY <1>2, <3>1, One
  <2>5. Head(reply'[c]) = Msg(typ, q)
    BY <1>6, Two
  <2>6. pc'[k] = pc[k] /\ failed'[k] = failed[k]
    BY DEF clientVars
  <2>7. Erred(k, c)' <=> typ = "error"
    BY <1>5, <2>4, <2>5, <2>6 DEF Erred
  <2>8. /\ does \in {"read", "begin"} => session[c] = "idle"
        /\ does \in {"stmt", "commit"} => session[c] = "open"
        /\ does = "rollback" => session[c] \in {"open", "failed"}
    BY <1>6, <2>3, <2>4 DEF Unanswered
  <2>9. /\ does = "begin" => to = "open" /\ typ = "complete"
        /\ does = "stmt" => to = IF typ = "error" THEN "failed" ELSE "open"
        /\ does \in {"read", "commit", "rollback"} => to = "idle"
        /\ does = "commit" /\ typ = "complete" => k \in committed'
    BY <1>4, <2>8 DEF Succeeds, Fails
  <2>10. Answered(k, c)'
    BY <1>6, <2>4, <2>6, <2>7, <2>9 DEF Answered
  <2> QED
    BY <2>1, <2>3, <2>6, <2>10 DEF Talk, Asking
<1>7. \A l \in committed' : pc[l] \in {"commit", "done"} /\ executed[l] = Statements
  BY <1>2, <1>4 DEF Inv, PoolInv, OutcomesAreTrue, TypeOK, WireTypeOK
<1>8. committed' \subseteq Client /\ committed \subseteq committed'
  BY <1>4 DEF Inv, TypeOK, WireTypeOK
<1>9. <<Msg(typ, q), Msg("ready", q)>> \in Seq(Message)
  BY <1>5
<1> HIDE DEF q
<1> QED
  BY <1>1, <1>4, <1>6, <1>7, <1>8, <1>9, AnswerStep

-----------------------------------------------------------------------------
\* The pool, and calls that return without a connection.

LEMMA ClockStep ==
    ASSUME Inv, TypeOK', UNCHANGED <<wireVars, free, pc, at, failed, executed, result>>
    PROVE  Inv'
<1> USE DEF wireVars
<1>1. (Ownership /\ \A k \in Client : Progress(k))'
  BY DEF Inv, PoolInv, Ownership, Progress
<1>2. \A c \in Conn : Sending(c)'
  BY SendingKept DEF Inv, PoolInv
<1>3. \A k \in Client : \A c \in at'[k] : Talk(k, c)'
  BY TalkKept DEF Inv, PoolInv
<1>4. (FreeIsClean /\ OutcomesAreTrue)'
  BY DEF Inv, PoolInv, FreeIsClean, OutcomesAreTrue
<1> QED
  BY <1>1, <1>2, <1>3, <1>4 DEF Inv, PoolInv

LEMMA AgesStep == ASSUME Inv, NEW c \in Conn, Ages(c) PROVE Inv'
<1>1. TypeOK'
  BY DEF Ages, Inv, TypeOK, WireTypeOK, wireVars, clientVars
<1> QED
  BY <1>1, ClockStep DEF Ages, clientVars

LEMMA CancelStep == ASSUME Inv, NEW k \in Client, Cancel(k) PROVE Inv'
<1>1. TypeOK'
  BY DEF Cancel, Inv, TypeOK, WireTypeOK, wireVars, poolVars
<1> QED
  BY <1>1, ClockStep DEF Cancel, poolVars

LEMMA GiveUpStep ==
    ASSUME Inv, NEW k \in Client, DialFails(k) \/ Withdraw(k)
    PROVE  Inv'
<1> USE DEF wireVars, poolVars
<1>1. /\ pc[k] = "wait" /\ Return(k, "error")
      /\ UNCHANGED <<wireVars, poolVars, at>>
  BY DEF DialFails, Withdraw
<1>2. TypeOK' /\ pc'[k] = "done" /\ result'[k] = "error"
  BY <1>1 DEF Return, Goto, Inv, TypeOK, WireTypeOK
<1>3. /\ \A l \in Client \ {k} : pc'[l] = pc[l] /\ result'[l] = result[l]
      /\ UNCHANGED <<failed, executed>> /\ at[k] = {}
  BY <1>1 DEF Return, Goto, Inv, TypeOK, PoolInv, Ownership
<1>4. Ownership'
  BY <1>1, <1>3 DEF Inv, PoolInv, Ownership
<1>5. \A l \in Client : Progress(l)'
  BY <1>2, <1>3 DEF Inv, PoolInv, Progress
<1>6. \A c \in Conn : Sending(c)'
  BY <1>1, <1>3, SendingKept DEF Inv, PoolInv
<1>7. ASSUME NEW l \in Client, NEW c \in at'[l]
      PROVE  Talk(l, c)'
  BY <1>1, <1>3, TalkKept DEF Inv, PoolInv
<1>8. (FreeIsClean /\ OutcomesAreTrue)'
  BY <1>1, <1>2, <1>3 DEF Inv, PoolInv, FreeIsClean, OutcomesAreTrue
<1> QED
  BY <1>1, <1>2, <1>4, <1>5, <1>6, <1>7, <1>8 DEF Inv, PoolInv

LEMMA CloseOldStep == ASSUME Inv, NEW c \in Conn, CloseOld(c) PROVE Inv'
<1> USE DEF CloseOld, Close, clientVars
<1>1. TypeOK'
  <2>1. reply' \in [Conn -> Seq(Message)]
    BY DEF Inv, TypeOK, WireTypeOK
  <2> QED
    BY <2>1 DEF Inv, TypeOK, WireTypeOK
<1>2. /\ link'[c] = "none" /\ reply'[c] = <<>>
      /\ \A d \in Conn \ {c} : link'[d] = link[d] /\ reply'[d] = reply[d]
      /\ \A k \in Client : c \notin at[k]
  BY DEF Inv, TypeOK, WireTypeOK, PoolInv, Ownership
<1>3. Ownership'
  BY <1>2 DEF Inv, PoolInv, Ownership
<1>4. (\A k \in Client : Progress(k))'
  BY DEF Inv, PoolInv, Progress
<1>5. \A d \in Conn : Sending(d)'
  BY SendingKept DEF Inv, PoolInv
<1>6. \A d \in Conn : d \in free' \/ link'[d] = "none" => reply'[d] = <<>>
  BY <1>2 DEF Inv, PoolInv
<1>7. ASSUME NEW k \in Client, NEW d \in at'[k]
      PROVE  Talk(k, d)'
  <2>1. d \in Conn \ {c} /\ Talk(k, d)
    BY <1>2 DEF Inv, PoolInv, TypeOK
  <2> QED
    BY <1>2, <2>1, TalkKept
<1>8. (FreeIsClean /\ OutcomesAreTrue)'
  BY <1>2 DEF Inv, PoolInv, FreeIsClean, OutcomesAreTrue, TypeOK
<1> QED
  BY <1>1, <1>3, <1>4, <1>5, <1>6, <1>7, <1>8 DEF Inv, PoolInv

LEMMA TakeFreeStep ==
    ASSUME Inv, NEW k \in Client, NEW c \in Conn, TakeFree(k, c)
    PROVE  Inv'
<1> USE DEF TakeFree, Goto, wireVars
<1>1. TypeOK' /\ pc'[k] = "held"
  BY DEF Inv, TypeOK, WireTypeOK
<1>2. link[c] # "none" /\ Sending(c)'
  BY <1>1, SendingKept DEF Inv, PoolInv, Ownership, TypeOK
<1>3. Talk(k, c)'
  BY <1>1 DEF Talk, Quiet, Asking, Inv, PoolInv, FreeIsClean
<1>4. \A l \in Client \ {k} : pc'[l] = pc[l]
  BY DEF Inv, TypeOK
<1> QED
  BY <1>1, <1>2, <1>3, <1>4, TakeStep

LEMMA OpenNewStep ==
    ASSUME Inv, NEW k \in Client, NEW c \in Conn, OpenNew(k, c)
    PROVE  Inv'
<1> USE DEF OpenNew, Unused, Dial, Goto, poolVars
<1>1. /\ link'[c] = "up" /\ session'[c] = "start" /\ sent'[c] = <<<<k, "startup">>>>
      /\ \A d \in Conn \ {c} : link'[d] = link[d] /\ session'[d] = session[d] /\ sent'[d] = sent[d]
      /\ pc'[k] = "dial" /\ reply'[c] = reply[c] /\ \A l \in Client \ {k} : pc'[l] = pc[l]
  BY DEF Inv, TypeOK, WireTypeOK
<1>2. TypeOK'
  <2>1. <<k, "startup">> \in Query
    BY QueryType
  <2>2. <<<<k, "startup">>>> \in Seq(Query)
    BY <2>1
  <2>3. sent' \in [Conn -> Seq(Query)]
    BY <2>2 DEF Inv, TypeOK, WireTypeOK
  <2> QED
    BY <2>3 DEF Inv, TypeOK, WireTypeOK
<1>3. reply[c] = <<>> /\ c \notin free
  BY DEF Inv, PoolInv, Ownership
<1>4. Talk(k, c)'
  BY <1>1, <1>3 DEF Talk, Greeted, Asking
<1>5. Sending(c)'
  BY <1>1 DEF Sending
<1>6. free' = free \ {c}
  BY <1>3
<1> QED
  BY <1>1, <1>2, <1>4, <1>5, <1>6, TakeStep

-----------------------------------------------------------------------------
\* A goroutine that asks.

\* What it writes is the only thing that is under way.
LEMMA Written ==
    ASSUME Inv, NEW k \in Client, NEW c \in at[k],
           NEW does \in {"startup", "password", "read", "begin", "stmt", "commit", "rollback"},
           Write(c, <<k, does>>),
           link[c] = "up" => sent[c] = <<>>
    PROVE  /\ sent' \in [Conn -> Seq(Query)]
           /\ link[c] = "up" => sent'[c] = <<<<k, does>>>>
           /\ link[c] # "up" => sent'[c] = sent[c]
           /\ \A d \in Conn \ {c} : sent'[d] = sent[d]
<1>1. c \in Conn /\ sent \in [Conn -> Seq(Query)]
  BY DEF Inv, TypeOK, WireTypeOK
<1>2. <<k, does>> \in Query
  BY QueryType
<1>3. Append(sent[c], <<k, does>>) \in Seq(Query)
  BY <1>1, <1>2
<1>4. Append(<<>>, <<k, does>>) = <<<<k, does>>>>
  BY One
<1> QED
  BY <1>1, <1>3, <1>4 DEF Write

LEMMA SendPasswordStep ==
    ASSUME Inv, NEW k \in Client, SendPassword(k)
    PROVE  Inv'
<1> USE DEF SendPassword, poolVars, clientVars
<1>1. PICK c \in at[k] :
        /\ HasMessage(c, {"cleartext", "md5"})
        /\ ReadMessage(c)
        /\ Write(c, <<k, "password">>)
  OBVIOUS
<1>2. c \in Conn /\ Greeted(k, c)
  BY DEF Inv, TypeOK, PoolInv, Talk
<1>3. reply[c] # <<>> /\ (link[c] = "up" => sent[c] = <<>> /\ session[c] = "auth")
  BY <1>1, <1>2 DEF Greeted, HasMessage
<1>4. /\ sent' \in [Conn -> Seq(Query)]
      /\ link[c] = "up" => sent'[c] = <<<<k, "password">>>>
      /\ link[c] # "up" => sent'[c] = sent[c]
      /\ \A d \in Conn \ {c} : sent'[d] = sent[d]
  BY <1>1, <1>3, Written
<1>5. reply' \in [Conn -> Seq(Message)] /\ reply'[c] = <<>>
      /\ \A d \in Conn \ {c} : reply'[d] = reply[d]
  <2>1. Tail(reply[c]) = <<>>
    BY <1>2, <1>3, One DEF Greeted
  <2>2. Tail(reply[c]) \in Seq(Message)
    BY <1>2, <1>3 DEF Inv, TypeOK, WireTypeOK
  <2> QED
    BY <1>1, <1>2, <2>1, <2>2 DEF ReadMessage, Inv, TypeOK, WireTypeOK
<1>6. TypeOK'
  BY <1>4, <1>5 DEF Inv, TypeOK, WireTypeOK
<1>7. Talk(k, c)'
  BY <1>3, <1>4, <1>5 DEF Talk, Greeted, Asking
<1>8. Sending(c)'
  <2>1. CASE link[c] = "up"
    BY <1>4, <2>1 DEF Sending
  <2>2. CASE link[c] # "up"
    BY <1>2, <1>4, <2>2, SendingKept DEF Inv, PoolInv
  <2> QED
    BY <2>1, <2>2
<1>9. Progress(k)'
  BY DEF Inv, PoolInv, Progress
<1> QED
  BY <1>4, <1>5, <1>6, <1>7, <1>8, <1>9, StayStep

LEMMA ConnectedStep ==
    ASSUME Inv, NEW k \in Client, Connected(k)
    PROVE  Inv'
<1> USE DEF Connected, poolVars, Goto
<1>1. PICK c \in at[k] : HasMessage(c, {"ready"}) /\ ReadMessage(c)
  OBVIOUS
<1>2. c \in Conn /\ Greeted(k, c)
  BY DEF Inv, TypeOK, PoolInv, Talk
<1>3. reply[c] # <<>> /\ (link[c] = "up" => sent[c] = <<>> /\ session[c] = "idle")
  BY <1>1, <1>2 DEF Greeted, HasMessage
<1>4. reply' \in [Conn -> Seq(Message)] /\ reply'[c] = <<>>
      /\ \A d \in Conn \ {c} : reply'[d] = reply[d]
  <2>1. Tail(reply[c]) = <<>>
    BY <1>2, <1>3, One DEF Greeted
  <2>2. Tail(reply[c]) \in Seq(Message)
    BY <1>2, <1>3 DEF Inv, TypeOK, WireTypeOK
  <2> QED
    BY <1>1, <1>2, <2>1, <2>2 DEF ReadMessage, Inv, TypeOK, WireTypeOK
<1>5. pc'[k] = "held" /\ \A l \in Client \ {k} : pc'[l] = pc[l]
  BY DEF Inv, TypeOK
<1>6. TypeOK'
  BY <1>4 DEF Inv, TypeOK, WireTypeOK
<1>7. Talk(k, c)'
  BY <1>3, <1>4, <1>5 DEF Talk, Quiet, Asking
<1>8. Sending(c)'
  BY <1>2, <1>5, SendingKept DEF Inv, PoolInv
<1>9. Progress(k)'
  BY <1>5 DEF Inv, PoolInv, Progress
<1> QED
  BY <1>4, <1>5, <1>6, <1>7, <1>8, <1>9, StayStep

LEMMA AskStep ==
    ASSUME Inv, NEW k \in Client, NEW does \in Asking, Ask(k, does),
           pc[k] \in {"held", "tx", "undo"},
           does \in {"read", "begin"} => pc[k] = "held",
           does \in {"stmt", "commit"} => pc[k] = "tx",
           does = "rollback" => pc[k] \in {"tx", "undo"},
           does = "stmt" => executed[k] < Statements,
           does = "commit" => executed[k] = Statements
    PROVE  Inv'
<1> USE DEF Ask, poolVars, Goto
<1>1. PICK c \in at[k] : Write(c, <<k, does>>)
  OBVIOUS
<1>2. /\ c \in Conn /\ Talk(k, c)
      /\ does \in {"read", "begin", "stmt", "commit", "rollback"}
  BY DEF Inv, TypeOK, PoolInv, Asking
<1>3. /\ reply[c] = <<>>
      /\ link[c] = "up" =>
           /\ sent[c] = <<>>
           /\ session[c] = CASE pc[k] = "held" -> "idle" [] pc[k] = "tx" -> "open"
                             [] pc[k] = "undo" -> "failed"
  BY <1>2 DEF Talk, Quiet
<1>4. /\ sent' \in [Conn -> Seq(Query)]
      /\ link[c] = "up" => sent'[c] = <<<<k, does>>>>
      /\ link[c] # "up" => sent'[c] = sent[c]
      /\ \A d \in Conn \ {c} : sent'[d] = sent[d]
  <2>1. link[c] = "up" => sent[c] = <<>>
    BY <1>3
  <2>2. does \in {"startup", "password", "read", "begin", "stmt", "commit", "rollback"}
    BY <1>2
  <2> HIDE DEF Ask
  <2> QED
    BY <1>1, <2>1, <2>2, Written
<1>5. /\ pc'[k] = does /\ failed'[k] = FALSE
      /\ \A l \in Client \ {k} : pc'[l] = pc[l] /\ failed'[l] = failed[l]
  BY DEF Inv, TypeOK
<1>6. TypeOK'
  BY <1>4 DEF Inv, TypeOK, WireTypeOK
<1>7. Unanswered(k, c)'
  <2>1. link[c] = "up" =>
          /\ does \in {"read", "begin"} => session[c] = "idle"
          /\ does \in {"stmt", "commit"} => session[c] = "open"
          /\ does = "rollback" => session[c] \in {"open", "failed"}
    BY <1>3
  <2> QED
    BY <1>3, <1>4, <1>5, <2>1 DEF Unanswered
<1>8. Talk(k, c)'
  BY <1>2, <1>5, <1>7 DEF Talk
<1>9. Progress(k)'
  BY <1>2, <1>5 DEF Inv, PoolInv, Progress
<1>10. Sending(c)'
  <2>1. CASE link[c] = "up"
    BY <1>4, <1>5, <2>1 DEF Sending
  <2>2. CASE link[c] # "up"
    BY <1>2, <1>4, <1>5, <2>2, SendingKept DEF Inv, PoolInv
  <2> QED
    BY <2>1, <2>2
<1>11. pc'[k] \notin {"wait", "done"}
  BY <1>2, <1>5
<1> QED
  BY <1>4, <1>5, <1>6, <1>8, <1>9, <1>10, <1>11, StayStep

LEMMA AskingStep ==
    ASSUME Inv, NEW k \in Client,
           QueryAlone(k) \/ BeginTx(k) \/ QueryInTx(k) \/ Commit(k) \/ Rollback(k)
    PROVE  Inv'
<1>1. ASSUME QueryAlone(k) PROVE Inv'
  BY <1>1, AskStep DEF QueryAlone, Asking
<1>2. ASSUME BeginTx(k) PROVE Inv'
  BY <1>2, AskStep DEF BeginTx, Asking
<1>3. ASSUME QueryInTx(k) PROVE Inv'
  BY <1>3, AskStep DEF QueryInTx, InTx, Asking
<1>4. ASSUME Commit(k) PROVE Inv'
  BY <1>4, AskStep DEF Commit, InTx, Asking
<1>5. ASSUME Rollback(k) PROVE Inv'
  BY <1>5, AskStep DEF Rollback, Asking
<1> QED
  BY <1>1, <1>2, <1>3, <1>4, <1>5

-----------------------------------------------------------------------------
\* A goroutine that is answered.

LEMMA CollectStep ==
    ASSUME Inv, NEW k \in Client, Collect(k)
    PROVE  Inv'
<1> USE DEF Collect, poolVars
<1>1. PICK c \in at[k] :
        /\ HasMessage(c, {"complete", "error"})
        /\ ReadMessage(c)
        /\ failed' = [failed EXCEPT ![k] = @ \/ Head(reply[c]).typ = "error"]
  OBVIOUS
<1>2. c \in Conn /\ Answered(k, c) /\ reply[c] # <<>> /\ pc[k] \in Asking
  <2>1. Talk(k, c) /\ c \in Conn /\ reply[c] # <<>>
    BY <1>1 DEF Inv, TypeOK, PoolInv, HasMessage
  <2>2. ~ Unanswered(k, c)
    BY <2>1 DEF Unanswered
  <2> QED
    BY <2>1, <2>2 DEF Talk
<1> DEFINE q == <<k, pc[k]>>
<1>3. q \in Query
  BY <1>2, QueryType DEF Asking
<1>4. PICK typ \in {"complete", "error"} :
        reply[c] = <<Msg(typ, q), Msg("ready", q)>> /\ ~ failed[k]
  <2>1. Msg("ready", q).typ = "ready"
    BY <1>3, MsgType
  <2>2. reply[c] # <<Msg("ready", q)>>
    BY <1>1, <2>1, One DEF HasMessage
  <2> QED
    BY <1>2, <2>2 DEF Answered
<1>5. Msg(typ, q).typ = typ /\ Msg("ready", q).typ = "ready" /\ Msg("ready", q) \in Message
  BY <1>3, MsgType
<1> HIDE DEF q
<1>6. Head(reply[c]) = Msg(typ, q) /\ Tail(reply[c]) = <<Msg("ready", q)>>
  BY <1>4, Two
<1>7. /\ reply' \in [Conn -> Seq(Message)] /\ reply'[c] = <<Msg("ready", q)>>
      /\ \A d \in Conn \ {c} : reply'[d] = reply[d]
  <2>1. Tail(reply[c]) \in Seq(Message)
    BY <1>2 DEF Inv, TypeOK, WireTypeOK
  <2> QED
    BY <1>1, <1>2, <1>6, <2>1 DEF ReadMessage, Inv, TypeOK, WireTypeOK
<1>8. /\ failed' \in [Client -> BOOLEAN] /\ (failed'[k] <=> typ = "error")
      /\ \A l \in Client \ {k} : failed'[l] = failed[l]
  BY <1>1, <1>4, <1>5, <1>6 DEF Inv, TypeOK
<1>9. TypeOK'
  BY <1>7, <1>8 DEF Inv, TypeOK, WireTypeOK
<1>10. (Erred(k, c)' <=> typ = "error") /\ (Erred(k, c) <=> typ = "error")
  <2>1. Head(reply'[c]) = Msg("ready", q)
    BY <1>7, One
  <2> QED
    BY <1>4, <1>5, <1>6, <1>8, <2>1 DEF Erred
<1>11. Talk(k, c)'
  <2>1. Answered(k, c)'
    <3>1. pc' = pc /\ link' = link /\ sent' = sent /\ session' = session /\ committed' = committed
      OBVIOUS
    <3>2. reply'[c] = <<Msg("ready", <<k, pc'[k]>>)>>
      BY <1>7, <3>1 DEF q
    <3>3. Erred(k, c)' <=> Erred(k, c)
      BY <1>10
    <3> HIDE DEF Collect
    <3> QED
      BY <1>2, <3>1, <3>2, <3>3 DEF Answered
  <2> QED
    BY <1>2, <2>1 DEF Talk, Asking
<1>12. Sending(c)' /\ Progress(k)'
  BY <1>2, SendingKept DEF Inv, PoolInv, Progress
<1>13. pc[k] \notin {"wait", "done"}
  BY <1>2 DEF Asking
<1> QED
  BY <1>7, <1>8, <1>9, <1>11, <1>12, <1>13, StayStep

\* The answer to a query has been read up to ReadyForQuery.
LEMMA Ready ==
    ASSUME Inv, NEW k \in Client, pc[k] \in Asking, NEW c \in at[k],
           HasMessage(c, {"ready"})
    PROVE  /\ c \in Conn /\ Tail(reply[c]) = <<>>
           /\ pc[k] = "commit" /\ ~ failed[k] => k \in committed
           /\ link[c] = "up" =>
                /\ sent[c] = <<>>
                /\ pc[k] = "begin" => session[c] = "open" /\ ~ failed[k]
                /\ pc[k] = "stmt" => session[c] = IF failed[k] THEN "failed" ELSE "open"
                /\ pc[k] \in {"read", "commit", "rollback"} => session[c] = "idle"
<1>1. Talk(k, c) /\ c \in Conn /\ reply[c] # <<>>
  BY DEF Inv, TypeOK, PoolInv, HasMessage
<1>2. Answered(k, c)
  BY <1>1 DEF Talk, Unanswered
<1> DEFINE q == <<k, pc[k]>>
<1>3. q \in Query
  BY QueryType DEF Asking
<1>4. reply[c] = <<Msg("ready", q)>>
  <2>1. ASSUME NEW typ \in {"complete", "error"}
        PROVE  reply[c] # <<Msg(typ, q), Msg("ready", q)>>
    <3>1. Msg(typ, q).typ = typ
      BY <1>3, MsgType
    <3> QED
      BY <3>1, Two DEF HasMessage
  <2> QED
    BY <1>2, <2>1 DEF Answered
<1>5. Msg("ready", q).typ = "ready"
  BY <1>3, MsgType
<1>6. Head(reply[c]) = Msg("ready", q) /\ Tail(reply[c]) = <<>>
  BY <1>4, One
<1>7. Erred(k, c) <=> failed[k]
  BY <1>5, <1>6 DEF Erred
<1> QED
  BY <1>1, <1>2, <1>6, <1>7 DEF Answered

\* A goroutine returns, and its connection is handed back or closed.
LEMMA ReleaseStep ==
    ASSUME Inv, NEW k \in Client, NEW c \in at[k], pc[k] \in Asking,
           NEW what \in {"ok", "error"},
           Release(k, c), Return(k, what),
           reply' = [reply EXCEPT ![c] = <<>>],
           link[c] = "up" => session[c] = "idle" /\ sent[c] = <<>>,
           what = "ok" => pc[k] = "read" \/ k \in committed
    PROVE  Inv'
<1>1. pc[k] # "done" /\ c \in Conn
  BY DEF Asking, Inv, TypeOK
<1>2. PutBack(k, c) \/ Discard(k, c)
  BY DEF Release
<1>3. /\ UNCHANGED <<sent, session, committed, executed, failed, cancelled>>
      /\ at' = [at EXCEPT ![k] = {}] /\ pc' = [pc EXCEPT ![k] = "done"]
      /\ result' = [result EXCEPT ![k] = what]
      /\ old' = old \/ old' = old \ {c}
  BY <1>2 DEF PutBack, Discard, Return, Goto
<1>4. \/ free' = free \cup {c} /\ link' = link
      \/ free' = free /\ link' = [link EXCEPT ![c] = "none"]
  BY <1>2 DEF PutBack, Discard
<1>5. TypeOK'
  <2>1. reply' \in [Conn -> Seq(Message)]
    BY DEF Inv, TypeOK, WireTypeOK
  <2>2. /\ link' \in [Conn -> {"none", "up", "down"}] /\ free' \subseteq Conn
        /\ old' \subseteq Conn
    BY <1>1, <1>3, <1>4 DEF Inv, TypeOK, WireTypeOK
  <2>3. /\ at' \in [Client -> SUBSET Conn] /\ result' \in [Client -> {"none", "ok", "error"}]
        /\ pc' \in [Client -> Asking \cup {"wait", "dial", "held", "tx", "undo", "done"}]
    BY <1>3 DEF Inv, TypeOK
  <2> QED
    BY <1>3, <2>1, <2>2, <2>3 DEF Inv, TypeOK, WireTypeOK
<1>6. result'[k] = "ok" /\ executed[k] = Statements => k \in committed
  BY <1>3, PoolAssumption DEF Inv, TypeOK, PoolInv, Progress
<1>7. \A l \in Client \ {k} : failed'[l] = failed[l] /\ result'[l] = result[l]
  BY <1>3 DEF Inv, TypeOK
<1> QED
  BY <1>1, <1>3, <1>4, <1>5, <1>6, <1>7, LeaveStep

LEMMA QueryFailsStep ==
    ASSUME Inv, NEW k \in Client, pc[k] \in Asking, NEW c \in at[k],
           QueryFails(k, c), reply' = [reply EXCEPT ![c] = <<>>],
           link[c] = "up" =>
             /\ sent[c] = <<>> /\ pc[k] # "begin"
             /\ session[c] = IF pc[k] = "stmt" THEN "failed" ELSE "idle"
    PROVE  Inv'
<1>1. CASE pc[k] = "stmt"
  <2>1. Stay /\ Goto(k, "undo") /\ UNCHANGED <<failed, executed, cancelled, result>>
    BY <1>1 DEF QueryFails
  <2>2. /\ c \in Conn /\ pc'[k] = "undo" /\ reply'[c] = <<>>
        /\ \A d \in Conn \ {c} : reply'[d] = reply[d]
        /\ \A l \in Client \ {k} : pc'[l] = pc[l]
    BY <2>1 DEF Goto, Inv, TypeOK, WireTypeOK
  <2>3. TypeOK'
    <3>1. reply' \in [Conn -> Seq(Message)]
      BY DEF Inv, TypeOK, WireTypeOK
    <3>2. pc' \in [Client -> Asking \cup {"wait", "dial", "held", "tx", "undo", "done"}]
      BY <2>1 DEF Goto, Inv, TypeOK
    <3> QED
      BY <2>1, <3>1, <3>2 DEF Stay, poolVars, Inv, TypeOK, WireTypeOK
  <2>4. Progress(k)'
    BY <1>1, <2>1, <2>2 DEF Inv, PoolInv, Progress
  <2>5. Talk(k, c)'
    BY <1>1, <2>1, <2>2 DEF Stay, poolVars, Talk, Quiet, Asking
  <2>6. Sending(c)'
    BY <1>1, <2>1, <2>2, SendingKept DEF Stay, poolVars, Inv, PoolInv
  <2> QED
    BY <1>1, <2>1, <2>2, <2>3, <2>4, <2>5, <2>6, StayStep DEF Stay, poolVars
<1>2. CASE pc[k] # "stmt"
  <2>1. Release(k, c) /\ Return(k, "error")
    BY <1>2 DEF QueryFails
  <2> QED
    BY <1>2, <2>1, ReleaseStep
<1> QED
  BY <1>1, <1>2

LEMMA QuerySucceedsStep ==
    ASSUME Inv, NEW k \in Client, pc[k] \in Asking, NEW c \in at[k],
           QuerySucceeds(k, c), reply' = [reply EXCEPT ![c] = <<>>],
           pc[k] = "commit" => k \in committed,
           link[c] = "up" =>
             /\ sent[c] = <<>>
             /\ session[c] = IF pc[k] \in {"begin", "stmt"} THEN "open" ELSE "idle"
    PROVE  Inv'
<1>1. CASE pc[k] \in {"begin", "stmt"}
  <2>1. /\ Stay /\ Goto(k, "tx") /\ UNCHANGED <<failed, cancelled, result>>
        /\ executed' = IF pc[k] = "stmt" THEN [executed EXCEPT ![k] = @ + 1] ELSE executed
    BY <1>1 DEF QuerySucceeds
  <2>2. /\ c \in Conn /\ pc'[k] = "tx" /\ reply'[c] = <<>>
        /\ \A d \in Conn \ {c} : reply'[d] = reply[d]
        /\ \A l \in Client \ {k} : pc'[l] = pc[l] /\ executed'[l] = executed[l]
    BY <2>1 DEF Goto, Inv, TypeOK, WireTypeOK
  <2>3. TypeOK'
    <3>1. reply' \in [Conn -> Seq(Message)]
      BY DEF Inv, TypeOK, WireTypeOK
    <3>2. pc' \in [Client -> Asking \cup {"wait", "dial", "held", "tx", "undo", "done"}]
      BY <2>1 DEF Goto, Inv, TypeOK
    <3>3. pc[k] = "stmt" => executed[k] + 1 \in 0 .. Statements
      BY PoolAssumption DEF Inv, TypeOK, PoolInv, Progress
    <3>4. executed' \in [Client -> 0 .. Statements]
      BY <2>1, <3>3 DEF Inv, TypeOK
    <3> QED
      BY <2>1, <3>1, <3>2, <3>4 DEF Stay, poolVars, Inv, TypeOK, WireTypeOK
  <2>4. Progress(k)'
    BY <1>1, <2>1, <2>2 DEF Inv, PoolInv, Progress
  <2>5. Talk(k, c)'
    BY <1>1, <2>1, <2>2 DEF Stay, poolVars, Talk, Quiet, Asking
  <2>6. Sending(c)'
    BY <1>1, <2>1, <2>2, SendingKept DEF Stay, poolVars, Inv, PoolInv
  <2>7. UNCHANGED <<link, session, committed, free, at, result, sent, failed>>
    BY <2>1 DEF Stay, poolVars
  <2>8. pc[k] \notin {"commit", "done"} /\ pc'[k] \notin {"wait", "done"}
    BY <1>1, <2>2
  <2>9. /\ \A d \in Conn \ {c} : sent'[d] = sent[d] /\ reply'[d] = reply[d]
        /\ \A l \in Client \ {k} :
             pc'[l] = pc[l] /\ failed'[l] = failed[l] /\ executed'[l] = executed[l]
    BY <2>2, <2>7
  <2>10. UNCHANGED <<link, session, committed, free, at, result>>
    BY <2>7
  <2> QED
    BY <2>3, <2>4, <2>5, <2>6, <2>8, <2>9, <2>10, StayStep
<1>2. CASE pc[k] \notin {"begin", "stmt"}
  <2>1. PICK what \in {"ok", "error"} :
          /\ Release(k, c) /\ Return(k, what)
          /\ what = "ok" => pc[k] \in {"read", "commit"}
    BY <1>2 DEF QuerySucceeds
  <2> QED
    BY <1>2, <2>1, ReleaseStep
<1> QED
  BY <1>1, <1>2

LEMMA AnsweredStep ==
    ASSUME Inv, NEW k \in Client, CollectReady(k) \/ ReadFails(k)
    PROVE  Inv'
<1>1. ASSUME CollectReady(k)
      PROVE  Inv'
  <2>1. PICK c \in at[k] :
          /\ HasMessage(c, {"ready"}) /\ ReadMessage(c)
          /\ IF failed[k] THEN QueryFails(k, c) ELSE QuerySucceeds(k, c)
    BY <1>1 DEF CollectReady
  <2>2. pc[k] \in Asking
    BY <1>1 DEF CollectReady
  <2>3. /\ c \in Conn /\ Tail(reply[c]) = <<>>
        /\ pc[k] = "commit" /\ ~ failed[k] => k \in committed
        /\ link[c] = "up" =>
             /\ sent[c] = <<>>
             /\ pc[k] = "begin" => session[c] = "open" /\ ~ failed[k]
             /\ pc[k] = "stmt" => session[c] = IF failed[k] THEN "failed" ELSE "open"
             /\ pc[k] \in {"read", "commit", "rollback"} => session[c] = "idle"
    BY <2>1, <2>2, Ready
  <2>4. reply' = [reply EXCEPT ![c] = <<>>]
    BY <2>1, <2>3 DEF ReadMessage
  <2>5. CASE failed[k]
    BY <2>1, <2>2, <2>3, <2>4, <2>5, QueryFailsStep DEF Asking
  <2>6. CASE ~ failed[k]
    BY <2>1, <2>2, <2>3, <2>4, <2>6, QuerySucceedsStep DEF Asking
  <2> QED
    BY <2>5, <2>6
<1>2. ASSUME ReadFails(k)
      PROVE  Inv'
  <2>1. PICK c \in at[k] :
          link[c] = "down" /\ reply' = [reply EXCEPT ![c] = <<>>] /\ QueryFails(k, c)
    BY <1>2 DEF ReadFails
  <2>2. pc[k] \in Asking
    BY <1>2 DEF ReadFails
  <2> QED
    BY <2>1, <2>2, QueryFailsStep
<1> QED
  BY <1>1, <1>2

LEMMA StartupFailsStep ==
    ASSUME Inv, NEW k \in Client, StartupFails(k)
    PROVE  Inv'
<1> USE DEF StartupFails
<1>1. PICK c \in at[k] : Close(c)
  OBVIOUS
<1>2. c \in Conn /\ at[k] = {c} /\ pc[k] = "dial" /\ k \notin committed
  BY DEF Inv, TypeOK, PoolInv, Ownership, OutcomesAreTrue
<1>3. /\ UNCHANGED <<sent, session, committed, executed, failed, cancelled, free>>
      /\ at' = [at EXCEPT ![k] = {}] /\ pc' = [pc EXCEPT ![k] = "done"]
      /\ result' = [result EXCEPT ![k] = "error"]
      /\ link' = [link EXCEPT ![c] = "none"] /\ reply' = [reply EXCEPT ![c] = <<>>]
      /\ old' \subseteq old
  BY <1>1 DEF Return, Goto, Close
<1>4. TypeOK'
  <2>1. reply' \in [Conn -> Seq(Message)] /\ link' \in [Conn -> {"none", "up", "down"}]
    BY <1>3 DEF Inv, TypeOK, WireTypeOK
  <2>2. /\ at' \in [Client -> SUBSET Conn] /\ result' \in [Client -> {"none", "ok", "error"}]
        /\ pc' \in [Client -> Asking \cup {"wait", "dial", "held", "tx", "undo", "done"}]
    BY <1>3 DEF Inv, TypeOK
  <2> QED
    BY <1>3, <2>1, <2>2 DEF Inv, TypeOK, WireTypeOK
<1>5. result'[k] = "error" /\ \A l \in Client \ {k} : failed'[l] = failed[l] /\ result'[l] = result[l]
  BY <1>3 DEF Inv, TypeOK
<1> HIDE DEF StartupFails
<1> QED
  BY <1>2, <1>3, <1>4, <1>5, LeaveStep

-----------------------------------------------------------------------------
LEMMA NextInv == Inv /\ [Next]_vars => Inv'
<1> SUFFICES ASSUME Inv, [Next]_vars
             PROVE  Inv'
  OBVIOUS
<1>1. ASSUME NEW k \in Client, ClientStep(k)
      PROVE  Inv'
  BY <1>1, TakeFreeStep, OpenNewStep, GiveUpStep, SendPasswordStep, StartupFailsStep,
     ConnectedStep, AskingStep, CollectStep, AnsweredStep DEF ClientStep
<1>2. ASSUME NEW k \in Client, DialFails(k) \/ Cancel(k)
      PROVE  Inv'
  BY <1>2, GiveUpStep, CancelStep
<1>3. ASSUME NEW c \in Conn, ServerStep(c) \/ Break(c), UNCHANGED <<poolVars, clientVars>>
      PROVE  Inv'
  BY <1>3, GreetStep, ExecuteStep, SessionEndsStep, BreakStep DEF ServerStep
<1>4. ASSUME NEW c \in Conn, Ages(c) \/ CloseOld(c)
      PROVE  Inv'
  BY <1>4, AgesStep, CloseOldStep
<1>5. ASSUME UNCHANGED vars
      PROVE  Inv'
  <2>1. TypeOK'
    BY <1>5 DEF vars, wireVars, poolVars, clientVars, Inv, TypeOK, WireTypeOK
  <2> QED
    BY <1>5, <2>1, ClockStep DEF vars, poolVars, clientVars
<1> QED
  BY <1>1, <1>2, <1>3, <1>4, <1>5 DEF Next, AllDone

LEMMA AlwaysInv == Spec => []Inv
<1> QED
  BY InitInv, NextInv, PTL DEF Spec

\* Whatever the limits, and whatever breaks, goroutines, connections and
\* sessions agree at every step of every call: a connection belongs to one
\* goroutine or to the pool, and its session is where that goroutine believes.
THEOREM PoolAlwaysConsistent == Spec => [](TypeOK /\ PoolInv)
<1> QED
  BY AlwaysInv, PTL DEF Inv

\* However a call ends, its connection goes back outside of any transaction and
\* with nothing unread, although the pool asks neither connection nor server.
THEOREM AlwaysFreeIsClean == Spec => []FreeIsClean
<1>1. Inv => FreeIsClean
  BY DEF Inv, PoolInv
<1> QED
  BY <1>1, AlwaysInv, PTL

\* A transaction that returns no error is committed with every statement, and
\* one that has given up is not committed, not even by a server that reads on.
THEOREM AlwaysOutcomesAreTrue == Spec => []OutcomesAreTrue
<1>1. Inv => OutcomesAreTrue
  BY DEF Inv, PoolInv
<1> QED
  BY <1>1, AlwaysInv, PTL

\* collectResults never reads an answer to another query than the one its
\* goroutine has just asked, whoever had the connection before.
THEOREM AlwaysInStep == Spec => []InStep
<1>1. Inv => InStep
  <2> SUFFICES ASSUME Inv, NEW c \in Conn, NEW i \in DOMAIN reply[c]
               PROVE  \E k \in Client :
                        /\ c \in at[k]
                        /\ reply[c][i].of \in
                             IF pc[k] = "dial" THEN {<<k, "startup">>, <<k, "password">>}
                             ELSE {<<k, pc[k]>>}
    BY DEF InStep
  <2>1. reply[c] # <<>>
    OBVIOUS
  <2>2. PICK k \in Client : c \in at[k]
    BY <2>1 DEF Inv, PoolInv, Ownership
  <2>3. Talk(k, c) /\ pc[k] \in {"dial"} \cup Asking
    BY <2>1, <2>2 DEF Inv, PoolInv, Ownership, Talk, TypeOK
  <2>4. CASE pc[k] = "dial"
    <3>1. PICK typ \in {"cleartext", "md5", "scram", "error", "ready"},
               does \in {"startup", "password"} : reply[c] = <<Msg(typ, <<k, does>>)>>
      BY <2>1, <2>3, <2>4 DEF Talk, Greeted
    <3>2. reply[c][i] = Msg(typ, <<k, does>>)
      BY <3>1, One
    <3> QED
      BY <2>2, <2>4, <3>2 DEF Msg
  <2>5. CASE pc[k] \in Asking
    <3>1. Answered(k, c)
      BY <2>1, <2>3, <2>5 DEF Talk, Unanswered
    <3>2. \E typ \in {"complete", "error", "ready"} : reply[c][i] = Msg(typ, <<k, pc[k]>>)
      BY <3>1, One, Two DEF Answered
    <3> QED
      BY <2>2, <2>5, <3>2 DEF Msg, Asking
  <2> QED
    BY <2>3, <2>4, <2>5
<1> QED
  BY <1>1, AlwaysInv, PTL

(* Connections, sessions, messages and goroutines keep their types at      *)
(* every step, and nobody runs more statements than it has (driver.go).    *)
THEOREM PoolTypes == Spec => []TypeOK
  BY PoolAlwaysConsistent, PTL
=============================================================================
