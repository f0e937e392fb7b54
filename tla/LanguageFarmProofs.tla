--------------------------- MODULE LanguageFarmProofs ---------------------------
(***************************************************************************)
(* Theorems about LanguageFarm, for any number of processes and any        *)
(* directory: its types, and that it implements the detector in one        *)
(* process, whose log is exact.                                            *)
(***************************************************************************)
EXTENDS LanguageFarm, FiniteSetTheorems, SequenceTheorems, TLAPS

\* The messages: a document, the dismissal, and the answer about a document
Work(e) == [tag |-> 1, file |-> e]
Bye     == [tag |-> 0, file |-> NoEntry]
Reply(e) == [tag |-> IF kind[e] \in {"foreign", "unparsable"} THEN 1 ELSE 0, file |-> e]

\* What the type invariant needs to be inductive: parse holds a file exactly while
\* it waits for an answer, kill_slaves sends a dismissal only while it has one to send,
\* and a slave has a file while it works on it
CurOK == (cur # NoEntry) <=> (mpc = "request")

CountOK == mpc = "senddie" => items # 0

JobOK == \A r \in Slaves : spc[r] = "work" => job[r] # NoEntry

TypeInv == TypeOK /\ CurOK /\ CountOK /\ JobOK

\* The states of a slave with channels d and u, at pc, with job j.  A slave that died
\* after its answer takes the next document to its grave
Idle(d, u, pc, j) == d = <<>> /\ u = <<>> /\ pc = "recv" /\ j = NoEntry
Between(pc, j) ==
    pc \in {"recv", "sending", "sendingfailure", "dead"} /\ (pc = "dead" => j = NoEntry)
Assigned(d, u, pc, j) ==
    (\E e \in Jobs : d = <<Work(e)>>) /\ u = <<>> /\ Between(pc, j)
Holding(d, u, pc, j) == d = <<>> /\ u = <<>> /\ pc \in {"work", "dead"} /\ j \in Jobs
Answered(d, u, pc, j) ==
    d = <<>> /\ (\E e \in Jobs : u = <<Reply(e)>>) /\ Between(pc, j)
Leaving(d, u, pc, j) == d = <<Bye>> /\ u = <<>> /\ Between(pc, j)
Gone(d, u, pc, j) == d = <<>> /\ u = <<>> /\ pc = "done" /\ j = NoEntry

Exchange(d, u, pc, j) ==
    \/ Idle(d, u, pc, j) \/ Assigned(d, u, pc, j) \/ Holding(d, u, pc, j)
    \/ Answered(d, u, pc, j) \/ Leaving(d, u, pc, j) \/ Gone(d, u, pc, j)

\* The documents nothing is known about that such a slave is the reason for
InHand(d, u, pc, j) ==
    ({m.file : m \in ToSet(d)} \cup (IF pc \in {"work", "dead"} THEN {j} ELSE {})
        \cup {m.file : m \in ToSet(u)}) \ {NoEntry}

HeldBy(r) == InHand(down[r], up[r], spc[r], job[r])

Pending == (toVisit \cap Files) \cup ({cur} \ {NoEntry})

\* Nobody else has what a slave has
Exclusive ==
    /\ cur \notin toVisit
    /\ \A r \in Slaves : HeldBy(r) \subseteq Jobs \ Pending
    /\ \A r \in Slaves : \A s \in Slaves \ {r} : HeldBy(r) \cap HeldBy(s) = {}

Walking == {"walk", "request", "sendjob"}

\* While the tree is walked the ranks up to ITEMS_TO_BE_SEND have had no document
FirstTasks ==
    mpc \in Walking =>
        \A r \in Slaves : r <= items => Idle(down[r], up[r], spc[r], job[r])

\* The slaves that are dismissed, or have been sent their dismissal; after the walk
\* ITEMS_TO_BE_SEND counts the others
Stopped(d, pc) == pc = "done" \/ d = <<Bye>>

StoppedSet == {r \in Slaves : Stopped(down[r], spc[r])}

Dismissals ==
    /\ mpc = "request" => items = 0
    /\ mpc \notin Walking => toVisit = {}
    /\ mpc \in Walking => StoppedSet = {}
    /\ mpc = "kill" => Cardinality(StoppedSet) = NP - 1 - items
    /\ mpc = "senddie" => Cardinality(StoppedSet) = NP - items
    /\ mpc = "done" => Cardinality(StoppedSet) = NP - 1

FarmInv ==
    /\ TypeInv
    /\ \A r \in Slaves : Exchange(down[r], up[r], spc[r], job[r])
    /\ Exclusive /\ FirstTasks /\ Dismissals

-----------------------------------------------------------------------------
(* Types. *)

\* A job is an entry, and the messages are different
LEMMA JobsAreEntries ==
    /\ Jobs \subseteq Files /\ Files \subseteq Entries
    /\ NoEntry \notin Jobs /\ NoEntry \notin Files
BY LanguageFarmAssumption DEF Jobs, Files

LEMMA MessageTypes ==
    /\ \A e \in Jobs : Work(e) \in Tasks /\ Reply(e) \in Answers
    /\ Bye \in Tasks
BY DEF Work, Reply, Bye, Tasks, Answers

LEMMA WorkIsNotBye == \A e : <<Work(e)>> # <<Bye>>
<1>1. \A e : Work(e).tag # Bye.tag
  BY DEF Work, Bye
<1>2. \A e : <<Work(e)>>[1] # <<Bye>>[1]
  BY <1>1
<1> QED BY <1>2

LEMMA InitType == Init => TypeInv
<1> SUFFICES ASSUME Init PROVE TypeInv
  OBVIOUS
<1>1. items \in 0 .. NP - 1 /\ 0 \in 0 .. NP - 1
  BY LanguageFarmAssumption DEF Init
<1>2. down \in [Slaves -> Seq(Tasks)] /\ up \in [Slaves -> Seq(Answers)] /\ log \in Seq(Files)
  BY DEF Init
<1>3. TypeOK
  BY <1>1, <1>2 DEF Init, TypeOK
<1> QED BY <1>3 DEF Init, TypeInv, CurOK, CountOK, JobOK

\* Sending and receiving keep the channels and the log typed
LEMMA SendType ==
    ASSUME TypeOK, NEW r \in Slaves, NEW tag, NEW e, [tag |-> tag, file |-> e] \in Tasks,
           NEW pc, Send(r, tag, e, pc)
    PROVE  /\ down' \in [Slaves -> Seq(Tasks)]
           /\ dest' \in 0 .. NP - 1
           /\ mpc' = pc
<1>1. Append(down[r], [tag |-> tag, file |-> e]) \in Seq(Tasks)
  BY DEF TypeOK
<1>2. down' \in [Slaves -> Seq(Tasks)]
  BY <1>1 DEF TypeOK, Send
<1>3. dest' \in 0 .. NP - 1
  BY LanguageFarmAssumption DEF Send, Slaves
<1> QED BY <1>2, <1>3 DEF Send

LEMMA ReceiveType ==
    ASSUME TypeOK, NEW r \in Slaves, Receive(r)
    PROVE  /\ up' \in [Slaves -> Seq(Answers)]
           /\ log' \in Seq(Files)
<1>1. up[r] \in Seq(Answers) /\ up[r] # <<>>
  BY DEF TypeOK, Receive
<1>2. Tail(up[r]) \in Seq(Answers) /\ Head(up[r]) \in Answers
  BY <1>1
<1>3. Head(up[r]).file \in Jobs
  BY <1>2 DEF Answers
<1>4. up' \in [Slaves -> Seq(Answers)]
  BY <1>2 DEF TypeOK, Receive
<1>5. Append(log, Head(up[r]).file) \in Seq(Files)
  BY <1>3, JobsAreEntries DEF TypeOK
<1> QED BY <1>4, <1>5 DEF TypeOK, Receive

LEMMA AnswerType ==
    ASSUME TypeInv, NEW r \in Slaves, NEW tag \in {0, 1}, NEW pc, Answer(r, tag, pc),
           spc[r] = "work", pc \in {"sending", "sendingfailure"}, kind' = kind
    PROVE  TypeInv'
<1>1. job[r] \in Jobs
  BY DEF TypeInv, TypeOK, JobOK
<1>2. [tag |-> tag, file |-> job[r]] \in Answers /\ up[r] \in Seq(Answers)
  <2>1. [tag |-> tag, file |-> job[r]] \in Answers
    BY <1>1 DEF Answers
  <2> QED BY <2>1 DEF TypeInv, TypeOK
<1>3. up' \in [Slaves -> Seq(Answers)]
  BY <1>2 DEF TypeInv, TypeOK, Answer
<1>4. Jobs' = Jobs /\ Files' = Files /\ Answers' = Answers /\ Tasks' = Tasks
  BY DEF Jobs, Files, Answers, Tasks
<1> QED BY <1>3, <1>4 DEF Answer, TypeInv, TypeOK, CurOK, CountOK, JobOK, masterVars

LEMMA TypeStep == TypeInv /\ [Next]_vars => TypeInv'
<1> SUFFICES ASSUME TypeInv, [Next]_vars PROVE TypeInv'
  OBVIOUS
<1> USE LanguageFarmAssumption, JobsAreEntries
<1>0. TypeOK /\ CurOK /\ CountOK /\ JobOK
  BY DEF TypeInv
<1>k. kind' = kind
  BY DEF Next, vars
<1>j. Jobs' = Jobs /\ Files' = Files /\ Answers' = Answers /\ Tasks' = Tasks
  BY <1>k DEF Jobs, Files, Answers, Tasks
<1>1. ASSUME NEW e \in Entries, ParseSkip(e) \/ ParseTooLong(e) \/ ParseWait(e)
      PROVE  TypeInv'
  <2>1. CASE ParseSkip(e)
    BY <1>0, <1>k, <1>j, <2>1 DEF ParseSkip, TypeInv, TypeOK, CurOK, CountOK, JobOK, slaveVars
  <2>2. CASE ParseWait(e)
    BY <1>0, <1>k, <1>j, <2>2 DEF ParseWait, TypeInv, TypeOK, CurOK, CountOK, JobOK, slaveVars
  <2>3. CASE ParseTooLong(e)
    <3>1. Append(log, e) \in Seq(Files)
      BY <1>0, <2>3 DEF ParseTooLong, TypeOK
    <3> QED BY <1>0, <1>k, <1>j, <2>3, <3>1
            DEF ParseTooLong, TypeInv, TypeOK, CurOK, CountOK, JobOK, slaveVars
  <2> QED BY <1>1, <2>1, <2>2, <2>3
<1>2. ASSUME NEW e \in Entries, ParseFirstTask(e) PROVE TypeInv'
  <2>1. items \in Slaves /\ Work(e) \in Tasks /\ items - 1 \in 0 .. NP - 1
    BY <1>0, <1>2, MessageTypes DEF ParseFirstTask, TypeOK, Slaves
  <2>2. /\ down' \in [Slaves -> Seq(Tasks)] /\ dest' \in 0 .. NP - 1
        /\ mpc' = "sendjob"
    BY <1>0, <1>2, <2>1, SendType DEF ParseFirstTask, Work
  <2> QED BY <1>0, <1>k, <1>j, <1>2, <2>1, <2>2
          DEF ParseFirstTask, TypeInv, TypeOK, CurOK, CountOK, JobOK, slaveVars
<1>3. ASSUME NEW r \in Slaves, ParseAnswer(r) PROVE TypeInv'
  <2>1. Work(cur) \in Tasks
    BY <1>0, <1>3, MessageTypes DEF ParseAnswer, CurOK, TypeOK
  <2>2. /\ down' \in [Slaves -> Seq(Tasks)] /\ dest' \in 0 .. NP - 1
        /\ mpc' = "sendjob"
    BY <1>0, <1>3, <2>1, SendType DEF ParseAnswer, Work
  <2>3. up' \in [Slaves -> Seq(Answers)] /\ log' \in Seq(Files)
    BY <1>0, <1>3, ReceiveType DEF ParseAnswer
  <2> QED BY <1>0, <1>k, <1>j, <1>3, <2>2, <2>3
          DEF ParseAnswer, TypeInv, TypeOK, CurOK, CountOK, JobOK, slaveVars
<1>4. ASSUME NEW r \in Slaves, KillSlave(r) PROVE TypeInv'
  <2>1. /\ down' \in [Slaves -> Seq(Tasks)] /\ dest' \in 0 .. NP - 1
        /\ mpc' = "senddie"
    BY <1>0, <1>4, MessageTypes, SendType DEF KillSlave, Bye
  <2>2. up' \in [Slaves -> Seq(Answers)] /\ log' \in Seq(Files)
    BY <1>0, <1>4, ReceiveType DEF KillSlave
  <2> QED BY <1>0, <1>k, <1>j, <1>4, <2>1, <2>2
          DEF KillSlave, TypeInv, TypeOK, CurOK, CountOK, JobOK, slaveVars
<1>5. ASSUME EndOfWalk \/ MasterExit PROVE TypeInv'
  <2>1. NP - 1 \in 0 .. NP - 1
    OBVIOUS
  <2>2. CASE EndOfWalk
    BY <1>0, <1>k, <1>j, <2>1, <2>2
    DEF EndOfWalk, TypeInv, TypeOK, CurOK, CountOK, JobOK, slaveVars
  <2>3. CASE MasterExit
    BY <1>0, <1>k, <1>j, <2>3
    DEF MasterExit, TypeInv, TypeOK, CurOK, CountOK, JobOK, slaveVars
  <2> QED BY <1>5, <2>2, <2>3
<1>6. ASSUME MasterSendReturns PROVE TypeInv'
  <2>1. items' \in 0 .. NP - 1 /\ 0 \in 0 .. NP - 1
    BY <1>0, <1>6 DEF MasterSendReturns, TypeOK, CountOK
  <2> QED BY <1>0, <1>k, <1>j, <1>6, <2>1
          DEF MasterSendReturns, TypeInv, TypeOK, CurOK, CountOK, JobOK, slaveVars
<1>7. ASSUME NEW r \in Slaves, ReceiveTask(r) PROVE TypeInv'
  <2>1. down[r] \in Seq(Tasks) /\ down[r] # <<>>
    BY <1>0, <1>7 DEF TypeOK, ReceiveTask
  <2>2. Tail(down[r]) \in Seq(Tasks) /\ Head(down[r]) \in Tasks
    BY <2>1
  <2>3. down' \in [Slaves -> Seq(Tasks)]
    BY <1>0, <1>7, <2>2 DEF TypeOK, ReceiveTask
  <2>4. /\ Head(down[r]).file \in Jobs \cup {NoEntry}
        /\ Head(down[r]).tag # 0 => Head(down[r]).file # NoEntry
    BY <2>2 DEF Tasks
  <2> QED BY <1>0, <1>k, <1>j, <1>7, <2>3, <2>4
          DEF ReceiveTask, TypeInv, TypeOK, CurOK, CountOK, JobOK, masterVars
<1>8. ASSUME NEW r \in Slaves, Classify(r) \/ ReportUnparsable(r) PROVE TypeInv'
  <2>1. spc[r] = "work"
    BY <1>8 DEF Classify, ReportUnparsable
  <2>2. PICK tag \in {0, 1}, pc \in {"sending", "sendingfailure"} : Answer(r, tag, pc)
    BY <1>8 DEF Classify, ReportUnparsable
  <2> QED BY <1>k, <2>1, <2>2, AnswerType
<1>9. ASSUME NEW r \in Slaves, SlaveSendReturns(r) \/ Die(r) PROVE TypeInv'
  <2>1. CASE SlaveSendReturns(r)
    BY <1>0, <1>k, <1>j, <2>1
    DEF SlaveSendReturns, TypeInv, TypeOK, CurOK, CountOK, JobOK, masterVars
  <2>2. CASE Die(r)
    BY <1>0, <1>k, <1>j, <2>2 DEF Die, TypeInv, TypeOK, CurOK, CountOK, JobOK, masterVars
  <2> QED BY <1>9, <2>1, <2>2
<1>10. ASSUME Abort \/ UNCHANGED moving PROVE TypeInv'
  BY <1>0, <1>k, <1>j, <1>10
  DEF Abort, moving, masterVars, slaveVars, TypeInv, TypeOK, CurOK, CountOK, JobOK
<1> QED
  BY <1>1, <1>2, <1>3, <1>4, <1>5, <1>6, <1>7, <1>8, <1>9, <1>10
  DEF Next, Step, Master, Parse, Slave, Terminated, vars

\* The variables have their types in every state of every farm
THEOREM TypeCorrect == Spec => []TypeOK
<1>1. TypeInv => TypeOK
  BY DEF TypeInv
<1> QED BY InitType, TypeStep, <1>1, PTL DEF Spec

-----------------------------------------------------------------------------
(* A slave and its channels. *)

LEMMA SlavesFinite == IsFiniteSet(Slaves) /\ Cardinality(Slaves) = NP - 1
BY LanguageFarmAssumption, FS_Interval DEF Slaves

LEMMA OneMessage == ToSet(<<>>) = {} /\ \A m : ToSet(<<m>>) = {m}
<1>1. DOMAIN <<>> = {}
  OBVIOUS
<1>2. ASSUME NEW m PROVE ToSet(<<m>>) = {m}
  <2>1. DOMAIN <<m>> = {1} /\ <<m>>[1] = m
    OBVIOUS
  <2> QED BY <2>1 DEF ToSet
<1> QED BY <1>1, <1>2 DEF ToSet

\* What is unknown because of a slave, by its state: one document or none
LEMMA HandFacts ==
    ASSUME NEW pc, NEW j
    PROVE  /\ Idle(<<>>, <<>>, pc, j) => InHand(<<>>, <<>>, pc, j) = {}
           /\ Gone(<<>>, <<>>, pc, j) => InHand(<<>>, <<>>, pc, j) = {}
           /\ Holding(<<>>, <<>>, pc, j) => InHand(<<>>, <<>>, pc, j) = {j}
           /\ Between(pc, j) =>
                  /\ \A e \in Jobs : InHand(<<Work(e)>>, <<>>, pc, j) = {e}
                  /\ \A e \in Jobs : InHand(<<>>, <<Reply(e)>>, pc, j) = {e}
                  /\ InHand(<<Bye>>, <<>>, pc, j) = {}
<1>1. {m.file : m \in {}} = {} /\ \A m : {n.file : n \in {m}} = {m.file}
  OBVIOUS
<1>2. \A e : Work(e).file = e /\ Reply(e).file = e
  BY DEF Work, Reply
<1>3. Bye.file = NoEntry
  BY DEF Bye
<1>4. \A e \in Jobs : e # NoEntry
  BY JobsAreEntries
<1>5. ASSUME Idle(<<>>, <<>>, pc, j) \/ Gone(<<>>, <<>>, pc, j)
      PROVE  InHand(<<>>, <<>>, pc, j) = {}
  BY <1>1, <1>5, OneMessage DEF Idle, Gone, InHand
<1>6. ASSUME Holding(<<>>, <<>>, pc, j) PROVE InHand(<<>>, <<>>, pc, j) = {j}
  BY <1>1, <1>4, <1>6, OneMessage DEF Holding, InHand
<1>7. ASSUME Between(pc, j), NEW e \in Jobs
      PROVE  InHand(<<Work(e)>>, <<>>, pc, j) = {e} /\ InHand(<<>>, <<Reply(e)>>, pc, j) = {e}
  <2>1. (IF pc \in {"work", "dead"} THEN {j} ELSE {}) \ {NoEntry} = {}
    BY <1>7 DEF Between
  <2>2. ToSet(<<Work(e)>>) = {Work(e)} /\ ToSet(<<Reply(e)>>) = {Reply(e)}
    BY OneMessage
  <2>3. {m.file : m \in ToSet(<<Work(e)>>)} = {e} /\ {m.file : m \in ToSet(<<Reply(e)>>)} = {e}
    BY <1>1, <1>2, <2>2
  <2>4. {m.file : m \in ToSet(<<>>)} = {}
    BY OneMessage
  <2> QED BY <1>4, <2>1, <2>3, <2>4 DEF InHand
<1>8. ASSUME Between(pc, j) PROVE InHand(<<Bye>>, <<>>, pc, j) = {}
  <2>1. (IF pc \in {"work", "dead"} THEN {j} ELSE {}) \ {NoEntry} = {}
    BY <1>8 DEF Between
  <2>2. {m.file : m \in ToSet(<<Bye>>)} = {NoEntry}
    BY <1>1, <1>3, OneMessage
  <2>3. {m.file : m \in ToSet(<<>>)} = {}
    BY OneMessage
  <2> QED BY <2>1, <2>2, <2>3 DEF InHand
<1> QED BY <1>5, <1>6, <1>7, <1>8

\* A message on its way to a slave finds it in a state in which nothing else of it is
LEMMA ExchangeFacts ==
    ASSUME NEW d, NEW u, NEW pc, NEW j, Exchange(d, u, pc, j)
    PROVE  /\ pc = "recv" /\ d # <<>> =>
                  Assigned(d, u, pc, j) \/ Leaving(d, u, pc, j)
           /\ pc = "work" => Holding(d, u, pc, j)
           /\ u # <<>> => Answered(d, u, pc, j)
           /\ Stopped(d, pc) <=> Leaving(d, u, pc, j) \/ Gone(d, u, pc, j)
           /\ Idle(d, u, pc, j) => ~Stopped(d, pc)
<1>1. <<>> # <<Bye>> /\ \A e : <<Work(e)>> # <<>> /\ <<Reply(e)>> # <<>>
  OBVIOUS
<1> QED BY <1>1, WorkIsNotBye
        DEF Exchange, Idle, Assigned, Holding, Answered, Leaving, Gone, Between, Stopped

-----------------------------------------------------------------------------
(* The documents nothing is known about. *)

LEMMA AnswersAreAboutJobs ==
    ASSUME NEW u \in [Slaves -> Seq(Answers)]
    PROVE  \A r \in Slaves : \A m \in ToSet(u[r]) : m.file # NoEntry
<1> SUFFICES ASSUME NEW r \in Slaves, NEW m \in ToSet(u[r]) PROVE m.file # NoEntry
  OBVIOUS
<1>1. u[r] \in Seq(Answers)
  OBVIOUS
<1>2. m \in Answers
  BY <1>1 DEF ToSet
<1> QED BY <1>2, JobsAreEntries DEF Answers

\* Outstanding gathers the documents by where they are, HeldBy slave by slave
LEMMA OutstandingIs ==
    ASSUME TypeInv, TypeInv', kind' = kind
    PROVE  /\ Outstanding = Pending \cup (UNION {HeldBy(r) : r \in Slaves})
           /\ Outstanding' = Pending' \cup (UNION {HeldBy(r)' : r \in Slaves})
<1>1. Answers' = Answers
  BY DEF Answers, Jobs, Files
<1>2. /\ \A r \in Slaves : \A m \in ToSet(up[r]) : m.file # NoEntry
      /\ \A r \in Slaves : \A m \in ToSet(up'[r]) : m.file # NoEntry
  BY <1>1, AnswersAreAboutJobs DEF TypeInv, TypeOK
<1>3. \A x : x \in Outstanding <=> x \in Pending \cup (UNION {HeldBy(r) : r \in Slaves})
  BY <1>2 DEF Outstanding, Pending, HeldBy, InHand
<1>4. \A x : x \in Outstanding' <=> x \in Pending' \cup (UNION {HeldBy(r)' : r \in Slaves})
  BY <1>2 DEF Outstanding, Pending, HeldBy, InHand
<1> QED BY <1>3, <1>4

\* The master takes a document from the pending ones, or none, and gives it to slave
\* r: what was unknown because of r is known now, and all else is as it was
LEMMA HandOver ==
    ASSUME TypeInv, TypeInv', Exclusive, kind' = kind, NEW r \in Slaves,
           \A s \in Slaves \ {r} : HeldBy(s)' = HeldBy(s),
           Pending' \subseteq Pending, HeldBy(r)' = Pending \ Pending',
           HeldBy(r)' \subseteq Jobs, cur' \notin toVisit'
    PROVE  /\ Exclusive'
           /\ Outstanding' = Outstanding \ HeldBy(r)
<1>1. Jobs' = Jobs /\ HeldBy(r)' \subseteq Jobs
  BY DEF Jobs, Files
<1>2. /\ \A s \in Slaves : HeldBy(s) \subseteq Jobs \ Pending
      /\ \A s \in Slaves : \A t \in Slaves \ {s} : HeldBy(s) \cap HeldBy(t) = {}
  BY DEF Exclusive
<1>3. \A s \in Slaves : HeldBy(s)' \subseteq Jobs \ Pending'
  BY <1>1, <1>2
<1>4. ASSUME NEW s \in Slaves, NEW t \in Slaves \ {s} PROVE HeldBy(s)' \cap HeldBy(t)' = {}
  <2>1. CASE s = r
    BY <1>2, <2>1
  <2>2. CASE t = r
    BY <1>2, <2>2
  <2>3. CASE s # r /\ t # r
    BY <1>2, <2>3
  <2> QED BY <2>1, <2>2, <2>3
<1>5. Exclusive'
  BY <1>1, <1>3, <1>4 DEF Exclusive
<1>6. /\ Outstanding = Pending \cup (UNION {HeldBy(s) : s \in Slaves})
      /\ Outstanding' = Pending' \cup (UNION {HeldBy(s)' : s \in Slaves})
  BY OutstandingIs
<1>7. \A x : x \in Outstanding' => x \in Outstanding /\ x \notin HeldBy(r)
  <2> SUFFICES ASSUME NEW x \in Outstanding' PROVE x \in Outstanding /\ x \notin HeldBy(r)
    OBVIOUS
  <2>1. CASE x \in Pending' \/ x \in HeldBy(r)'
    BY <1>2, <1>6, <2>1
  <2>2. CASE \E s \in Slaves \ {r} : x \in HeldBy(s)'
    BY <1>2, <1>6, <2>2
  <2> QED BY <1>6, <2>1, <2>2
<1>8. \A x : x \in Outstanding /\ x \notin HeldBy(r) => x \in Outstanding'
  <2> SUFFICES ASSUME NEW x, x \in Outstanding, x \notin HeldBy(r) PROVE x \in Outstanding'
    OBVIOUS
  <2>1. CASE x \in Pending
    BY <1>6, <2>1
  <2>2. CASE \E s \in Slaves \ {r} : x \in HeldBy(s)
    BY <1>6, <2>2
  <2> QED BY <1>6, <2>1, <2>2
<1> QED BY <1>5, <1>7, <1>8

\* A step in which no slave loses or gets a document
LEMMA HandsStill ==
    ASSUME TypeInv, TypeInv', Exclusive, kind' = kind,
           \A s \in Slaves : HeldBy(s)' = HeldBy(s),
           Pending' = Pending, cur' \notin toVisit'
    PROVE  Exclusive' /\ Outstanding' = Outstanding
<1>1. Jobs' = Jobs
  BY DEF Jobs, Files
<1>2. Exclusive'
  BY <1>1 DEF Exclusive
<1>3. UNION {HeldBy(s)' : s \in Slaves} = UNION {HeldBy(s) : s \in Slaves}
  OBVIOUS
<1> QED BY <1>2, <1>3, OutstandingIs

-----------------------------------------------------------------------------
(* The steps.  Each keeps the invariant and is a step of the detector or none. *)

LEMMA InitFarm == Init => FarmInv /\ D!Init
<1> SUFFICES ASSUME Init PROVE FarmInv /\ D!Init
  OBVIOUS
<1>1. TypeInv
  BY InitType
<1>2. \A r \in Slaves : /\ Idle(down[r], up[r], spc[r], job[r])
                        /\ down[r] = <<>> /\ up[r] = <<>>
  BY DEF Init, Idle
<1>3. \A r \in Slaves : HeldBy(r) = {}
  BY <1>2, HandFacts DEF HeldBy
<1>4. \A r \in Slaves : Exchange(down[r], up[r], spc[r], job[r])
  BY <1>2 DEF Exchange
<1>5. StoppedSet = {}
  BY <1>2, <1>4, ExchangeFacts DEF StoppedSet
<1>6. Exclusive
  BY <1>3, LanguageFarmAssumption DEF Exclusive, Init
<1>7. FarmInv
  BY <1>1, <1>2, <1>4, <1>5, <1>6 DEF FarmInv, FirstTasks, Dismissals, Walking, Init
<1>8. Outstanding = Files
  <2>1. Outstanding = Pending
    BY OneMessage DEF Init, Outstanding, Pending
  <2> QED BY <2>1, JobsAreEntries DEF Init, Pending
<1>9. D!Init
  BY <1>8 DEF D!Init, D!Documents, Files, Init
<1> QED BY <1>7, <1>9

\* The step leaves slave s and its channels alone
Same(s) ==
    /\ down'[s] = down[s] /\ up'[s] = up[s]
    /\ spc'[s] = spc[s] /\ job'[s] = job[s]

LEMMA JobsStay ==
    ASSUME kind' = kind
    PROVE  /\ Jobs' = Jobs /\ Files' = Files
           /\ \A s \in Slaves : Exchange(down[s], up[s], spc[s], job[s])'
                                  <=> Exchange(down'[s], up'[s], spc'[s], job'[s])
           /\ \A s \in Slaves : Idle(down[s], up[s], spc[s], job[s])'
                                  <=> Idle(down'[s], up'[s], spc'[s], job'[s])
           /\ \A s \in Slaves : HeldBy(s)' = InHand(down'[s], up'[s], spc'[s], job'[s])
<1>1. Jobs' = Jobs /\ Files' = Files
  BY DEF Jobs, Files
<1>2. \A e : Reply(e)' = Reply(e)
  BY DEF Reply
<1>3. \A s \in Slaves : Exchange(down[s], up[s], spc[s], job[s])'
                          <=> Exchange(down'[s], up'[s], spc'[s], job'[s])
  BY <1>1, <1>2 DEF Exchange, Idle, Assigned, Holding, Answered, Leaving, Gone, Between, Work, Bye
<1>4. \A s \in Slaves : HeldBy(s)' = InHand(down'[s], up'[s], spc'[s], job'[s])
  BY DEF HeldBy, InHand
<1> QED BY <1>1, <1>3, <1>4 DEF Idle

\* A step of slave r that changes neither what it has nor whether it is dismissed
LEMMA SlaveStep ==
    ASSUME FarmInv, TypeInv', kind' = kind, masterVars' = masterVars, NEW r \in Slaves,
           \A s \in Slaves \ {r} : Same(s),
           ~Idle(down[r], up[r], spc[r], job[r]),
           Exchange(down'[r], up'[r], spc'[r], job'[r]),
           Stopped(down'[r], spc'[r]) <=> Stopped(down[r], spc[r]),
           InHand(down'[r], up'[r], spc'[r], job'[r]) = HeldBy(r)
    PROVE  FarmInv' /\ UNCHANGED D!vars
<1>0. /\ toVisit' = toVisit /\ items' = items /\ cur' = cur /\ mpc' = mpc /\ log' = log
      /\ Jobs' = Jobs /\ Files' = Files
  BY JobsStay DEF masterVars
<1>1. \A s \in Slaves : HeldBy(s)' = HeldBy(s)
  BY JobsStay DEF Same, HeldBy
<1>2. Pending' = Pending /\ cur' \notin toVisit'
  BY <1>0 DEF Pending, FarmInv, Exclusive
<1>3. Exclusive' /\ Outstanding' = Outstanding
  BY <1>1, <1>2, HandsStill DEF FarmInv
<1>4. \A s \in Slaves : Exchange(down[s], up[s], spc[s], job[s])'
  BY JobsStay DEF FarmInv, Same
<1>5. FirstTasks'
  <2> SUFFICES ASSUME mpc \in Walking, NEW s \in Slaves, s <= items
               PROVE  Idle(down'[s], up'[s], spc'[s], job'[s])
    BY <1>0, JobsStay DEF FirstTasks, Walking
  <2>1. Idle(down[s], up[s], spc[s], job[s])
    BY DEF FarmInv, FirstTasks
  <2>2. s # r
    BY <2>1
  <2> QED BY <2>1, <2>2 DEF Same
<1>6. StoppedSet' = StoppedSet
  BY DEF StoppedSet, Stopped, Same, Bye
<1>7. Dismissals'
  BY <1>0, <1>6 DEF FarmInv, Dismissals, Walking
<1> QED BY <1>0, <1>3, <1>4, <1>5, <1>7 DEF FarmInv, D!vars

LEMMA FarmSlave ==
    ASSUME FarmInv, TypeInv', kind' = kind, NEW r \in Slaves, Slave(r)
    PROVE  FarmInv' /\ UNCHANGED D!vars
<1>0. /\ masterVars' = masterVars
      /\ down \in [Slaves -> Seq(Tasks)] /\ up \in [Slaves -> Seq(Answers)]
      /\ spc \in [Slaves -> {"recv", "work", "sending", "sendingfailure", "done", "dead"}]
      /\ job \in [Slaves -> Jobs \cup {NoEntry}]
      /\ Exchange(down[r], up[r], spc[r], job[r])
  BY DEF FarmInv, TypeInv, TypeOK, Slave, ReceiveTask, Classify, ReportUnparsable, Answer,
     SlaveSendReturns, Die
<1>1. CASE ReceiveTask(r)
  <2>1. /\ spc[r] = "recv" /\ down[r] # <<>>
        /\ down' = [down EXCEPT ![r] = Tail(@)] /\ up' = up
        /\ spc' = [spc EXCEPT ![r] = IF Head(down[r]).tag = 0 THEN "done" ELSE "work"]
        /\ job' = [job EXCEPT ![r] = Head(down[r]).file]
    BY <1>1 DEF ReceiveTask
  <2>2. \A s \in Slaves \ {r} : Same(s)
    BY <1>0, <2>1 DEF Same
  <2>3. CASE Assigned(down[r], up[r], spc[r], job[r])
    <3>1. PICK e \in Jobs : down[r] = <<Work(e)>>
      BY <2>3 DEF Assigned
    <3>2. Head(down[r]).tag = 1 /\ Head(down[r]).file = e /\ Tail(down[r]) = <<>>
      BY <3>1 DEF Work
    <3>3. up[r] = <<>> /\ Between(spc[r], job[r])
      BY <2>3 DEF Assigned
    <3>4. down'[r] = <<>> /\ up'[r] = <<>> /\ spc'[r] = "work" /\ job'[r] = e
      BY <1>0, <2>1, <3>2, <3>3
    <3>5. Holding(down'[r], up'[r], spc'[r], job'[r])
      BY <3>4 DEF Holding
    <3>6. HeldBy(r) = {e} /\ InHand(down'[r], up'[r], spc'[r], job'[r]) = {e}
      BY <3>1, <3>3, <3>4, <3>5, HandFacts DEF HeldBy
    <3>7. ~Stopped(down[r], spc[r]) /\ ~Stopped(down'[r], spc'[r])
      BY <2>1, <3>1, <3>4, WorkIsNotBye DEF Stopped
    <3>8. ~Idle(down[r], up[r], spc[r], job[r])
      BY <2>1 DEF Idle
    <3> QED BY <1>0, <2>2, <3>5, <3>6, <3>7, <3>8, SlaveStep DEF Exchange
  <2>4. CASE Leaving(down[r], up[r], spc[r], job[r])
    <3>1. down[r] = <<Bye>> /\ up[r] = <<>> /\ Between(spc[r], job[r])
      BY <2>4 DEF Leaving
    <3>2. Head(down[r]).tag = 0 /\ Head(down[r]).file = NoEntry /\ Tail(down[r]) = <<>>
      BY <3>1 DEF Bye
    <3>3. down'[r] = <<>> /\ up'[r] = <<>> /\ spc'[r] = "done" /\ job'[r] = NoEntry
      BY <1>0, <2>1, <3>1, <3>2
    <3>4. Gone(down'[r], up'[r], spc'[r], job'[r])
      BY <3>3 DEF Gone
    <3>5. HeldBy(r) = {} /\ InHand(down'[r], up'[r], spc'[r], job'[r]) = {}
      BY <3>1, <3>3, <3>4, HandFacts DEF HeldBy
    <3>6. Stopped(down[r], spc[r]) /\ Stopped(down'[r], spc'[r])
      BY <3>1, <3>3 DEF Stopped
    <3>7. ~Idle(down[r], up[r], spc[r], job[r])
      BY <2>1 DEF Idle
    <3> QED BY <1>0, <2>2, <3>4, <3>5, <3>6, <3>7, SlaveStep DEF Exchange
  <2> QED BY <1>0, <2>1, <2>3, <2>4, ExchangeFacts
<1>2. CASE Classify(r) \/ ReportUnparsable(r)
  <2>1. /\ spc[r] = "work"
        /\ \E pc \in {"sending", "sendingfailure"} : Answer(r, Reply(job[r]).tag, pc)
    BY <1>2 DEF Classify, ReportUnparsable, Reply
  <2>2. PICK pc \in {"sending", "sendingfailure"} : Answer(r, Reply(job[r]).tag, pc)
    BY <2>1
  <2>3. Holding(down[r], up[r], spc[r], job[r])
    BY <1>0, <2>1, ExchangeFacts
  <2>4. job[r] \in Jobs /\ down[r] = <<>> /\ up[r] = <<>>
    BY <2>3 DEF Holding
  <2>5. Append(<<>>, [tag |-> Reply(job[r]).tag, file |-> job[r]]) = <<Reply(job[r])>>
    BY DEF Reply
  <2>6. /\ up' = [up EXCEPT ![r] = <<Reply(job[r])>>] /\ spc' = [spc EXCEPT ![r] = pc]
        /\ down' = down /\ job' = job
    BY <2>2, <2>4, <2>5 DEF Answer
  <2>7. \A s \in Slaves \ {r} : Same(s)
    BY <1>0, <2>6 DEF Same
  <2>8. down'[r] = <<>> /\ up'[r] = <<Reply(job[r])>> /\ spc'[r] = pc /\ job'[r] = job[r]
    BY <1>0, <2>4, <2>6
  <2>9. Answered(down'[r], up'[r], spc'[r], job'[r]) /\ Between(spc'[r], job'[r])
    BY <2>4, <2>8 DEF Answered, Between
  <2>10. HeldBy(r) = {job[r]} /\ InHand(down'[r], up'[r], spc'[r], job'[r]) = {job[r]}
    BY <2>3, <2>4, <2>8, <2>9, HandFacts DEF HeldBy
  <2>11. ~Stopped(down[r], spc[r]) /\ ~Stopped(down'[r], spc'[r])
    BY <2>1, <2>4, <2>8 DEF Stopped
  <2>12. ~Idle(down[r], up[r], spc[r], job[r])
    BY <2>1 DEF Idle
  <2> QED BY <1>0, <2>7, <2>9, <2>10, <2>11, <2>12, SlaveStep DEF Exchange
<1>3. CASE SlaveSendReturns(r)
  <2>1. /\ spc[r] \in {"sending", "sendingfailure"}
        /\ \E pc \in {"recv", "dead"} : spc' = [spc EXCEPT ![r] = pc]
        /\ job' = [job EXCEPT ![r] = NoEntry] /\ down' = down /\ up' = up
    BY <1>3 DEF SlaveSendReturns
  <2>2. \A s \in Slaves \ {r} : Same(s)
    BY <1>0, <2>1 DEF Same
  <2>3. /\ down'[r] = down[r] /\ up'[r] = up[r]
        /\ Between(spc[r], job[r]) /\ Between(spc'[r], job'[r])
    BY <1>0, <2>1 DEF Between
  <2>4. \/ Assigned(down[r], up[r], spc[r], job[r])
        \/ Answered(down[r], up[r], spc[r], job[r])
        \/ Leaving(down[r], up[r], spc[r], job[r])
    BY <1>0, <2>1 DEF Exchange, Idle, Holding, Gone
  <2>5. Exchange(down'[r], up'[r], spc'[r], job'[r])
    BY <2>3, <2>4 DEF Exchange, Assigned, Answered, Leaving
  <2>6. InHand(down'[r], up'[r], spc'[r], job'[r]) = HeldBy(r)
    <3>1. CASE Assigned(down[r], up[r], spc[r], job[r])
      <4>1. PICK e \in Jobs : down[r] = <<Work(e)>> /\ up[r] = <<>>
        BY <3>1 DEF Assigned
      <4>2. down'[r] = <<Work(e)>> /\ up'[r] = <<>>
        BY <2>3, <4>1
      <4>3. HeldBy(r) = {e} /\ InHand(down'[r], up'[r], spc'[r], job'[r]) = {e}
        BY <2>3, <4>1, <4>2, HandFacts DEF HeldBy
      <4> QED BY <4>3
    <3>2. CASE Answered(down[r], up[r], spc[r], job[r])
      <4>1. PICK e \in Jobs : up[r] = <<Reply(e)>> /\ down[r] = <<>>
        BY <3>2 DEF Answered
      <4>2. up'[r] = <<Reply(e)>> /\ down'[r] = <<>>
        BY <2>3, <4>1
      <4>3. HeldBy(r) = {e} /\ InHand(down'[r], up'[r], spc'[r], job'[r]) = {e}
        BY <2>3, <4>1, <4>2, HandFacts DEF HeldBy
      <4> QED BY <4>3
    <3>3. CASE Leaving(down[r], up[r], spc[r], job[r])
      <4>1. down[r] = <<Bye>> /\ up[r] = <<>>
        BY <3>3 DEF Leaving
      <4>2. down'[r] = <<Bye>> /\ up'[r] = <<>>
        BY <2>3, <4>1
      <4>3. HeldBy(r) = {} /\ InHand(down'[r], up'[r], spc'[r], job'[r]) = {}
        BY <2>3, <4>1, <4>2, HandFacts DEF HeldBy
      <4> QED BY <4>3
    <3> QED BY <2>4, <3>1, <3>2, <3>3
  <2>7. Stopped(down'[r], spc'[r]) <=> Stopped(down[r], spc[r])
    BY <2>3 DEF Stopped, Between
  <2>8. ~Idle(down[r], up[r], spc[r], job[r])
    BY <2>1 DEF Idle
  <2> QED BY <1>0, <2>2, <2>5, <2>6, <2>7, <2>8, SlaveStep
<1>4. CASE Die(r)
  <2>1. /\ spc[r] = "work" /\ spc' = [spc EXCEPT ![r] = "dead"]
        /\ job' = job /\ down' = down /\ up' = up
    BY <1>4 DEF Die
  <2>2. \A s \in Slaves \ {r} : Same(s)
    BY <1>0, <2>1 DEF Same
  <2>3. Holding(down[r], up[r], spc[r], job[r])
    BY <1>0, <2>1, ExchangeFacts
  <2>4. spc'[r] = "dead" /\ down'[r] = <<>> /\ up'[r] = <<>> /\ job'[r] = job[r]
    BY <1>0, <2>1, <2>3 DEF Holding
  <2>5. Holding(down'[r], up'[r], spc'[r], job'[r])
    BY <2>3, <2>4 DEF Holding
  <2>6. HeldBy(r) = {job[r]} /\ InHand(down'[r], up'[r], spc'[r], job'[r]) = {job[r]}
    BY <2>3, <2>4, <2>5, HandFacts DEF HeldBy, Holding
  <2>7. ~Stopped(down[r], spc[r]) /\ ~Stopped(down'[r], spc'[r])
    BY <2>1, <2>3, <2>4 DEF Stopped, Holding
  <2>8. ~Idle(down[r], up[r], spc[r], job[r])
    BY <2>1 DEF Idle
  <2> QED BY <1>0, <2>2, <2>5, <2>6, <2>7, <2>8, SlaveStep DEF Exchange
<1> QED BY <1>1, <1>2, <1>3, <1>4 DEF Slave

\* A step of the master that gives no slave anything and takes nothing from one
LEMMA QuietStep ==
    ASSUME FarmInv, TypeInv', kind' = kind, \A s \in Slaves : Same(s),
           Pending' = Pending, cur' \notin toVisit', log' = log,
           mpc # "done", mpc' # "done",
           mpc' \in Walking => mpc \in Walking /\ items' = items,
           Dismissals'
    PROVE  FarmInv' /\ UNCHANGED D!vars
<1>1. \A s \in Slaves : HeldBy(s)' = HeldBy(s)
  BY JobsStay DEF Same, HeldBy
<1>2. Exclusive' /\ Outstanding' = Outstanding
  BY <1>1, HandsStill DEF FarmInv
<1>3. \A s \in Slaves : Exchange(down[s], up[s], spc[s], job[s])'
  BY JobsStay DEF FarmInv, Same
<1>4. FirstTasks'
  BY JobsStay DEF FarmInv, FirstTasks, Walking, Same
<1> QED BY <1>2, <1>3, <1>4 DEF FarmInv, D!vars

LEMMA StoppedStay ==
    ASSUME \A s \in Slaves : Same(s)
    PROVE  StoppedSet' = StoppedSet
BY DEF StoppedSet, Stopped, Same, Bye

LEMMA FarmQuiet ==
    ASSUME FarmInv, TypeInv', kind' = kind,
           \/ \E e \in Entries : ParseSkip(e) \/ ParseWait(e)
           \/ EndOfWalk \/ MasterSendReturns
    PROVE  FarmInv' /\ UNCHANGED D!vars
<1>0. /\ TypeInv /\ TypeOK /\ CurOK /\ Exclusive /\ Dismissals /\ toVisit \subseteq Entries
      /\ Jobs' = Jobs /\ Files' = Files /\ Jobs \subseteq Files /\ NoEntry \notin Entries
  BY JobsStay, JobsAreEntries, LanguageFarmAssumption DEF FarmInv, TypeInv, TypeOK
<1>1. \A s \in Slaves : Same(s)
  BY DEF ParseSkip, ParseWait, EndOfWalk, MasterSendReturns, slaveVars, Same
<1>2. StoppedSet' = StoppedSet
  BY <1>1, StoppedStay
<1>3. log' = log /\ mpc # "done" /\ mpc' # "done"
  BY DEF ParseSkip, ParseWait, EndOfWalk, MasterSendReturns
<1>4. ASSUME NEW e \in Entries, ParseSkip(e) PROVE FarmInv' /\ UNCHANGED D!vars
  <2>1. /\ mpc = "walk" /\ mpc' = mpc /\ items' = items /\ cur' = cur
        /\ toVisit' = toVisit \ {e} /\ e \notin Files
    BY <1>4 DEF ParseSkip
  <2>2. Pending' = Pending /\ cur' \notin toVisit'
    BY <1>0, <2>1 DEF Pending, Exclusive
  <2>3. Dismissals'
    BY <1>0, <1>2, <2>1 DEF Dismissals, Walking
  <2> QED BY <1>1, <1>3, <2>1, <2>2, <2>3, QuietStep DEF Walking
<1>5. ASSUME NEW e \in Entries, ParseWait(e) PROVE FarmInv' /\ UNCHANGED D!vars
  <2>1. /\ mpc = "walk" /\ mpc' = "request" /\ items' = items /\ items = 0
        /\ cur' = e /\ toVisit' = toVisit \ {e} /\ e \in toVisit \cap Jobs
    BY <1>5 DEF ParseWait
  <2>2. cur = NoEntry
    BY <1>0, <2>1 DEF CurOK
  <2>3. Pending' = Pending /\ cur' \notin toVisit'
    BY <1>0, <2>1, <2>2 DEF Pending
  <2>4. Dismissals'
    BY <1>0, <1>2, <2>1 DEF Dismissals, Walking
  <2> QED BY <1>1, <1>3, <2>1, <2>3, <2>4, QuietStep DEF Walking
<1>6. ASSUME EndOfWalk PROVE FarmInv' /\ UNCHANGED D!vars
  <2>1. /\ mpc = "walk" /\ mpc' = "kill" /\ toVisit = {} /\ items' = NP - 1
        /\ toVisit' = toVisit /\ cur' = cur
    BY <1>6 DEF EndOfWalk
  <2>2. Pending' = Pending /\ cur' \notin toVisit'
    BY <1>0, <2>1 DEF Pending
  <2>3. Cardinality(StoppedSet') = NP - 1 - items'
    <3>1. StoppedSet' = {} /\ Cardinality({}) = 0
      BY <1>0, <1>2, <2>1, FS_EmptySet DEF Dismissals, Walking
    <3> QED BY <2>1, <3>1, LanguageFarmAssumption
  <2>4. Dismissals'
    BY <2>1, <2>3 DEF Dismissals, Walking
  <2> QED BY <1>1, <1>3, <2>1, <2>2, <2>4, QuietStep DEF Walking
<1>7. ASSUME MasterSendReturns PROVE FarmInv' /\ UNCHANGED D!vars
  <2>1. toVisit' = toVisit /\ cur' = cur
    BY <1>7 DEF MasterSendReturns
  <2>2. Pending' = Pending /\ cur' \notin toVisit'
    BY <1>0, <2>1 DEF Pending, Exclusive
  <2>3. CASE mpc = "sendjob"
    <3>1. mpc' = "walk" /\ items' = items
      BY <1>7, <2>3 DEF MasterSendReturns
    <3>2. Dismissals'
      BY <1>0, <1>2, <2>3, <3>1 DEF Dismissals, Walking
    <3> QED BY <1>1, <1>3, <2>2, <2>3, <3>1, <3>2, QuietStep DEF Walking
  <2>4. CASE mpc # "sendjob"
    <3>1. mpc = "senddie" /\ mpc' = "kill" /\ items' = items - 1
      BY <1>7, <2>4 DEF MasterSendReturns
    <3>2. Cardinality(StoppedSet') = NP - 1 - items'
      <4>1. Cardinality(StoppedSet') = NP - items
        BY <1>0, <1>2, <3>1 DEF Dismissals
      <4>2. items \in Int /\ NP \in Int
        BY <1>0, LanguageFarmAssumption DEF TypeOK
      <4> QED BY <3>1, <4>1, <4>2
    <3>3. Dismissals'
      BY <1>0, <2>1, <3>1, <3>2 DEF Dismissals, Walking
    <3> QED BY <1>1, <1>3, <2>2, <3>1, <3>3, QuietStep DEF Walking
  <2> QED BY <2>3, <2>4
<1> QED BY <1>4, <1>5, <1>6, <1>7

\* parse refuses a file for its name: the line is written as if it had been looked at
LEMMA FarmTooLong ==
    ASSUME FarmInv, TypeInv', kind' = kind, NEW e \in Entries, ParseTooLong(e)
    PROVE  FarmInv' /\ D!Next
<1>0. /\ TypeInv /\ CurOK /\ Exclusive /\ Dismissals /\ toVisit \subseteq Entries
      /\ Jobs' = Jobs /\ Files' = Files
  BY JobsStay DEF FarmInv, TypeInv, TypeOK
<1>1. /\ mpc = "walk" /\ mpc' = mpc /\ items' = items /\ cur' = cur
      /\ toVisit' = toVisit \ {e} /\ e \in toVisit \cap (Files \ Jobs)
      /\ log' = Append(log, e) /\ kind[e] = "longname"
  BY DEF ParseTooLong, Jobs, Files
<1>2. \A s \in Slaves : Same(s)
  BY DEF ParseTooLong, slaveVars, Same
<1>3. \A s \in Slaves : HeldBy(s)' = HeldBy(s) /\ HeldBy(s) \subseteq Jobs \ Pending
  BY <1>0, <1>2, JobsStay DEF Same, HeldBy, Exclusive
<1>4. cur = NoEntry
  BY <1>0, <1>1 DEF CurOK
<1>5. Pending' = Pending \ {e} /\ e \in Pending /\ cur' \notin toVisit'
  BY <1>0, <1>1, <1>4 DEF Pending, Exclusive
<1>6. Exclusive'
  BY <1>0, <1>3, <1>5 DEF Exclusive
<1>7. Outstanding' = Outstanding \ {e} /\ e \in Outstanding
  <2>1. \A s \in Slaves : e \notin HeldBy(s)
    BY <1>1, <1>3
  <2>2. UNION {HeldBy(s)' : s \in Slaves} = UNION {HeldBy(s) : s \in Slaves}
    BY <1>3
  <2> QED BY <1>0, <1>5, <2>1, <2>2, OutstandingIs
<1>8. \A s \in Slaves : Exchange(down[s], up[s], spc[s], job[s])'
  BY <1>2, JobsStay DEF FarmInv, Same
<1>9. FirstTasks'
  BY <1>1, <1>2, JobsStay DEF FarmInv, FirstTasks, Walking, Same
<1>10. Dismissals'
  BY <1>0, <1>1, <1>2, StoppedStay DEF Dismissals, Walking
<1>11. D!Detect(e)
  BY <1>1, <1>7 DEF D!Detect, Logged
<1> QED BY <1>6, <1>8, <1>9, <1>10, <1>11 DEF FarmInv, D!Next

\* The master sends the message with this tag and file to slave r, which has none in
\* flight and is between two tasks
LEMMA SendStep ==
    ASSUME FarmInv, TypeInv', kind' = kind, NEW r \in Slaves, NEW tag, NEW e, NEW pc,
           Send(r, tag, e, pc), slaveVars' = slaveVars,
           down[r] = <<>>, up'[r] = <<>>, Between(spc[r], job[r]),
           \A s \in Slaves \ {r} : up'[s] = up[s],
           \/ tag = 1 /\ e \in Jobs
           \/ tag = 0 /\ e = NoEntry
    PROVE  /\ \A s \in Slaves : Exchange(down[s], up[s], spc[s], job[s])'
           /\ \A s \in Slaves \ {r} : Same(s) /\ HeldBy(s)' = HeldBy(s)
           /\ HeldBy(r)' = {e} \ {NoEntry}
           /\ Stopped(down'[r], spc'[r]) <=> tag = 0
<1> DEFINE m == [tag |-> tag, file |-> e]
<1>1. down' = [down EXCEPT ![r] = <<m>>] /\ down \in [Slaves -> Seq(Tasks)]
  BY DEF Send, FarmInv, TypeInv, TypeOK
<1>2. down'[r] = <<m>> /\ up'[r] = <<>> /\ spc'[r] = spc[r] /\ job'[r] = job[r]
  BY <1>1 DEF slaveVars
<1>3. \A s \in Slaves \ {r} : Same(s)
  BY <1>1 DEF Same, slaveVars
<1>4. \A s \in Slaves \ {r} : HeldBy(s)' = HeldBy(s)
  BY <1>3, JobsStay DEF Same, HeldBy
<1>5. CASE tag = 1 /\ e \in Jobs
  <2>1. m = Work(e) /\ e # NoEntry
    BY <1>5, JobsAreEntries DEF Work
  <2> HIDE DEF m
  <2>2. Assigned(down'[r], up'[r], spc'[r], job'[r])
    BY <1>2, <1>5, <2>1 DEF Assigned
  <2>3. HeldBy(r)' = {e}
    BY <1>2, <1>5, <2>1, HandFacts, JobsStay
  <2>4. ~Stopped(down'[r], spc'[r])
    BY <1>2, <2>1, WorkIsNotBye DEF Stopped, Between
  <2>5. \A s \in Slaves : Exchange(down[s], up[s], spc[s], job[s])'
    BY <1>3, <2>2, JobsStay DEF FarmInv, Same, Exchange
  <2> QED BY <1>3, <1>4, <1>5, <2>1, <2>3, <2>4, <2>5
<1>6. CASE tag = 0 /\ e = NoEntry
  <2>1. m = Bye
    BY <1>6 DEF Bye
  <2> HIDE DEF m
  <2>2. Leaving(down'[r], up'[r], spc'[r], job'[r])
    BY <1>2, <2>1 DEF Leaving
  <2>3. HeldBy(r)' = {}
    BY <1>2, <2>1, HandFacts, JobsStay
  <2>4. Stopped(down'[r], spc'[r])
    BY <1>2, <2>1 DEF Stopped
  <2>5. \A s \in Slaves : Exchange(down[s], up[s], spc[s], job[s])'
    BY <1>3, <2>2, JobsStay DEF FarmInv, Same, Exchange
  <2> QED BY <1>3, <1>4, <1>6, <2>3, <2>4, <2>5
<1> QED BY <1>5, <1>6

LEMMA FarmFirstTask ==
    ASSUME FarmInv, TypeInv', kind' = kind, NEW e \in Entries, ParseFirstTask(e)
    PROVE  FarmInv' /\ UNCHANGED D!vars
<1>0. /\ TypeInv /\ TypeOK /\ CurOK /\ Exclusive /\ Dismissals /\ FirstTasks
      /\ toVisit \subseteq Entries /\ NoEntry \notin Entries
      /\ Jobs' = Jobs /\ Files' = Files /\ Jobs \subseteq Files
      /\ \A s \in Slaves : s \in Int
  BY JobsStay, JobsAreEntries, LanguageFarmAssumption DEF FarmInv, TypeInv, TypeOK, Slaves
<1>1. /\ mpc = "walk" /\ mpc' = "sendjob" /\ items' = items - 1 /\ items # 0
      /\ toVisit' = toVisit \ {e} /\ e \in toVisit \cap Jobs /\ cur' = cur /\ log' = log
      /\ slaveVars' = slaveVars /\ up' = up /\ Send(items, 1, e, "sendjob")
  BY DEF ParseFirstTask, Send
<1>2. PICK r \in Slaves : r = items
  BY <1>0, <1>1 DEF TypeOK, Slaves
<1>3. Idle(down[r], up[r], spc[r], job[r])
  BY <1>0, <1>1, <1>2 DEF FirstTasks, Walking
<1>4. HeldBy(r) = {}
  BY <1>3, HandFacts DEF HeldBy, Idle
<1>5. /\ \A s \in Slaves : Exchange(down[s], up[s], spc[s], job[s])'
      /\ \A s \in Slaves \ {r} : Same(s) /\ HeldBy(s)' = HeldBy(s)
      /\ HeldBy(r)' = {e} \ {NoEntry}
      /\ Stopped(down'[r], spc'[r]) <=> 1 = 0
  <2>1. down[r] = <<>> /\ up'[r] = <<>> /\ Between(spc[r], job[r])
    BY <1>1, <1>3 DEF Idle, Between
  <2>2. Send(r, 1, e, "sendjob") /\ e \in Jobs /\ \A s \in Slaves \ {r} : up'[s] = up[s]
    BY <1>1, <1>2
  <2> QED BY <1>1, <2>1, <2>2, SendStep
<1>6. cur = NoEntry
  BY <1>0, <1>1 DEF CurOK
<1>7. /\ Pending' = Pending \ {e} /\ e \in Pending /\ cur' \notin toVisit'
  BY <1>0, <1>1, <1>6 DEF Pending
<1>8. HeldBy(r)' = Pending \ Pending' /\ Pending' \subseteq Pending /\ HeldBy(r)' \subseteq Jobs
  BY <1>0, <1>1, <1>5, <1>7
<1>9. Exclusive' /\ Outstanding' = Outstanding
  BY <1>0, <1>4, <1>5, <1>7, <1>8, HandOver
<1>10. FirstTasks'
  <2> SUFFICES ASSUME NEW s \in Slaves, s <= items - 1
               PROVE  Idle(down'[s], up'[s], spc'[s], job'[s])
    BY <1>1, JobsStay DEF FirstTasks
  <2>1. s # r /\ s <= items
    BY <1>0, <1>2
  <2>2. Idle(down[s], up[s], spc[s], job[s])
    BY <1>0, <1>1, <2>1 DEF FirstTasks, Walking
  <2> QED BY <1>5, <2>1, <2>2 DEF Same
<1>11. StoppedSet' = StoppedSet
  <2>1. ~Stopped(down[r], spc[r]) /\ ~Stopped(down'[r], spc'[r])
    BY <1>3, <1>5 DEF Idle, Stopped
  <2> QED BY <1>5, <2>1 DEF StoppedSet, Stopped, Same, Bye
<1>12. Dismissals'
  BY <1>0, <1>1, <1>11 DEF Dismissals, Walking
<1> QED BY <1>1, <1>5, <1>9, <1>10, <1>12 DEF FarmInv, D!vars

\* The answer at the head of a channel is the only message there, and it says about its
\* document what it should
LEMMA ReceiveFacts ==
    ASSUME FarmInv, NEW r \in Slaves, Receive(r)
    PROVE  \E x \in Jobs :
              /\ HeldBy(r) = {x}
              /\ log' = IF kind[x] \in {"foreign", "unparsable"} THEN Append(log, x) ELSE log
              /\ down[r] = <<>> /\ up'[r] = <<>> /\ Between(spc[r], job[r])
              /\ \A s \in Slaves \ {r} : up'[s] = up[s]
              /\ ~Stopped(down[r], spc[r])
<1>1. up[r] # <<>> /\ up' = [up EXCEPT ![r] = Tail(@)] /\ up \in [Slaves -> Seq(Answers)]
  BY DEF Receive, FarmInv, TypeInv, TypeOK
<1>2. Answered(down[r], up[r], spc[r], job[r])
  BY <1>1, ExchangeFacts DEF FarmInv
<1>3. PICK x \in Jobs : up[r] = <<Reply(x)>>
  BY <1>2 DEF Answered
<1>4. Head(up[r]) = Reply(x) /\ Tail(up[r]) = <<>>
  BY <1>3
<1>5. up'[r] = <<>> /\ \A s \in Slaves \ {r} : up'[s] = up[s]
  BY <1>1, <1>4
<1>6. /\ Reply(x).file = x
      /\ Reply(x).tag = 1 <=> kind[x] \in {"foreign", "unparsable"}
  BY DEF Reply
<1>7. log' = IF kind[x] \in {"foreign", "unparsable"} THEN Append(log, x) ELSE log
  BY <1>4, <1>6 DEF Receive
<1>8. down[r] = <<>> /\ Between(spc[r], job[r]) /\ ~Stopped(down[r], spc[r])
  BY <1>2 DEF Answered, Stopped, Between
<1>9. HeldBy(r) = {x}
  BY <1>3, <1>8, HandFacts DEF HeldBy
<1> QED BY <1>5, <1>7, <1>8, <1>9

LEMMA FarmAnswer ==
    ASSUME FarmInv, TypeInv', kind' = kind, NEW r \in Slaves, ParseAnswer(r) \/ KillSlave(r)
    PROVE  FarmInv' /\ D!Next
<1>0. /\ TypeInv /\ TypeOK /\ CurOK /\ CountOK /\ Exclusive /\ Dismissals
      /\ Jobs' = Jobs /\ Files' = Files
      /\ Jobs \subseteq Files /\ Jobs \subseteq Entries /\ NoEntry \notin Jobs
      /\ toVisit \subseteq Entries /\ NoEntry \notin Entries
  BY JobsStay, JobsAreEntries, LanguageFarmAssumption DEF FarmInv, TypeInv, TypeOK
<1>1. PICK x \in Jobs :
         /\ HeldBy(r) = {x}
         /\ log' = IF kind[x] \in {"foreign", "unparsable"} THEN Append(log, x) ELSE log
         /\ down[r] = <<>> /\ up'[r] = <<>> /\ Between(spc[r], job[r])
         /\ \A s \in Slaves \ {r} : up'[s] = up[s]
         /\ ~Stopped(down[r], spc[r])
  BY ReceiveFacts DEF ParseAnswer, KillSlave
<1>2. x \in Outstanding
  <2>1. x \in UNION {HeldBy(s) : s \in Slaves}
    BY <1>1
  <2> QED BY <1>0, <2>1, OutstandingIs
\* What D!Detect asks for, when what was known to r is all that changes
<1>3. ASSUME Outstanding' = Outstanding \ HeldBy(r), mpc # "done", mpc' # "done"
      PROVE  D!Next
  <2>1. kind[x] \in Logged <=> kind[x] \in {"foreign", "unparsable"}
    BY DEF Jobs, Logged
  <2>2. D!Detect(x)
    BY <1>1, <1>2, <1>3, <2>1 DEF D!Detect
  <2> QED BY <1>0, <2>2 DEF D!Next
<1>4. CASE ParseAnswer(r)
  <2>1. /\ mpc = "request" /\ mpc' = "sendjob" /\ items' = items /\ toVisit' = toVisit
        /\ cur' = NoEntry /\ slaveVars' = slaveVars /\ Send(r, 1, cur, "sendjob")
    BY <1>4 DEF ParseAnswer, Send
  <2>2. cur \in Jobs /\ cur \notin toVisit
    BY <1>0, <2>1 DEF CurOK, TypeOK, Exclusive
  <2>3. /\ \A s \in Slaves : Exchange(down[s], up[s], spc[s], job[s])'
        /\ \A s \in Slaves \ {r} : Same(s) /\ HeldBy(s)' = HeldBy(s)
        /\ HeldBy(r)' = {cur} \ {NoEntry}
        /\ Stopped(down'[r], spc'[r]) <=> 1 = 0
    BY <1>1, <2>1, <2>2, SendStep
  <2>4. Pending' = Pending \ {cur} /\ cur \in Pending /\ cur' \notin toVisit'
    BY <1>0, <2>1, <2>2 DEF Pending
  <2>5. HeldBy(r)' = Pending \ Pending' /\ Pending' \subseteq Pending /\ HeldBy(r)' \subseteq Jobs
    BY <1>0, <2>2, <2>3, <2>4
  <2>6. Exclusive' /\ Outstanding' = Outstanding \ HeldBy(r)
    BY <1>0, <2>3, <2>4, <2>5, HandOver
  <2>7. FirstTasks'
    <3>1. items = 0 /\ \A s \in Slaves : ~(s <= items)
      BY <1>0, <2>1 DEF Dismissals, Slaves
    <3> QED BY <2>1, <3>1 DEF FirstTasks
  <2>8. StoppedSet' = StoppedSet
    BY <1>1, <2>3 DEF StoppedSet, Stopped, Same, Bye
  <2>9. Dismissals'
    BY <1>0, <2>1, <2>8 DEF Dismissals, Walking
  <2>10. D!Next
    BY <1>3, <2>1, <2>6
  <2> QED BY <2>3, <2>6, <2>7, <2>9, <2>10 DEF FarmInv
<1>5. CASE KillSlave(r)
  <2>1. /\ mpc = "kill" /\ mpc' = "senddie" /\ items' = items /\ toVisit' = toVisit
        /\ cur' = cur /\ slaveVars' = slaveVars /\ Send(r, 0, NoEntry, "senddie")
    BY <1>5 DEF KillSlave, Send
  <2>2. /\ \A s \in Slaves : Exchange(down[s], up[s], spc[s], job[s])'
        /\ \A s \in Slaves \ {r} : Same(s) /\ HeldBy(s)' = HeldBy(s)
        /\ HeldBy(r)' = {NoEntry} \ {NoEntry}
        /\ Stopped(down'[r], spc'[r]) <=> 0 = 0
    BY <1>1, <2>1, SendStep
  <2>3. Pending' = Pending /\ cur' \notin toVisit'
    BY <1>0, <2>1 DEF Pending, Exclusive
  <2>4. HeldBy(r)' = Pending \ Pending' /\ Pending' \subseteq Pending /\ HeldBy(r)' \subseteq Jobs
    BY <2>2, <2>3
  <2>5. Exclusive' /\ Outstanding' = Outstanding \ HeldBy(r)
    BY <1>0, <2>2, <2>3, <2>4, HandOver
  <2>6. StoppedSet' = StoppedSet \cup {r} /\ r \notin StoppedSet
    BY <1>1, <2>2 DEF StoppedSet, Stopped, Same, Bye
  <2>7. Cardinality(StoppedSet') = NP - items
    <3>1. Cardinality(StoppedSet) = NP - 1 - items
      BY <1>0, <2>1 DEF Dismissals
    <3>2. IsFiniteSet(StoppedSet)
      BY SlavesFinite, FS_Subset DEF StoppedSet
    <3>3. Cardinality(StoppedSet \cup {r}) = Cardinality(StoppedSet) + 1
      BY <2>6, <3>2, FS_AddElement
    <3>4. items \in Int /\ NP \in Int
      BY <1>0, LanguageFarmAssumption DEF TypeOK
    <3> QED BY <2>6, <3>1, <3>3, <3>4
  <2>8. FirstTasks' /\ Dismissals'
    BY <1>0, <2>1, <2>7 DEF FirstTasks, Dismissals, Walking
  <2>9. D!Next
    BY <1>3, <2>1, <2>5
  <2> QED BY <2>2, <2>5, <2>8, <2>9 DEF FarmInv
<1> QED BY <1>4, <1>5

\* The master comes to its end when every slave is dismissed, and a slave that is
\* dismissed has nothing
LEMMA FarmExit ==
    ASSUME FarmInv, TypeInv', kind' = kind, MasterExit
    PROVE  FarmInv' /\ D!Next
<1>0. /\ TypeInv /\ TypeOK /\ CurOK /\ Exclusive /\ Dismissals
  BY DEF FarmInv, TypeInv
<1>1. /\ mpc = "kill" /\ mpc' = "done" /\ items = 0 /\ toVisit' = toVisit /\ cur' = cur
      /\ log' = log /\ \A s \in Slaves : Same(s)
  BY DEF MasterExit, slaveVars, Same
<1>2. Cardinality(StoppedSet) = NP - 1
  BY <1>0, <1>1, LanguageFarmAssumption DEF Dismissals
<1>3. StoppedSet = Slaves
  <2>1. Cardinality(StoppedSet) = Cardinality(Slaves) /\ StoppedSet \subseteq Slaves
    BY <1>2, SlavesFinite DEF StoppedSet
  <2> QED BY <2>1, SlavesFinite, FS_Subset
<1>4. ASSUME NEW r \in Slaves PROVE HeldBy(r) = {}
  <2>1. Leaving(down[r], up[r], spc[r], job[r]) \/ Gone(down[r], up[r], spc[r], job[r])
    BY <1>3, ExchangeFacts DEF FarmInv, StoppedSet
  <2>2. CASE Leaving(down[r], up[r], spc[r], job[r])
    BY <2>2, HandFacts DEF Leaving, HeldBy
  <2>3. CASE Gone(down[r], up[r], spc[r], job[r])
    BY <2>3, HandFacts DEF Gone, HeldBy
  <2> QED BY <2>1, <2>2, <2>3
<1>5. Pending = {}
  BY <1>0, <1>1 DEF Dismissals, CurOK, Walking, Pending
<1>6. Outstanding = {}
  <2>1. UNION {HeldBy(r) : r \in Slaves} = {}
    BY <1>4
  <2> QED BY <1>0, <1>5, <2>1, OutstandingIs
<1>7. Pending' = Pending /\ cur' \notin toVisit'
  BY <1>0, <1>1, JobsStay DEF Pending, Exclusive
<1>8. \A s \in Slaves : HeldBy(s)' = HeldBy(s)
  BY <1>1, JobsStay DEF Same, HeldBy
<1>9. Exclusive' /\ Outstanding' = Outstanding
  BY <1>0, <1>7, <1>8, HandsStill
<1>10. \A s \in Slaves : Exchange(down[s], up[s], spc[s], job[s])'
  BY <1>1, JobsStay DEF FarmInv, Same
<1>11. FirstTasks' /\ Dismissals'
  BY <1>0, <1>1, <1>2, StoppedStay DEF FirstTasks, Dismissals, Walking
<1>12. D!Return
  BY <1>1, <1>6, <1>9 DEF D!Return
<1> QED BY <1>9, <1>10, <1>11, <1>12 DEF FarmInv, D!Next

LEMMA FarmStep == FarmInv /\ [Next]_vars => FarmInv' /\ [D!Next]_(D!vars)
<1> SUFFICES ASSUME FarmInv, [Next]_vars PROVE FarmInv' /\ [D!Next]_(D!vars)
  OBVIOUS
<1>1. TypeInv' /\ kind' = kind
  BY TypeStep DEF FarmInv, Next, vars
<1>2. CASE Master
  BY <1>1, <1>2, FarmQuiet, FarmTooLong, FarmFirstTask, FarmAnswer, FarmExit DEF Master, Parse
<1>3. CASE \E r \in Slaves : Slave(r)
  BY <1>1, <1>3, FarmSlave
<1>4. CASE Abort \/ UNCHANGED moving
  <2>1. /\ \A s \in Slaves : Same(s)
        /\ toVisit' = toVisit /\ items' = items /\ cur' = cur /\ mpc' = mpc /\ log' = log
    BY <1>4 DEF Abort, moving, masterVars, slaveVars, Same
  <2>2. Pending' = Pending /\ cur' \notin toVisit'
    BY <1>1, <2>1, JobsStay DEF Pending, FarmInv, Exclusive
  <2>3. \A s \in Slaves : HeldBy(s)' = HeldBy(s)
    BY <1>1, <2>1, JobsStay DEF Same, HeldBy
  <2>4. Exclusive' /\ Outstanding' = Outstanding
    BY <1>1, <2>2, <2>3, HandsStill DEF FarmInv
  <2>5. \A s \in Slaves : Exchange(down[s], up[s], spc[s], job[s])'
    BY <1>1, <2>1, JobsStay DEF FarmInv, Same
  <2>6. FirstTasks'
    BY <1>1, <2>1, JobsStay DEF FarmInv, FirstTasks, Same, Walking
  <2>7. Dismissals'
    BY <2>1, StoppedStay DEF FarmInv, Dismissals, Walking
  <2> QED BY <1>1, <2>1, <2>4, <2>5, <2>6, <2>7 DEF FarmInv, D!vars
<1> QED BY <1>2, <1>3, <1>4 DEF Next, Step, Terminated, vars

\* The farm is the detector in one process, for any number of slaves and any directory:
\* each step looks at one file nobody has looked at, or refuses it for its name, and the
\* line about it and no other is written then, or the program ends with nothing left, or
\* nothing of this changes
THEOREM FarmIsDetector == Spec => DetectorImplemented
<1>1. Init => FarmInv /\ D!Init
  BY InitFarm
<1>2. FarmInv /\ [Next]_vars => FarmInv' /\ [D!Next]_(D!vars)
  BY FarmStep
<1> QED BY <1>1, <1>2, PTL DEF Spec, D!Spec, DetectorImplemented

\* What has been looked at and deserves a line has one, and nothing else has; the
\* lines are about different documents because a document that has one is not outstanding
DetectorInv ==
    /\ Outstanding \subseteq D!Documents
    /\ log \in Seq(Entries)
    /\ D!PrintedFiles = {e \in D!Documents \ Outstanding : kind[e] \in Logged}
    /\ \A i, j \in 1 .. Len(log) : log[i] = log[j] => i = j
    /\ mpc = "done" => Outstanding = {}

LEMMA DetectorInit == D!Init => DetectorInv
<1> SUFFICES ASSUME D!Init PROVE DetectorInv
  OBVIOUS
<1>1. log = <<>> /\ Len(log) = 0 /\ 1 .. 0 = {}
  BY DEF D!Init
<1>2. D!PrintedFiles = {}
  BY <1>1 DEF D!PrintedFiles
<1> QED BY <1>1, <1>2 DEF D!Init, DetectorInv

LEMMA DetectorStep == DetectorInv /\ [D!Next]_(D!vars) => DetectorInv'
<1> SUFFICES ASSUME DetectorInv, [D!Next]_(D!vars) PROVE DetectorInv'
  OBVIOUS
<1>0. /\ Outstanding \subseteq D!Documents /\ log \in Seq(Entries)
      /\ D!PrintedFiles = {e \in D!Documents \ Outstanding : kind[e] \in Logged}
      /\ \A i, j \in 1 .. Len(log) : log[i] = log[j] => i = j
      /\ mpc = "done" => Outstanding = {}
  BY DEF DetectorInv
<1>1. ASSUME NEW e \in Entries, D!Detect(e), kind[e] \in Logged PROVE DetectorInv'
  <2>1. /\ mpc # "done" /\ e \in Outstanding /\ Outstanding' = Outstanding \ {e}
        /\ kind' = kind /\ (mpc' = "done") = (mpc = "done")
        /\ log' = Append(log, e)
    BY <1>1 DEF D!Detect
  <2>2. D!Documents' = D!Documents
    BY <2>1 DEF D!Documents
  <2>3. e \in D!Documents /\ e \notin D!PrintedFiles
    BY <1>0, <2>1
  <2>4. /\ log' \in Seq(Entries) /\ Len(log') = Len(log) + 1
        /\ log'[Len(log) + 1] = e /\ Len(log) \in Nat
        /\ \A i \in 1 .. Len(log) : log'[i] = log[i]
    BY <1>0, <2>1
  <2>5. \A i \in 1 .. Len(log') : i \in 1 .. Len(log) \/ i = Len(log) + 1
    BY <2>4
  <2>6. D!PrintedFiles' = D!PrintedFiles \cup {e}
    <3>1. \A x \in D!PrintedFiles' : x \in D!PrintedFiles \cup {e}
      BY <2>4, <2>5 DEF D!PrintedFiles
    <3>2. 1 .. Len(log) \subseteq 1 .. Len(log') /\ Len(log) + 1 \in 1 .. Len(log')
      BY <2>4
    <3>3. \A x \in D!PrintedFiles \cup {e} : x \in D!PrintedFiles'
      BY <2>4, <3>2 DEF D!PrintedFiles
    <3> QED BY <3>1, <3>3
  <2>7. D!PrintedFiles' = {x \in D!Documents' \ Outstanding' : kind'[x] \in Logged}
    BY <1>0, <1>1, <2>1, <2>2, <2>3, <2>6
  <2>8. ASSUME NEW i \in 1 .. Len(log'), NEW j \in 1 .. Len(log'), log'[i] = log'[j]
        PROVE  i = j
    <3>1. \A k \in 1 .. Len(log) : log[k] # e
      BY <2>3 DEF D!PrintedFiles
    <3> QED BY <1>0, <2>4, <2>5, <2>8, <3>1
  <2>9. Outstanding' \subseteq D!Documents' /\ (mpc' = "done" => Outstanding' = {})
    BY <1>0, <2>1, <2>2
  <2> QED BY <2>4, <2>7, <2>8, <2>9 DEF DetectorInv
<1>2. ASSUME NEW e \in Entries, D!Detect(e), kind[e] \notin Logged PROVE DetectorInv'
  <2>1. /\ mpc # "done" /\ e \in Outstanding /\ Outstanding' = Outstanding \ {e}
        /\ kind' = kind /\ (mpc' = "done") = (mpc = "done")
        /\ log' = log
    BY <1>2 DEF D!Detect
  <2>2. D!Documents' = D!Documents /\ D!PrintedFiles' = D!PrintedFiles
    BY <2>1 DEF D!Documents, D!PrintedFiles
  <2>3. D!PrintedFiles' = {x \in D!Documents' \ Outstanding' : kind'[x] \in Logged}
    BY <1>0, <1>2, <2>1, <2>2
  <2> QED BY <1>0, <2>1, <2>2, <2>3 DEF DetectorInv
<1>3. ASSUME D!Return PROVE DetectorInv'
  <2>1. Outstanding = {} /\ kind' = kind /\ Outstanding' = Outstanding /\ log' = log
    BY <1>3 DEF D!Return
  <2>2. D!Documents' = D!Documents /\ D!PrintedFiles' = D!PrintedFiles
    BY <2>1 DEF D!Documents, D!PrintedFiles
  <2> QED BY <1>0, <2>1, <2>2 DEF DetectorInv
<1>4. ASSUME UNCHANGED D!vars PROVE DetectorInv'
  <2>1. kind' = kind /\ Outstanding' = Outstanding /\ log' = log /\ (mpc' = "done") = (mpc = "done")
    BY <1>4 DEF D!vars
  <2>2. D!Documents' = D!Documents /\ D!PrintedFiles' = D!PrintedFiles
    BY <2>1 DEF D!Documents, D!PrintedFiles
  <2> QED BY <1>0, <2>1, <2>2 DEF DetectorInv
<1> QED BY <1>1, <1>2, <1>3, <1>4 DEF D!Next

LEMMA DetectorInvExact == DetectorInv => D!LogExact
<1> SUFFICES ASSUME DetectorInv PROVE D!LogExact
  OBVIOUS
<1>1. \A i \in 1 .. Len(log) : log[i] \in D!PrintedFiles
  BY DEF D!PrintedFiles
<1>2. \A x \in D!PrintedFiles : x \in D!Documents /\ kind[x] \in Logged
  BY DEF DetectorInv
<1>3. mpc = "done" => \A e \in D!Documents : kind[e] \in Logged => e \in D!PrintedFiles
  BY DEF DetectorInv
<1> QED BY <1>1, <1>2, <1>3 DEF DetectorInv, D!LogExact

\* The log of the farm is exact: when the master has ended there is one line about every
\* document in another language, every one that cannot be parsed and every file with too
\* long a name, and there never is a line about another, or a second one.
\* It is the detector's: any program that implements it has this log
THEOREM FarmLogExact == Spec => []D!LogExact
<1>1. D!Spec => []DetectorInv
  BY DetectorInit, DetectorStep, PTL DEF D!Spec
<1>2. Spec => D!Spec
  BY FarmIsDetector DEF DetectorImplemented
<1> QED BY <1>1, <1>2, DetectorInvExact, PTL
=============================================================================
