--------------------------- MODULE TaskFarmProofs ---------------------------
(***************************************************************************)
(* Theorems about TaskFarm, for any number of processes and any directory. *)
(***************************************************************************)
EXTENDS TaskFarm, FiniteSetTheorems, SequenceTheorems, TLAPS

-----------------------------------------------------------------------------
(* Types. *)

\* A job is an entry, and its rows are pieces
LEMMA JobsAreEntries == Jobs \subseteq Entries /\ NoEntry \notin Jobs
BY FarmAssumption DEF Jobs

LEMMA RowsType == ASSUME NEW e \in Entries PROVE Rows(e) \in Seq(Piece)
<1>1. CASE HasRows(e)
  <2>1. <<e, 1>> \in Piece /\ <<e, 2>> \in Piece
    BY DEF Piece
  <2> QED BY <1>1, <2>1 DEF Rows
<1>2. CASE ~HasRows(e)
  BY <1>2 DEF Rows
<1> QED BY <1>1, <1>2

\* Cutting a sequence in two gives sequences of the same elements
LEMMA CutType ==
    ASSUME NEW S, NEW s \in Seq(S), NEW k \in 0 .. Len(s)
    PROVE  /\ SubSeq(s, 1, k) \in Seq(S)
           /\ SubSeq(s, k + 1, Len(s)) \in Seq(S)
<1>1. Len(s) \in Nat
  OBVIOUS
<1>2. \A i \in 1 .. k : s[i] \in S
  OBVIOUS
<1>3. \A i \in k + 1 .. Len(s) : s[i] \in S
  OBVIOUS
<1> QED BY <1>1, <1>2, <1>3, SubSeqProperties

\* What the type invariant needs to be inductive: parse holds a file exactly
\* while it waits for a request, and a slave works on one exactly while it is
\* in the middle of its loop
CurOK == (cur # NoEntry) <=> (mpc = "request")

JobOK ==
    \A r \in Slaves :
        /\ spc[r] = "work" => job[r] # NoEntry
        /\ job[r] # NoEntry => spc[r] \in {"work", "dead"}

\* kill_slaves sends a dismissal only while it still has one to send
CountOK == mpc = "senddie" => items # 0

TypeInv == TypeOK /\ CurOK /\ JobOK /\ CountOK

LEMMA InitType == Init => TypeInv
<1> SUFFICES ASSUME Init PROVE TypeInv
  OBVIOUS
<1>1. Stale \in Piece /\ <<Stale>> \in Seq(Piece) /\ <<>> \in Seq(Piece)
  BY DEF Piece
<1>2. items \in 0 .. NP - 1 /\ 0 \in 0 .. NP - 1 /\ 1 \in 1 .. NP
  BY FarmAssumption DEF Init
<1>3. down \in [Slaves -> Seq(Message)]
  BY DEF Init
<1>4. up \in [Slaves -> Seq(Slaves)] /\ buf \in [Slaves -> Seq(Piece)]
  BY DEF Init
<1>5. disk \in [Slaves -> Seq(Piece)]
  BY <1>1 DEF Init
<1>6. merged \in Seq(Piece)
  BY <1>1 DEF Init
<1>7. TypeOK
  BY <1>2, <1>3, <1>4, <1>5, <1>6 DEF Init, TypeOK
<1> QED BY <1>7 DEF Init, TypeInv, CurOK, JobOK, CountOK

\* Sending keeps the channels typed
LEMMA SendType ==
    ASSUME TypeOK, NEW r \in Slaves, NEW m \in Message, NEW pc, Send(r, m, pc)
    PROVE  /\ down' \in [Slaves -> Seq(Message)]
           /\ dest' \in 0 .. NP - 1
           /\ mpc' = pc
<1>1. down[r] \in Seq(Message) /\ Append(down[r], m) \in Seq(Message)
  BY DEF TypeOK
<1>2. down' \in [Slaves -> Seq(Message)]
  BY <1>1 DEF TypeOK, Send
<1>3. dest' \in 0 .. NP - 1
  BY FarmAssumption DEF Send, Slaves
<1> QED BY <1>2, <1>3 DEF Send

\* Taking the head of a channel keeps the channels typed
LEMMA TailType ==
    ASSUME NEW D, NEW S, NEW ch \in [D -> Seq(S)], NEW r \in D, ch[r] # <<>>
    PROVE  /\ [ch EXCEPT ![r] = Tail(@)] \in [D -> Seq(S)]
           /\ Head(ch[r]) \in S
<1>1. ch[r] \in Seq(S)
  OBVIOUS
<1>2. Tail(ch[r]) \in Seq(S) /\ Head(ch[r]) \in S
  BY <1>1
<1> QED BY <1>2

LEMMA TypeStep == TypeInv /\ [Next]_vars => TypeInv'
<1> SUFFICES ASSUME TypeInv, [Next]_vars PROVE TypeInv'
  OBVIOUS
<1> USE FarmAssumption, JobsAreEntries
<1>0. TypeOK /\ CurOK /\ JobOK /\ CountOK
  BY DEF TypeInv
<1>1. ASSUME NEW e \in Entries, ParseSkip(e) PROVE TypeInv'
  BY <1>0, <1>1 DEF ParseSkip, TypeInv, TypeOK, CurOK, JobOK, CountOK, slaveVars
<1>2. ASSUME NEW e \in Entries, ParseFirstTask(e) PROVE TypeInv'
  <2>1. items \in Slaves /\ Work(e) \in Message /\ items - 1 \in 0 .. NP - 1
    BY <1>0, <1>2 DEF ParseFirstTask, TypeOK, Slaves, Message
  <2>2. /\ down' \in [Slaves -> Seq(Message)] /\ dest' \in 0 .. NP - 1
        /\ mpc' = "sendjob"
    BY <1>0, <1>2, <2>1, SendType DEF ParseFirstTask
  <2> QED BY <1>0, <1>2, <2>1, <2>2
          DEF ParseFirstTask, TypeInv, TypeOK, CurOK, JobOK, CountOK, slaveVars
<1>3. ASSUME NEW e \in Entries, ParseWait(e) PROVE TypeInv'
  BY <1>0, <1>3 DEF ParseWait, TypeInv, TypeOK, CurOK, JobOK, CountOK, slaveVars
<1>4. ASSUME NEW r \in Slaves, ParseAnswer(r) PROVE TypeInv'
  <2>1. Work(cur) \in Message
    BY <1>0, <1>4 DEF ParseAnswer, CurOK, TypeOK, Message
  <2>2. /\ down' \in [Slaves -> Seq(Message)] /\ dest' \in 0 .. NP - 1
        /\ mpc' = "sendjob"
    BY <1>0, <1>4, <2>1, SendType DEF ParseAnswer
  <2>3. up' \in [Slaves -> Seq(Slaves)]
    BY <1>0, <1>4, TailType DEF ParseAnswer, TypeOK
  <2> QED BY <1>0, <1>4, <2>2, <2>3
          DEF ParseAnswer, TypeInv, TypeOK, CurOK, JobOK, CountOK, slaveVars
<1>5. ASSUME NEW r \in Slaves, KillSlave(r) PROVE TypeInv'
  <2>1. Die \in Message
    BY DEF Message
  <2>2. /\ down' \in [Slaves -> Seq(Message)] /\ dest' \in 0 .. NP - 1
        /\ mpc' = "senddie"
    BY <1>0, <1>5, <2>1, SendType DEF KillSlave
  <2>3. up' \in [Slaves -> Seq(Slaves)]
    BY <1>0, <1>5, TailType DEF KillSlave, TypeOK
  <2> QED BY <1>0, <1>5, <2>2, <2>3
          DEF KillSlave, TypeInv, TypeOK, CurOK, JobOK, CountOK, slaveVars
<1>6. ASSUME EndOfWalk \/ Sleep \/ OpenMerged \/ EndOfMerge PROVE TypeInv'
  <2>1. <<>> \in Seq(Piece) /\ 1 \in 1 .. NP /\ NP - 1 \in 0 .. NP - 1
    OBVIOUS
  <2>2. CASE EndOfWalk
    BY <1>0, <2>1, <2>2 DEF EndOfWalk, TypeInv, TypeOK, CurOK, JobOK, CountOK, slaveVars
  <2>3. CASE Sleep
    BY <1>0, <2>3 DEF Sleep, TypeInv, TypeOK, CurOK, JobOK, CountOK, slaveVars
  <2>4. CASE OpenMerged
    BY <1>0, <2>1, <2>4 DEF OpenMerged, TypeInv, TypeOK, CurOK, JobOK, CountOK, slaveVars
  <2>5. CASE EndOfMerge
    BY <1>0, <2>5 DEF EndOfMerge, TypeInv, TypeOK, CurOK, JobOK, CountOK, slaveVars
  <2> QED BY <1>6, <2>2, <2>3, <2>4, <2>5
<1>7. ASSUME MasterSendReturns PROVE TypeInv'
  <2>1. 0 \in 0 .. NP - 1
    OBVIOUS
  <2>2. items' \in 0 .. NP - 1
    BY <1>0, <1>7 DEF MasterSendReturns, TypeOK, CountOK
  <2> QED BY <1>0, <1>7, <2>1, <2>2
          DEF MasterSendReturns, TypeInv, TypeOK, CurOK, JobOK, CountOK, slaveVars
<1>8. ASSUME MergeFile PROVE TypeInv'
  <2>1. next \in Slaves /\ next' \in 1 .. NP
    BY <1>0, <1>8 DEF MergeFile, TypeOK, Slaves
  <2>2. disk[next] \in Seq(Piece)
    BY <1>0, <2>1 DEF TypeOK
  <2>3. merged' \in Seq(Piece)
    BY <1>0, <1>8, <2>2 DEF MergeFile, TypeOK
  <2> QED BY <1>0, <1>8, <2>1, <2>3
          DEF MergeFile, TypeInv, TypeOK, CurOK, JobOK, CountOK, slaveVars
<1>9. ASSUME NEW r \in Slaves, OpenResultFile(r) PROVE TypeInv'
  <2>1. <<>> \in Seq(Piece)
    OBVIOUS
  <2>2. disk' \in [Slaves -> Seq(Piece)]
    BY <1>0, <1>9, <2>1 DEF OpenResultFile, TypeOK
  <2>3. PICK pc \in {"recv", "dead"} : spc' = [spc EXCEPT ![r] = pc]
    BY <1>9 DEF OpenResultFile
  <2> QED BY <1>0, <1>9, <2>2, <2>3
          DEF OpenResultFile, TypeInv, TypeOK, CurOK, JobOK, CountOK, masterVars
<1>10. ASSUME NEW r \in Slaves, ReceiveTask(r) PROVE TypeInv'
  <2>1. /\ down' \in [Slaves -> Seq(Message)]
        /\ Head(down[r]) \in Message
    BY <1>0, <1>10, TailType DEF ReceiveTask, TypeOK
  <2>2. CASE Head(down[r]).tag = 1
    <3>1. PICK e \in Jobs : Head(down[r]) = Work(e)
      BY <2>1, <2>2 DEF Message, Die
    <3>2. Head(down[r]).tag # 0 /\ Head(down[r]).file = e
      BY <3>1 DEF Work
    <3>3. job' = [job EXCEPT ![r] = e] /\ spc' = [spc EXCEPT ![r] = "work"]
      BY <1>10, <3>2 DEF ReceiveTask
    <3> QED BY <1>0, <1>10, <2>1, <3>3
            DEF ReceiveTask, TypeInv, TypeOK, CurOK, JobOK, CountOK, masterVars
  <2>3. CASE Head(down[r]).tag # 1
    <3>1. spc' = [spc EXCEPT ![r] = "closing"] /\ job' = job
      BY <1>10, <2>3 DEF ReceiveTask
    <3> QED BY <1>0, <1>10, <2>1, <3>1
            DEF ReceiveTask, TypeInv, TypeOK, CurOK, JobOK, CountOK, masterVars
  <2> QED BY <2>2, <2>3
<1>11. ASSUME NEW r \in Slaves, Process(r) PROVE TypeInv'
  <2> DEFINE out == buf[r] \o Rows(job[r])
  <2>1. job[r] \in Jobs /\ Rows(job[r]) \in Seq(Piece)
    BY <1>0, <1>11, RowsType DEF Process, JobOK, TypeOK
  <2>2. out \in Seq(Piece)
    BY <1>0, <2>1 DEF TypeOK
  <2>3. PICK k \in 0 .. Len(out) :
           /\ disk' = [disk EXCEPT ![r] = @ \o SubSeq(out, 1, k)]
           /\ buf' = [buf EXCEPT ![r] = SubSeq(out, k + 1, Len(out))]
    BY <1>11 DEF Process
  <2> HIDE DEF out
  <2>4. SubSeq(out, 1, k) \in Seq(Piece) /\ SubSeq(out, k + 1, Len(out)) \in Seq(Piece)
    BY <2>2, CutType
  <2>5. disk[r] \o SubSeq(out, 1, k) \in Seq(Piece)
    BY <1>0, <2>4 DEF TypeOK
  <2>6. disk' \in [Slaves -> Seq(Piece)] /\ buf' \in [Slaves -> Seq(Piece)]
    BY <1>0, <2>3, <2>4, <2>5 DEF TypeOK
  <2> QED BY <1>0, <1>11, <2>6
          DEF Process, TypeInv, TypeOK, CurOK, JobOK, CountOK, masterVars
<1>12. ASSUME NEW r \in Slaves, Crash(r) PROVE TypeInv'
  <2>1. <<>> \in Seq(Piece)
    OBVIOUS
  <2> QED BY <1>0, <1>12, <2>1
          DEF Crash, TypeInv, TypeOK, CurOK, JobOK, CountOK, masterVars
<1>13. ASSUME NEW r \in Slaves, RequestTask(r) PROVE TypeInv'
  <2>1. Append(up[r], r) \in Seq(Slaves)
    BY <1>0 DEF TypeOK
  <2>2. up' \in [Slaves -> Seq(Slaves)]
    BY <1>0, <1>13, <2>1 DEF RequestTask, TypeOK
  <2> QED BY <1>0, <1>13, <2>2
          DEF RequestTask, TypeInv, TypeOK, CurOK, JobOK, CountOK, masterVars
<1>14. ASSUME NEW r \in Slaves, SlaveSendReturns(r) PROVE TypeInv'
  BY <1>0, <1>14 DEF SlaveSendReturns, TypeInv, TypeOK, CurOK, JobOK, CountOK, masterVars
<1>15. ASSUME NEW r \in Slaves, CloseResultFile(r) PROVE TypeInv'
  <2>1. disk[r] \o buf[r] \in Seq(Piece) /\ <<>> \in Seq(Piece)
    BY <1>0 DEF TypeOK
  <2>2. disk' \in [Slaves -> Seq(Piece)] /\ buf' \in [Slaves -> Seq(Piece)]
    BY <1>0, <1>15, <2>1 DEF CloseResultFile, TypeOK
  <2> QED BY <1>0, <1>15, <2>2
          DEF CloseResultFile, TypeInv, TypeOK, CurOK, JobOK, CountOK, masterVars
<1>16. ASSUME Abort \/ UNCHANGED vars PROVE TypeInv'
  BY <1>0, <1>16 DEF Abort, vars, masterVars, slaveVars, TypeInv, TypeOK, CurOK, JobOK, CountOK
<1> QED
  BY <1>1, <1>2, <1>3, <1>4, <1>5, <1>6, <1>7, <1>8, <1>9, <1>10, <1>11, <1>12,
     <1>13, <1>14, <1>15, <1>16
  DEF Next, Master, Parse, Slave, Terminated

\* The variables have their types in every state of every farm
THEOREM TypeCorrect == Spec => []TypeOK
<1>1. TypeInv => TypeOK
  BY DEF TypeInv
<1> QED BY InitType, TypeStep, <1>1, PTL DEF Spec

-----------------------------------------------------------------------------
(* The exchange between the master and a slave, and the two countdowns. *)

\* Something is under way between the master and slave r
Engaged(r) == down[r] # <<>> \/ Busy(r) \/ up[r] # <<>>

\* Dismissed(r), for a channel with at most one message
Stopped(r) == spc[r] \in {"closing", "closed"} \/ down[r] = <<Die>>

\* Slave r and its two channels
Exchange(r) ==
    /\ down[r] = <<>> \/ \E m \in Message : down[r] = <<m>>
    /\ up[r] \in {<<>>, <<r>>}
    /\ down[r] # <<>> => ~Busy(r) /\ up[r] = <<>>
    /\ up[r] # <<>> => spc[r] \in {"recv", "sending"}
    /\ spc[r] \in {"closing", "closed"} => down[r] = <<>>
    /\ down[r] = <<Die>> => spc[r] \in {"recv", "sending"}

Walking == {"walk", "request", "sendjob"}

\* While the tree is walked the ranks up to ITEMS_TO_BE_SENT have had no task,
\* and each of the others has one, or a request under way
FirstTasks ==
    mpc \in Walking =>
        \A r \in Slaves :
            /\ r <= items => ~Engaged(r) /\ ~Stopped(r)
            /\ r > items => Engaged(r) /\ ~Stopped(r)

\* Afterwards ITEMS_TO_BE_SENT counts the slaves that are not dismissed
StoppedSet == {r \in Slaves : Stopped(r)}

Dismissals ==
    /\ mpc = "request" => items = 0
    /\ mpc \notin Walking => toVisit = {}
    /\ mpc \in Walking => StoppedSet = {}
    /\ mpc = "kill" => Cardinality(StoppedSet) = NP - 1 - items
    /\ mpc = "senddie" => Cardinality(StoppedSet) = NP - items
    /\ mpc \in {"sleep", "merge", "done", "dead"} => Cardinality(StoppedSet) = NP - 1

FarmInv == TypeInv /\ (\A r \in Slaves : Exchange(r)) /\ FirstTasks /\ Dismissals

LEMMA SlavesFinite == IsFiniteSet(Slaves) /\ Cardinality(Slaves) = NP - 1
BY FarmAssumption, FS_Interval DEF Slaves

LEMMA WorkIsNotDie == \A e : Work(e) # Die /\ <<Work(e)>> # <<Die>>
<1>1. \A e : Work(e).tag # Die.tag
  BY DEF Work, Die
<1>2. \A e : Work(e) # Die
  BY <1>1
<1>3. \A e : <<Work(e)>>[1] # <<Die>>[1]
  BY <1>2
<1> QED BY <1>2, <1>3

LEMMA InitFarm == Init => FarmInv
<1> SUFFICES ASSUME Init PROVE FarmInv
  OBVIOUS
<1>1. TypeInv
  BY InitType
<1>2. <<>> # <<Die>>
  OBVIOUS
<1>3. \A r \in Slaves : Exchange(r) /\ ~Engaged(r) /\ ~Stopped(r)
  BY <1>2 DEF Init, Exchange, Engaged, Stopped, Busy
<1>4. \A r \in Slaves : r <= items
  BY FarmAssumption DEF Init, Slaves
<1>5. \A r \in Slaves : ~(r > items)
  BY FarmAssumption DEF Init, Slaves
<1> QED BY <1>1, <1>3, <1>4, <1>5 DEF FarmInv, FirstTasks, Dismissals, StoppedSet, Init, Walking

\* The step leaves slave s and its channels alone
Same(s) ==
    /\ down'[s] = down[s] /\ up'[s] = up[s]
    /\ spc'[s] = spc[s] /\ job'[s] = job[s]

LEMMA SameKeeps ==
    ASSUME NEW s \in Slaves, Same(s), Exchange(s)
    PROVE  /\ Exchange(s)'
           /\ Engaged(s)' <=> Engaged(s)
           /\ Stopped(s)' <=> Stopped(s)
BY DEF Same, Exchange, Engaged, Stopped, Busy

\* A step of slave r that neither opens nor ends an exchange, or ends one after
\* the walk, keeps the invariant
LEMMA SlaveStep ==
    ASSUME FarmInv, TypeInv', NEW r \in Slaves,
           mpc' = mpc, items' = items, toVisit' = toVisit,
           \A s \in Slaves \ {r} : Same(s),
           Exchange(r)',
           Stopped(r)' <=> Stopped(r),
           Stopped(r) \/ (Engaged(r)' <=> Engaged(r))
    PROVE  FarmInv'
<1>1. \A s \in Slaves : Exchange(s)'
  BY SameKeeps DEF FarmInv
<1>2. \A s \in Slaves : Stopped(s)' <=> Stopped(s)
  BY SameKeeps DEF FarmInv
<1>3. \A s \in Slaves : s # r => (Engaged(s)' <=> Engaged(s))
  BY SameKeeps DEF FarmInv
<1>4. FirstTasks'
  <2> SUFFICES ASSUME mpc \in Walking, NEW s \in Slaves
               PROVE  /\ s <= items => ~Engaged(s)' /\ ~Stopped(s)'
                      /\ s > items => Engaged(s)' /\ ~Stopped(s)'
    BY DEF FirstTasks, Walking
  <2>1. /\ s <= items => ~Engaged(s) /\ ~Stopped(s)
        /\ s > items => Engaged(s) /\ ~Stopped(s)
    BY DEF FarmInv, FirstTasks
  <2>2. s <= items \/ s > items
    BY DEF FarmInv, TypeInv, TypeOK, Slaves
  <2> QED BY <1>2, <1>3, <2>1, <2>2
<1>5. StoppedSet' = StoppedSet
  BY <1>2 DEF StoppedSet
<1>6. Dismissals'
  BY <1>5 DEF FarmInv, Dismissals, Walking
<1> QED BY <1>1, <1>4, <1>6 DEF FarmInv

LEMMA FarmSlave ==
    ASSUME FarmInv, TypeInv', NEW r \in Slaves, Slave(r)
    PROVE  FarmInv'
<1>0. /\ mpc' = mpc /\ items' = items /\ toVisit' = toVisit
      /\ down \in [Slaves -> Seq(Message)] /\ up \in [Slaves -> Seq(Slaves)]
      /\ spc \in [Slaves -> {"start", "recv", "work", "reply", "sending",
                             "closing", "closed", "dead"}]
      /\ job \in [Slaves -> Jobs \cup {NoEntry}]
      /\ NoEntry \notin Jobs
      /\ Exchange(r) /\ JobOK
  BY JobsAreEntries DEF FarmInv, TypeInv, TypeOK, Slave, masterVars, OpenResultFile,
     ReceiveTask, Process, Crash, RequestTask, SlaveSendReturns, CloseResultFile
<1>1. CASE OpenResultFile(r)
  <2>1. PICK pc \in {"recv", "dead"} : spc' = [spc EXCEPT ![r] = pc]
    BY <1>1 DEF OpenResultFile
  <2>2. job[r] = NoEntry
    BY <1>0, <1>1 DEF OpenResultFile, JobOK
  <2>3. \A s \in Slaves \ {r} : Same(s)
    BY <1>0, <1>1, <2>1 DEF OpenResultFile, Same
  <2>4. Exchange(r)' /\ (Stopped(r)' <=> Stopped(r)) /\ (Engaged(r)' <=> Engaged(r))
    BY <1>0, <1>1, <2>1, <2>2 DEF OpenResultFile, Exchange, Stopped, Engaged, Busy
  <2> QED BY <1>0, <2>3, <2>4, SlaveStep
<1>2. CASE ReceiveTask(r)
  <2>1. PICK m \in Message : down[r] = <<m>>
    BY <1>0, <1>2 DEF ReceiveTask, Exchange
  <2>2. Head(down[r]) = m /\ Tail(down[r]) = <<>>
    BY <2>1
  <2>3. down' = [down EXCEPT ![r] = <<>>] /\ up' = up /\ up[r] = <<>> /\ spc[r] = "recv"
    BY <1>0, <1>2, <2>1, <2>2 DEF ReceiveTask, Exchange
  <2>4. CASE m.tag = 1
    <3>1. PICK e \in Jobs : m = Work(e)
      BY <2>4 DEF Message, Die
    <3>2. job' = [job EXCEPT ![r] = e] /\ spc' = [spc EXCEPT ![r] = "work"]
      BY <1>2, <2>2, <3>1 DEF ReceiveTask, Work
    <3>3. \A s \in Slaves \ {r} : Same(s)
      BY <1>0, <2>3, <3>2 DEF Same
    <3>4. ~Stopped(r) /\ Engaged(r)
      BY <2>1, <2>3, <3>1, WorkIsNotDie DEF Stopped, Engaged
    <3>5. Exchange(r)' /\ ~Stopped(r)' /\ Engaged(r)'
      BY <1>0, <2>3, <3>2 DEF Exchange, Stopped, Engaged, Busy
    <3> QED BY <1>0, <3>3, <3>4, <3>5, SlaveStep
  <2>5. CASE m.tag # 1
    <3>1. m = Die
      BY <2>5 DEF Message, Work
    <3>2. job' = job /\ spc' = [spc EXCEPT ![r] = "closing"]
      BY <1>2, <2>2, <2>5 DEF ReceiveTask
    <3>3. \A s \in Slaves \ {r} : Same(s)
      BY <1>0, <2>3, <3>2 DEF Same
    <3>4. Stopped(r)
      BY <2>1, <3>1 DEF Stopped
    <3>5. Exchange(r)' /\ Stopped(r)'
      BY <1>0, <2>3, <3>2 DEF Exchange, Stopped, Busy
    <3> QED BY <1>0, <3>3, <3>4, <3>5, SlaveStep
  <2> QED BY <2>4, <2>5
<1>3. CASE Process(r) \/ Crash(r)
  <2>1. /\ spc[r] = "work" /\ job[r] # NoEntry /\ down' = down /\ up' = up
        /\ \/ spc' = [spc EXCEPT ![r] = "reply"] /\ job' = [job EXCEPT ![r] = NoEntry]
           \/ spc' = [spc EXCEPT ![r] = "dead"] /\ job' = job
    BY <1>0, <1>3 DEF Process, Crash, JobOK
  <2>2. \A s \in Slaves \ {r} : Same(s)
    BY <1>0, <2>1 DEF Same
  <2>3. ~Stopped(r) /\ Engaged(r) /\ up[r] = <<>> /\ down[r] = <<>>
    BY <1>0, <2>1 DEF Stopped, Engaged, Busy, Exchange
  <2>4. Exchange(r)' /\ ~Stopped(r)' /\ Engaged(r)'
    BY <1>0, <2>1, <2>3 DEF Exchange, Stopped, Engaged, Busy
  <2> QED BY <1>0, <2>2, <2>3, <2>4, SlaveStep
<1>4. CASE RequestTask(r)
  <2>1. spc[r] = "reply" /\ up[r] = <<>> /\ down[r] = <<>> /\ job[r] = NoEntry
    BY <1>0, <1>4 DEF RequestTask, Exchange, Busy, JobOK
  <2>2. /\ up' = [up EXCEPT ![r] = <<r>>] /\ spc' = [spc EXCEPT ![r] = "sending"]
        /\ down' = down /\ job' = job
    BY <1>4, <2>1 DEF RequestTask
  <2>3. \A s \in Slaves \ {r} : Same(s)
    BY <1>0, <2>2 DEF Same
  <2>4. ~Stopped(r) /\ Engaged(r)
    BY <2>1 DEF Stopped, Engaged, Busy
  <2>5. Exchange(r)' /\ ~Stopped(r)' /\ Engaged(r)'
    BY <1>0, <2>1, <2>2 DEF Exchange, Stopped, Engaged, Busy
  <2> QED BY <1>0, <2>3, <2>4, <2>5, SlaveStep
<1>5. CASE SlaveSendReturns(r)
  <2>1. /\ spc[r] = "sending" /\ spc' = [spc EXCEPT ![r] = "recv"]
        /\ down' = down /\ up' = up /\ job' = job
    BY <1>5 DEF SlaveSendReturns
  <2>2. \A s \in Slaves \ {r} : Same(s)
    BY <1>0, <2>1 DEF Same
  <2>3. Exchange(r)' /\ (Stopped(r)' <=> Stopped(r)) /\ (Engaged(r)' <=> Engaged(r))
    BY <1>0, <2>1 DEF Exchange, Stopped, Engaged, Busy
  <2> QED BY <1>0, <2>2, <2>3, SlaveStep
<1>6. CASE CloseResultFile(r)
  <2>1. /\ spc[r] = "closing" /\ spc' = [spc EXCEPT ![r] = "closed"]
        /\ down' = down /\ up' = up /\ job' = job
    BY <1>6 DEF CloseResultFile
  <2>2. \A s \in Slaves \ {r} : Same(s)
    BY <1>0, <2>1 DEF Same
  <2>3. Exchange(r)' /\ Stopped(r)' /\ Stopped(r)
    BY <1>0, <2>1 DEF Exchange, Stopped, Busy
  <2> QED BY <1>0, <2>2, <2>3, SlaveStep
<1> QED BY <1>1, <1>2, <1>3, <1>4, <1>5, <1>6 DEF Slave

\* A step of the master that sends and receives nothing
LEMMA QuietStep ==
    ASSUME FarmInv, TypeInv', \A s \in Slaves : Same(s)
    PROVE  /\ \A s \in Slaves : Exchange(s)'
           /\ StoppedSet' = StoppedSet
           /\ (items' = items /\ mpc \in Walking) => FirstTasks'
<1>1. \A s \in Slaves : /\ Exchange(s)'
                        /\ Engaged(s)' <=> Engaged(s)
                        /\ Stopped(s)' <=> Stopped(s)
  BY SameKeeps DEF FarmInv
<1>2. StoppedSet' = StoppedSet
  BY <1>1 DEF StoppedSet
<1>3. (items' = items /\ mpc \in Walking) => FirstTasks'
  BY <1>1 DEF FarmInv, FirstTasks
<1> QED BY <1>1, <1>2, <1>3

\* The master sends m to slave r, with which it has no message in flight
LEMMA SendStep ==
    ASSUME FarmInv, TypeInv', NEW r \in Slaves, NEW m \in Message, NEW pc,
           Send(r, m, pc), slaveVars' = slaveVars,
           down[r] = <<>>, up'[r] = <<>>, ~Busy(r),
           spc[r] \notin {"closing", "closed"},
           \A s \in Slaves \ {r} : up'[s] = up[s],
           m = Die => spc[r] \in {"recv", "sending"}
    PROVE  /\ \A s \in Slaves : Exchange(s)'
           /\ \A s \in Slaves \ {r} : /\ Engaged(s)' <=> Engaged(s)
                                      /\ Stopped(s)' <=> Stopped(s)
           /\ Engaged(r)'
           /\ Stopped(r)' <=> m = Die
<1>1. down' = [down EXCEPT ![r] = <<m>>] /\ down \in [Slaves -> Seq(Message)]
  BY DEF Send, FarmInv, TypeInv, TypeOK
<1>2. \A s \in Slaves \ {r} : Same(s)
  BY <1>1 DEF Same, slaveVars
<1>3. \A s \in Slaves \ {r} : /\ Exchange(s)'
                              /\ Engaged(s)' <=> Engaged(s)
                              /\ Stopped(s)' <=> Stopped(s)
  BY <1>2, SameKeeps DEF FarmInv
<1>4. down'[r] = <<m>> /\ down'[r] # <<>> /\ (down'[r] = <<Die>> <=> m = Die)
  <2>1. down'[r] = <<m>>
    BY <1>1
  <2>2. <<m>>[1] = m /\ <<Die>>[1] = Die /\ <<m>> # <<>>
    OBVIOUS
  <2> QED BY <2>1, <2>2
<1>5. ~Busy(r)' /\ spc'[r] = spc[r]
  BY DEF Busy, slaveVars
<1>6. Exchange(r)'
  BY <1>4, <1>5 DEF Exchange
<1>7. Engaged(r)' /\ (Stopped(r)' <=> m = Die)
  BY <1>4, <1>5 DEF Engaged, Stopped
<1> QED BY <1>3, <1>6, <1>7

LEMMA FarmMaster == ASSUME FarmInv, TypeInv', Master PROVE FarmInv'
<1> USE FarmAssumption
<1>a. TypeInv /\ TypeOK /\ CurOK /\ CountOK
  BY DEF FarmInv, TypeInv
<1>b. (\A r \in Slaves : Exchange(r)) /\ FirstTasks /\ Dismissals
  BY DEF FarmInv
<1>c. items \in Int /\ NP \in Int
  BY <1>a DEF TypeOK
<1>d. \A r \in Slaves : r \in Int /\ r > 0
  BY DEF Slaves
<1>0. /\ TypeInv /\ TypeOK /\ CurOK /\ CountOK /\ items \in Int /\ NP \in Int
      /\ \A r \in Slaves : Exchange(r)
      /\ FirstTasks /\ Dismissals
      /\ \A r \in Slaves : r \in Int /\ r > 0
  BY <1>a, <1>b, <1>c, <1>d
<1>1. ASSUME NEW e \in Entries, ParseSkip(e) \/ ParseWait(e) PROVE FarmInv'
  <2>1. \A s \in Slaves : Same(s)
    BY <1>1 DEF ParseSkip, ParseWait, slaveVars, Same
  <2>2. mpc = "walk" /\ items' = items /\ (mpc' = "walk" \/ (mpc' = "request" /\ items = 0))
    BY <1>1 DEF ParseSkip, ParseWait
  <2>3. (\A s \in Slaves : Exchange(s)') /\ StoppedSet' = StoppedSet /\ FirstTasks'
    BY <2>1, <2>2, QuietStep DEF Walking
  <2>4. Dismissals'
    BY <1>0, <2>2, <2>3 DEF Dismissals, Walking
  <2> QED BY <2>3, <2>4 DEF FarmInv
<1>2. ASSUME NEW e \in Entries, ParseFirstTask(e) PROVE FarmInv'
  <2>0. PICK r \in Slaves : r = items
    BY <1>0, <1>2 DEF ParseFirstTask, TypeOK, Slaves
  <2>1. r \in Slaves /\ Work(e) \in Message
    BY <1>2, <2>0 DEF ParseFirstTask, Message
  <2>2. /\ mpc \in Walking /\ Send(r, Work(e), "sendjob") /\ items' = items - 1
        /\ mpc' = "sendjob" /\ slaveVars' = slaveVars /\ up' = up
    BY <1>2, <2>0 DEF ParseFirstTask, Send, Walking
  <2>3. ~Engaged(r) /\ ~Stopped(r)
    BY <1>0, <2>0, <2>2 DEF FirstTasks
  <2>4. /\ down[r] = <<>> /\ up'[r] = <<>> /\ ~Busy(r)
        /\ spc[r] \notin {"closing", "closed"}
        /\ \A s \in Slaves \ {r} : up'[s] = up[s]
        /\ Work(e) # Die
    BY <2>2, <2>3, WorkIsNotDie DEF Engaged, Stopped
  <2>5. /\ \A s \in Slaves : Exchange(s)'
        /\ \A s \in Slaves \ {r} : /\ Engaged(s)' <=> Engaged(s)
                                   /\ Stopped(s)' <=> Stopped(s)
        /\ Engaged(r)' /\ (Stopped(r)' <=> Work(e) = Die)
    BY <2>1, <2>2, <2>4, SendStep
  <2>6. FirstTasks'
    <3> SUFFICES ASSUME NEW s \in Slaves
                 PROVE  /\ s <= items - 1 => ~Engaged(s)' /\ ~Stopped(s)'
                        /\ s > items - 1 => Engaged(s)' /\ ~Stopped(s)'
      BY <2>2 DEF FirstTasks
    <3>1. CASE s = r
      BY <1>0, <2>0, <2>4, <2>5, <3>1
    <3>2. CASE s # r
      <4>1. /\ s <= items => ~Engaged(s) /\ ~Stopped(s)
            /\ s > items => Engaged(s) /\ ~Stopped(s)
        BY <1>0, <2>2 DEF FirstTasks
      <4>2. (s <= items - 1 => s <= items) /\ (s > items - 1 => s > items)
        BY <1>0, <2>0, <3>2
      <4> QED BY <2>5, <3>2, <4>1, <4>2
    <3> QED BY <3>1, <3>2
  <2>7. StoppedSet' = {}
    BY <1>0, <2>2, <2>3, <2>4, <2>5 DEF Dismissals, StoppedSet
  <2>8. Dismissals'
    BY <2>2, <2>7 DEF Dismissals, Walking
  <2> QED BY <2>5, <2>6, <2>8 DEF FarmInv
<1>3. ASSUME NEW r \in Slaves, ParseAnswer(r) PROVE FarmInv'
  <2>1. /\ mpc = "request" /\ up[r] = <<r>> /\ up' = [up EXCEPT ![r] = <<>>]
        /\ Send(r, Work(cur), "sendjob") /\ items' = items /\ items = 0
        /\ mpc' = "sendjob" /\ slaveVars' = slaveVars
    <3>1. /\ mpc = "request" /\ up[r] # <<>> /\ up' = [up EXCEPT ![r] = Tail(@)]
          /\ Send(r, Work(cur), "sendjob") /\ items' = items
          /\ mpc' = "sendjob" /\ slaveVars' = slaveVars
      BY <1>3 DEF ParseAnswer, Send
    <3>2. up[r] = <<r>> /\ Tail(up[r]) = <<>>
      <4>1. up[r] = <<r>>
        BY <1>0, <3>1 DEF Exchange
      <4> QED BY <4>1
    <3>3. items = 0
      BY <1>0, <3>1 DEF Dismissals
    <3>4. up' = [up EXCEPT ![r] = <<>>]
      BY <3>1, <3>2
    <3> QED BY <3>1, <3>2, <3>3, <3>4
  <2>2. Work(cur) \in Message /\ Work(cur) # Die
    BY <1>0, <2>1, WorkIsNotDie DEF CurOK, TypeOK, Message
  <2>3. Engaged(r) /\ ~Stopped(r)
    BY <1>0, <2>1 DEF FirstTasks, Walking
  <2>4. /\ down[r] = <<>> /\ ~Busy(r) /\ up'[r] = <<>>
        /\ spc[r] \notin {"closing", "closed"}
        /\ \A s \in Slaves \ {r} : up'[s] = up[s]
    <3>1. up[r] # <<>> /\ spc[r] \in {"recv", "sending"} /\ down[r] = <<>>
      BY <1>0, <2>1 DEF Exchange
    <3>2. ~Busy(r)
      BY <1>0, <3>1 DEF TypeInv, JobOK, Busy
    <3>3. up'[r] = <<>> /\ \A s \in Slaves \ {r} : up'[s] = up[s]
      BY <1>0, <2>1 DEF TypeOK
    <3> QED BY <3>1, <3>2, <3>3
  <2>5. /\ \A s \in Slaves : Exchange(s)'
        /\ \A s \in Slaves \ {r} : /\ Engaged(s)' <=> Engaged(s)
                                   /\ Stopped(s)' <=> Stopped(s)
        /\ Engaged(r)' /\ (Stopped(r)' <=> Work(cur) = Die)
    BY <2>1, <2>2, <2>4, SendStep
  <2>6. FirstTasks'
    BY <1>0, <2>1, <2>2, <2>3, <2>5 DEF FirstTasks, Walking
  <2>7. StoppedSet' = {}
    BY <1>0, <2>1, <2>2, <2>3, <2>5 DEF Dismissals, StoppedSet, Walking
  <2>8. Dismissals'
    BY <2>1, <2>7 DEF Dismissals, Walking
  <2> QED BY <2>5, <2>6, <2>8 DEF FarmInv
<1>4. ASSUME NEW r \in Slaves, KillSlave(r) PROVE FarmInv'
  <2>1. /\ mpc = "kill" /\ up[r] = <<r>> /\ up' = [up EXCEPT ![r] = <<>>]
        /\ Send(r, Die, "senddie") /\ items' = items /\ mpc' = "senddie"
        /\ slaveVars' = slaveVars /\ toVisit' = toVisit
    <3>1. /\ mpc = "kill" /\ up[r] # <<>> /\ up' = [up EXCEPT ![r] = Tail(@)]
          /\ Send(r, Die, "senddie") /\ items' = items
          /\ mpc' = "senddie" /\ slaveVars' = slaveVars /\ toVisit' = toVisit
      BY <1>4 DEF KillSlave, Send
    <3>2. up[r] = <<r>> /\ Tail(up[r]) = <<>>
      <4>1. up[r] = <<r>>
        BY <1>0, <3>1 DEF Exchange
      <4> QED BY <4>1
    <3>3. up' = [up EXCEPT ![r] = <<>>]
      BY <3>1, <3>2
    <3> QED BY <3>1, <3>2, <3>3
  <2>2. Die \in Message
    BY DEF Message
  <2>3. /\ down[r] = <<>> /\ ~Busy(r) /\ up'[r] = <<>>
        /\ spc[r] \in {"recv", "sending"}
        /\ \A s \in Slaves \ {r} : up'[s] = up[s]
    <3>1. up[r] # <<>> /\ spc[r] \in {"recv", "sending"} /\ down[r] = <<>>
      BY <1>0, <2>1 DEF Exchange
    <3>2. ~Busy(r)
      BY <1>0, <3>1 DEF TypeInv, JobOK, Busy
    <3>3. up'[r] = <<>> /\ \A s \in Slaves \ {r} : up'[s] = up[s]
      BY <1>0, <2>1 DEF TypeOK
    <3> QED BY <3>1, <3>2, <3>3
  <2>4. /\ \A s \in Slaves : Exchange(s)'
        /\ \A s \in Slaves \ {r} : Stopped(s)' <=> Stopped(s)
        /\ Stopped(r)'
    BY <2>1, <2>2, <2>3, SendStep
  <2>5. StoppedSet' = StoppedSet \cup {r} /\ r \notin StoppedSet
    BY <2>3, <2>4 DEF StoppedSet, Stopped
  <2>6. IsFiniteSet(StoppedSet)
    BY SlavesFinite, FS_Subset DEF StoppedSet
  <2>7. Cardinality(StoppedSet') = NP - items
    <3>1. Cardinality(StoppedSet) = NP - 1 - items
      BY <1>0, <2>1 DEF Dismissals
    <3>2. Cardinality(StoppedSet \cup {r}) = Cardinality(StoppedSet) + 1
      BY <2>5, <2>6, FS_AddElement
    <3> QED BY <1>0, <2>5, <3>1, <3>2
  <2>8. FirstTasks' /\ Dismissals'
    BY <1>0, <2>1, <2>7 DEF FirstTasks, Dismissals, Walking
  <2> QED BY <2>4, <2>8 DEF FarmInv
<1>5. ASSUME EndOfWalk PROVE FarmInv'
  <2>1. \A s \in Slaves : Same(s)
    BY <1>5 DEF EndOfWalk, slaveVars, Same
  <2>2. StoppedSet' = {} /\ \A s \in Slaves : Exchange(s)'
    BY <1>0, <1>5, <2>1, QuietStep DEF EndOfWalk, Dismissals, Walking
  <2>3. Cardinality(StoppedSet') = NP - 1 - items'
    BY <1>0, <1>5, <2>2, FS_EmptySet DEF EndOfWalk
  <2>4. FirstTasks' /\ Dismissals'
    BY <1>5, <2>3 DEF EndOfWalk, FirstTasks, Dismissals, Walking
  <2> QED BY <2>2, <2>4 DEF FarmInv
<1>6. ASSUME MasterSendReturns PROVE FarmInv'
  <2>1. \A s \in Slaves : Same(s)
    BY <1>6 DEF MasterSendReturns, slaveVars, Same
  <2>2. /\ StoppedSet' = StoppedSet /\ (\A s \in Slaves : Exchange(s)')
        /\ (items' = items /\ mpc \in Walking) => FirstTasks'
    BY <2>1, QuietStep
  <2>3. CASE mpc = "sendjob"
    <3>1. mpc' = "walk" /\ items' = items /\ mpc \in Walking
      BY <1>6, <2>3 DEF MasterSendReturns, Walking
    <3>2. Dismissals'
      BY <1>0, <2>2, <3>1 DEF Dismissals, Walking
    <3> QED BY <2>2, <3>1, <3>2 DEF FarmInv
  <2>4. CASE mpc # "sendjob"
    <3>1. mpc = "senddie" /\ mpc' = "kill" /\ items' = items - 1 /\ toVisit' = toVisit
      BY <1>6, <2>4 DEF MasterSendReturns
    <3>2. Cardinality(StoppedSet') = NP - 1 - items'
      BY <1>0, <2>2, <3>1 DEF Dismissals
    <3>3. FirstTasks' /\ Dismissals'
      BY <1>0, <3>1, <3>2 DEF FirstTasks, Dismissals, Walking
    <3> QED BY <2>2, <3>3 DEF FarmInv
  <2> QED BY <2>3, <2>4
<1>7. ASSUME Sleep \/ OpenMerged \/ MergeFile \/ EndOfMerge PROVE FarmInv'
  <2>1. /\ \A s \in Slaves : Same(s)
        /\ mpc' \in {"sleep", "merge", "done", "dead"} /\ toVisit' = toVisit
        /\ mpc \in {"sleep", "merge"} \/ (mpc = "kill" /\ items = 0)
    BY <1>7 DEF Sleep, OpenMerged, MergeFile, EndOfMerge, slaveVars, Same
  <2>2. StoppedSet' = StoppedSet /\ \A s \in Slaves : Exchange(s)'
    BY <2>1, QuietStep
  <2>3. FirstTasks' /\ Dismissals'
    BY <1>0, <2>1, <2>2 DEF FirstTasks, Dismissals, Walking
  <2> QED BY <2>2, <2>3 DEF FarmInv
<1> QED BY <1>1, <1>2, <1>3, <1>4, <1>5, <1>6, <1>7 DEF Master, Parse

LEMMA FarmStep == FarmInv /\ [Next]_vars => FarmInv'
<1> SUFFICES ASSUME FarmInv, [Next]_vars PROVE FarmInv'
  OBVIOUS
<1>1. TypeInv'
  BY TypeStep DEF FarmInv
<1>2. CASE Abort \/ UNCHANGED vars
  <2>1. \A s \in Slaves : Same(s)
    BY <1>2 DEF Abort, vars, slaveVars, Same
  <2>2. mpc' = mpc /\ items' = items /\ toVisit' = toVisit
    BY <1>2 DEF Abort, vars, masterVars
  <2>3. /\ \A s \in Slaves : Exchange(s)'
        /\ StoppedSet' = StoppedSet
        /\ mpc \in Walking => FirstTasks'
    BY <1>1, <2>1, <2>2, QuietStep
  <2>4. Dismissals' /\ (mpc \notin Walking => FirstTasks')
    BY <2>2, <2>3 DEF FarmInv, Dismissals, FirstTasks
  <2> QED BY <1>1, <2>3, <2>4 DEF FarmInv
<1> QED BY <1>1, <1>2, FarmMaster, FarmSlave DEF Next, Terminated

LEMMA FarmAlways == Spec => []FarmInv
BY InitFarm, FarmStep, PTL DEF Spec

-----------------------------------------------------------------------------
(* What the invariant says about the program. *)

LEMMA MessagesOf ==
    ASSUME NEW r \in Slaves, Exchange(r)
    PROVE  /\ down[r] = <<>> => Messages(r) = {}
           /\ down[r] # <<>> => \E m \in Message : down[r] = <<m>> /\ Messages(r) = {m}
           /\ Dismissed(r) <=> Stopped(r)
<1>1. down[r] = <<>> => Messages(r) = {}
  BY DEF Messages
<1>2. ASSUME NEW m \in Message, down[r] = <<m>>
      PROVE  Messages(r) = {m} /\ (Die \in Messages(r) <=> down[r] = <<Die>>)
  <2>1. Len(down[r]) = 1 /\ down[r][1] = m /\ 1 .. 1 = {1}
    BY <1>2
  <2>2. Messages(r) = {m}
    BY <2>1 DEF Messages
  <2>3. <<m>> = <<Die>> <=> m = Die
    <3>1. <<m>>[1] = m /\ <<Die>>[1] = Die
      OBVIOUS
    <3> QED BY <3>1
  <2> QED BY <1>2, <2>2, <2>3
<1>3. <<>> # <<Die>>
  OBVIOUS
<1> QED BY <1>1, <1>2, <1>3 DEF Exchange, Dismissed, Stopped

\* A slave never has two things under way with the master: no second task, no
\* request while it works, nothing after its dismissal
THEOREM ExchangeCorrect == Spec => []OneExchange
<1>1. FarmInv => OneExchange
  <2> SUFFICES ASSUME FarmInv, NEW r \in Slaves
               PROVE  /\ Len(down[r]) + (IF Busy(r) THEN 1 ELSE 0) + Len(up[r]) <= 1
                      /\ spc[r] \in {"closing", "closed"} =>
                             down[r] = <<>> /\ up[r] = <<>>
    BY DEF OneExchange
  <2>1. Exchange(r) /\ JobOK
    BY DEF FarmInv, TypeInv
  <2>2. down[r] = <<>> \/ Len(down[r]) = 1
    <3>1. ASSUME NEW m \in Message, down[r] = <<m>> PROVE Len(down[r]) = 1
      BY <3>1
    <3> QED BY <2>1, <3>1 DEF Exchange
  <2>3. up[r] = <<>> \/ Len(up[r]) = 1
    <3>1. Len(<<r>>) = 1
      OBVIOUS
    <3> QED BY <2>1, <3>1 DEF Exchange
  <2>4. Busy(r) => down[r] = <<>> /\ up[r] = <<>>
    BY <2>1 DEF Exchange, Busy, JobOK
  <2>5. down[r] = <<>> \/ up[r] = <<>>
    BY <2>1 DEF Exchange
  <2>6. spc[r] \in {"closing", "closed"} => down[r] = <<>> /\ up[r] = <<>>
    BY <2>1 DEF Exchange
  <2>7. Len(<<>>) = 0
    OBVIOUS
  <2>8. Len(down[r]) + (IF Busy(r) THEN 1 ELSE 0) + Len(up[r]) <= 1
    <3>1. CASE Busy(r)
      <4>1. Len(down[r]) = 0 /\ Len(up[r]) = 0
        BY <2>4, <2>7, <3>1
      <4> QED BY <3>1, <4>1
    <3>2. CASE ~Busy(r)
      <4>1. \/ Len(down[r]) = 0 /\ Len(up[r]) \in {0, 1}
            \/ Len(down[r]) \in {0, 1} /\ Len(up[r]) = 0
        BY <2>2, <2>3, <2>5, <2>7
      <4>2. ASSUME NEW x, NEW y, \/ x = 0 /\ y \in {0, 1}
                                 \/ x \in {0, 1} /\ y = 0
            PROVE  x + 0 + y <= 1
        BY <4>2
      <4>3. Len(down[r]) + 0 + Len(up[r]) <= 1
        BY <4>1, <4>2
      <4> QED BY <3>2, <4>3
    <3> QED BY <3>1, <3>2
  <2> QED BY <2>6, <2>8
<1> QED BY FarmAlways, <1>1, PTL

\* The receive in parse always has an answer on its way: every slave has a task
\* or a request under way
THEOREM ParseLive == Spec => []ParseNotStranded
<1>1. FarmInv => ParseNotStranded
  <2> SUFFICES ASSUME FarmInv, mpc = "request", NEW r \in Slaves
               PROVE  Held(r) # {} \/ Busy(r) \/ up[r] # <<>>
    BY DEF ParseNotStranded
  <2>1. Exchange(r) /\ items = 0 /\ r > 0
    BY DEF FarmInv, Dismissals, Slaves
  <2>2. Engaged(r) /\ ~Stopped(r)
    BY <2>1 DEF FarmInv, FirstTasks, Walking
  <2>3. CASE down[r] # <<>>
    <3>1. PICK m \in Message : down[r] = <<m>> /\ Messages(r) = {m}
      BY <2>1, <2>3, MessagesOf
    <3>2. m # Die
      BY <2>2, <3>1 DEF Stopped
    <3> QED BY <3>1, <3>2 DEF Held
  <2> QED BY <2>2, <2>3 DEF Engaged
<1> QED BY FarmAlways, <1>1, PTL

\* kill_slaves returns only when every slave has been dismissed with its work
\* done: the merge that follows misses no document because a slave still works
THEOREM MergeSafe == Spec => []MergeAfterDismissal
<1>1. FarmInv => MergeAfterDismissal
  <2> SUFFICES ASSUME FarmInv, mpc \in {"sleep", "merge", "done"}
               PROVE  /\ toVisit = {} /\ cur = NoEntry
                      /\ \A r \in Slaves : /\ Dismissed(r) /\ Held(r) = {}
                                           /\ up[r] = <<>>
    BY DEF MergeAfterDismissal
  <2>1. toVisit = {} /\ cur = NoEntry
    BY DEF FarmInv, Dismissals, Walking, TypeInv, CurOK
  <2>2. StoppedSet = Slaves
    <3>1. Cardinality(StoppedSet) = Cardinality(Slaves) /\ StoppedSet \subseteq Slaves
      BY SlavesFinite DEF FarmInv, Dismissals, StoppedSet
    <3> QED BY <3>1, SlavesFinite, FS_Subset
  <2>3. ASSUME NEW r \in Slaves PROVE Dismissed(r) /\ Held(r) = {} /\ up[r] = <<>>
    <3>1. Stopped(r) /\ Exchange(r) /\ JobOK
      BY <2>2 DEF StoppedSet, FarmInv, TypeInv
    <3>2. Dismissed(r)
      BY <3>1, MessagesOf
    <3>3. job[r] = NoEntry /\ up[r] = <<>>
      BY <3>1 DEF Stopped, Exchange, Busy, JobOK
    <3>4. Messages(r) \subseteq {Die}
      <4>1. CASE down[r] = <<>>
        BY <3>1, <4>1, MessagesOf
      <4>2. CASE down[r] # <<>>
        <5>1. PICK m \in Message : down[r] = <<m>> /\ Messages(r) = {m}
          BY <3>1, <4>2, MessagesOf
        <5>2. down[r] = <<Die>>
          BY <3>1, <4>2 DEF Stopped, Exchange
        <5>3. m = Die
          BY <5>1, <5>2
        <5> QED BY <5>1, <5>3
      <4> QED BY <4>1, <4>2
    <3> QED BY <3>2, <3>3, <3>4 DEF Held
  <2> QED BY <2>1, <2>3
<1> QED BY FarmAlways, <1>1, PTL

\* A dead slave keeps the master out of the merge for good
THEOREM CrashSafe == Spec => []CrashBlocksMerge
<1>1. FarmInv => CrashBlocksMerge
  <2> SUFFICES ASSUME FarmInv, NEW r \in Slaves, spc[r] = "dead",
                      mpc \in {"sleep", "merge", "done"}
               PROVE  FALSE
    BY DEF CrashBlocksMerge
  <2>1. StoppedSet = Slaves
    <3>1. Cardinality(StoppedSet) = Cardinality(Slaves) /\ StoppedSet \subseteq Slaves
      BY SlavesFinite DEF FarmInv, Dismissals, StoppedSet
    <3> QED BY <3>1, SlavesFinite, FS_Subset
  <2>2. Stopped(r) /\ Exchange(r)
    BY <2>1 DEF StoppedSet, FarmInv
  <2> QED BY <2>2 DEF Stopped, Exchange
<1> QED BY FarmAlways, <1>1, PTL

-----------------------------------------------------------------------------
(* Rows of this run. *)

Row == Entries \X {1, 2}

\* Rows are of this run in every buffer, in every result file that was opened
\* by a slave that lives, and in the output from its opening on
RowsOfThisRun ==
    /\ \A r \in Slaves : buf[r] \in Seq(Row)
    /\ \A r \in Slaves : spc[r] \notin {"start", "dead"} => disk[r] \in Seq(Row)
    /\ mpc \in {"merge", "done"} => merged \in Seq(Row)

LEMMA RowsAreNew == ASSUME NEW e \in Entries PROVE Rows(e) \in Seq(Row)
<1>1. CASE HasRows(e)
  <2>1. <<e, 1>> \in Row /\ <<e, 2>> \in Row
    BY DEF Row
  <2> QED BY <1>1, <2>1 DEF Rows
<1>2. CASE ~HasRows(e)
  BY <1>2 DEF Rows
<1> QED BY <1>1, <1>2

\* When the master merges every slave has opened its file and lives
LEMMA AllStopped ==
    ASSUME FarmInv, mpc \in {"sleep", "merge", "done"}, NEW r \in Slaves
    PROVE  Stopped(r) /\ spc[r] \notin {"start", "dead"}
<1>1. StoppedSet = Slaves
  <2>1. Cardinality(StoppedSet) = Cardinality(Slaves) /\ StoppedSet \subseteq Slaves
    BY SlavesFinite DEF FarmInv, Dismissals, StoppedSet
  <2> QED BY <2>1, SlavesFinite, FS_Subset
<1>2. Stopped(r) /\ Exchange(r)
  BY <1>1 DEF StoppedSet, FarmInv
<1> QED BY <1>2 DEF Stopped, Exchange

\* A step that changes nothing but what slave r holds
LEMMA RowsOfOne ==
    ASSUME RowsOfThisRun, NEW r \in Slaves, mpc' = mpc, merged' = merged,
           \A s \in Slaves \ {r} : spc'[s] = spc[s] /\ disk'[s] = disk[s] /\ buf'[s] = buf[s],
           buf'[r] \in Seq(Row),
           spc'[r] \notin {"start", "dead"} => disk'[r] \in Seq(Row)
    PROVE  RowsOfThisRun'
<1>1. ASSUME NEW s \in Slaves
      PROVE  /\ buf'[s] \in Seq(Row)
             /\ spc'[s] \notin {"start", "dead"} => disk'[s] \in Seq(Row)
  <2>1. CASE s = r
    BY <2>1
  <2>2. CASE s # r
    BY <2>2 DEF RowsOfThisRun
  <2> QED BY <2>1, <2>2
<1> QED BY <1>1 DEF RowsOfThisRun

\* A slave's step appends nothing but rows of its document to its file
LEMMA RowsSlave ==
    ASSUME FarmInv, RowsOfThisRun, NEW r \in Slaves, Slave(r)
    PROVE  RowsOfThisRun'
<1>0. /\ buf \in [Slaves -> Seq(Piece)] /\ disk \in [Slaves -> Seq(Piece)]
      /\ spc \in [Slaves -> {"start", "recv", "work", "reply", "sending",
                             "closing", "closed", "dead"}]
      /\ job \in [Slaves -> Jobs \cup {NoEntry}]
      /\ Jobs \subseteq Entries /\ NoEntry \notin Jobs /\ JobOK
  BY JobsAreEntries DEF FarmInv, TypeInv, TypeOK
<1>1. mpc' = mpc /\ merged' = merged
  BY DEF Slave, masterVars, OpenResultFile, ReceiveTask, Process, Crash, RequestTask,
     SlaveSendReturns, CloseResultFile
<1>e. <<>> \in Seq(Row)
  OBVIOUS
<1>b. /\ buf[r] \in Seq(Row)
      /\ spc[r] \notin {"start", "dead"} => disk[r] \in Seq(Row)
  BY DEF RowsOfThisRun
<1>2. CASE OpenResultFile(r)
  <2>1. \A s \in Slaves \ {r} : spc'[s] = spc[s] /\ disk'[s] = disk[s] /\ buf'[s] = buf[s]
    BY <1>0, <1>2 DEF OpenResultFile
  <2>2. buf'[r] = buf[r] /\ (spc'[r] = "dead" \/ disk'[r] = <<>>)
    BY <1>0, <1>2 DEF OpenResultFile
  <2> QED BY <1>1, <1>e, <1>b, <2>1, <2>2, RowsOfOne
<1>3. CASE ReceiveTask(r) \/ RequestTask(r) \/ SlaveSendReturns(r)
  <2>1. /\ \A s \in Slaves \ {r} : spc'[s] = spc[s]
        /\ spc[r] \notin {"start", "dead"} /\ buf' = buf /\ disk' = disk
    BY <1>0, <1>3 DEF ReceiveTask, RequestTask, SlaveSendReturns
  <2> QED BY <1>1, <1>b, <2>1, RowsOfOne
<1>4. CASE Process(r)
  <2>1. PICK out : out = buf[r] \o Rows(job[r])
    OBVIOUS
  <2>2. job[r] \in Entries /\ spc[r] = "work"
    BY <1>0, <1>4 DEF Process, JobOK
  <2>3. out \in Seq(Row)
    BY <1>b, <2>1, <2>2, RowsAreNew, ConcatProperties
  <2>4. PICK k \in 0 .. Len(out) :
            /\ disk' = [disk EXCEPT ![r] = @ \o SubSeq(out, 1, k)]
            /\ buf' = [buf EXCEPT ![r] = SubSeq(out, k + 1, Len(out))]
    BY <1>4, <2>1 DEF Process
  <2>5. SubSeq(out, 1, k) \in Seq(Row) /\ SubSeq(out, k + 1, Len(out)) \in Seq(Row)
    BY <2>3, CutType
  <2>6. disk'[r] = disk[r] \o SubSeq(out, 1, k) /\ buf'[r] = SubSeq(out, k + 1, Len(out))
    BY <1>0, <2>4
  <2>7. buf'[r] \in Seq(Row) /\ disk'[r] \in Seq(Row)
    BY <1>b, <2>2, <2>5, <2>6, ConcatProperties
  <2>8. \A s \in Slaves \ {r} : spc'[s] = spc[s] /\ disk'[s] = disk[s] /\ buf'[s] = buf[s]
    BY <1>0, <1>4, <2>4 DEF Process
  <2> QED BY <1>1, <2>7, <2>8, RowsOfOne
<1>5. CASE Crash(r)
  <2>1. /\ buf'[r] = <<>> /\ spc'[r] = "dead" /\ disk' = disk
        /\ \A s \in Slaves \ {r} : spc'[s] = spc[s] /\ buf'[s] = buf[s]
    BY <1>0, <1>5 DEF Crash
  <2> QED BY <1>1, <1>e, <2>1, RowsOfOne
<1>6. CASE CloseResultFile(r)
  <2>1. /\ disk'[r] = disk[r] \o buf[r] /\ buf'[r] = <<>> /\ spc[r] = "closing"
        /\ \A s \in Slaves \ {r} :
              spc'[s] = spc[s] /\ disk'[s] = disk[s] /\ buf'[s] = buf[s]
    BY <1>0, <1>6 DEF CloseResultFile
  <2>2. disk[r] \o buf[r] \in Seq(Row)
    BY <1>b, <2>1, ConcatProperties
  <2> QED BY <1>1, <1>e, <2>1, <2>2, RowsOfOne
<1> QED BY <1>2, <1>3, <1>4, <1>5, <1>6 DEF Slave

\* The master's steps write nothing but what the slaves' files hold
LEMMA RowsMaster ==
    ASSUME FarmInv, RowsOfThisRun, Master
    PROVE  RowsOfThisRun'
<1>1. CASE Parse \/ (\E r \in Slaves : ParseAnswer(r) \/ KillSlave(r))
              \/ EndOfWalk \/ MasterSendReturns \/ Sleep
  <2>1. spc' = spc /\ buf' = buf /\ disk' = disk /\ mpc' \notin {"merge", "done"}
    BY <1>1 DEF Parse, ParseSkip, ParseFirstTask, ParseWait, ParseAnswer, KillSlave,
       EndOfWalk, MasterSendReturns, Sleep, Send, slaveVars
  <2> QED BY <2>1 DEF RowsOfThisRun
<1>2. CASE OpenMerged
  <2>1. spc' = spc /\ buf' = buf /\ disk' = disk /\ (mpc' = "dead" \/ merged' = <<>>)
    BY <1>2 DEF OpenMerged, slaveVars
  <2>2. <<>> \in Seq(Row)
    OBVIOUS
  <2> QED BY <2>1, <2>2 DEF RowsOfThisRun
<1>3. CASE MergeFile
  <2>1. /\ spc' = spc /\ buf' = buf /\ disk' = disk /\ mpc' = mpc /\ mpc = "merge"
        /\ merged' = merged \o disk[next] /\ next < NP
    BY <1>3 DEF MergeFile, slaveVars
  <2>2. next \in Slaves
    BY <2>1, FarmAssumption DEF FarmInv, TypeInv, TypeOK, Slaves
  <2>3. merged \in Seq(Row) /\ disk[next] \in Seq(Row)
    BY <2>1, <2>2, AllStopped DEF RowsOfThisRun
  <2>4. merged' \in Seq(Row)
    BY <2>1, <2>3, ConcatProperties
  <2> QED BY <2>1, <2>4 DEF RowsOfThisRun
<1>4. CASE EndOfMerge
  BY <1>4 DEF EndOfMerge, RowsOfThisRun, slaveVars
<1> QED BY <1>1, <1>2, <1>3, <1>4 DEF Master

LEMMA RowsStep == FarmInv /\ RowsOfThisRun /\ [Next]_vars => RowsOfThisRun'
<1>1. ASSUME RowsOfThisRun, Abort \/ UNCHANGED vars PROVE RowsOfThisRun'
  BY <1>1 DEF Abort, vars, masterVars, slaveVars, RowsOfThisRun
<1> QED BY <1>1, RowsSlave, RowsMaster DEF Next, Terminated

\* No row of an earlier run gets into the output: a slave has truncated its file
\* before it can be dismissed, and all are dismissed before the merge
THEOREM OutputFresh == Spec => []NoStaleRows
<1>1. Init => RowsOfThisRun
  BY DEF Init, RowsOfThisRun
<1>2. FarmInv /\ RowsOfThisRun => NoStaleRows
  <2> SUFFICES ASSUME FarmInv, RowsOfThisRun, mpc \in {"merge", "done"}
               PROVE  /\ Stale \notin {merged[i] : i \in 1 .. Len(merged)}
                      /\ \A r \in Slaves : Stale \notin {disk[r][i] : i \in 1 .. Len(disk[r])}
    BY DEF NoStaleRows
  <2>1. Stale \notin Row
    BY DEF Stale, Row
  <2>2. ASSUME NEW s \in Seq(Row) PROVE Stale \notin {s[i] : i \in 1 .. Len(s)}
    <3>1. \A i \in 1 .. Len(s) : s[i] \in Row
      OBVIOUS
    <3> QED BY <2>1, <3>1
  <2>3. merged \in Seq(Row) /\ \A r \in Slaves : disk[r] \in Seq(Row)
    BY AllStopped DEF RowsOfThisRun
  <2> QED BY <2>2, <2>3
<1> QED BY FarmAlways, RowsStep, <1>1, <1>2, PTL DEF Spec

-----------------------------------------------------------------------------
(* The receive in kill_slaves. *)

\* While a slave has had no task there have been as many tasks as slaves that
\* had one; afterwards, if there were enough tasks, every slave has something
\* under way or is dismissed
AllTasked ==
    /\ mpc \in Walking /\ items # 0 => Cardinality(Jobs \ toVisit) = NP - 1 - items
    /\ mpc \notin Walking /\ Cardinality(Jobs) >= NP - 1 =>
          \A r \in Slaves : Engaged(r) \/ Stopped(r)

\* A slave that has something under way, or is dismissed, stays so but for what
\* the master takes from it
LEMMA SlaveStaysEngaged ==
    ASSUME FarmInv, NEW r \in Slaves, Slave(r), NEW s \in Slaves, Engaged(s) \/ Stopped(s)
    PROVE  Engaged(s)' \/ Stopped(s)'
<1>0. /\ down \in [Slaves -> Seq(Message)] /\ up \in [Slaves -> Seq(Slaves)]
      /\ spc \in [Slaves -> {"start", "recv", "work", "reply", "sending",
                             "closing", "closed", "dead"}]
      /\ job \in [Slaves -> Jobs \cup {NoEntry}]
      /\ NoEntry \notin Jobs
      /\ Exchange(r) /\ JobOK
  BY JobsAreEntries DEF FarmInv, TypeInv, TypeOK
<1>1. CASE s # r
  <2>1. Same(s)
    BY <1>0, <1>1 DEF Same, Slave, OpenResultFile, ReceiveTask, Process, Crash, RequestTask,
       SlaveSendReturns, CloseResultFile
  <2> QED BY <2>1, SameKeeps DEF FarmInv
<1>2. CASE s = r /\ ReceiveTask(r)
  <2>1. PICK m \in Message : down[r] = <<m>>
    BY <1>0, <1>2 DEF ReceiveTask, Exchange
  <2>2. Head(down[r]) = m
    BY <2>1
  <2>3. CASE m.tag = 1
    <3>1. PICK e \in Jobs : m = Work(e)
      BY <2>3 DEF Message, Die
    <3>2. job'[r] = e
      BY <1>0, <1>2, <2>2, <3>1 DEF ReceiveTask, Work
    <3> QED BY <1>0, <1>2, <3>2 DEF Engaged, Busy
  <2>4. CASE m.tag # 1
    <3>1. spc'[r] = "closing"
      BY <1>0, <1>2, <2>2, <2>4 DEF ReceiveTask
    <3> QED BY <1>2, <3>1 DEF Stopped
  <2> QED BY <2>3, <2>4
<1>3. CASE s = r /\ OpenResultFile(r)
  <2>1. down' = down /\ up' = up /\ job' = job /\ spc[r] = "start"
    BY <1>3 DEF OpenResultFile
  <2> QED BY <1>3, <2>1 DEF Engaged, Stopped, Busy
<1>4. CASE s = r /\ (Process(r) \/ Crash(r))
  <2>1. spc'[r] = "reply" \/ (job'[r] = job[r] /\ job[r] # NoEntry)
    BY <1>0, <1>4 DEF Process, Crash, JobOK
  <2> QED BY <1>4, <2>1 DEF Engaged, Busy
<1>5. CASE s = r /\ RequestTask(r)
  <2>1. up'[r] = Append(up[r], r) /\ up[r] \in Seq(Slaves)
    BY <1>0, <1>5 DEF RequestTask
  <2>2. up'[r] # <<>>
    BY <2>1
  <2> QED BY <1>5, <2>2 DEF Engaged
<1>6. CASE s = r /\ SlaveSendReturns(r)
  <2>1. down' = down /\ up' = up /\ job' = job /\ spc[r] = "sending"
    BY <1>6 DEF SlaveSendReturns
  <2> QED BY <1>6, <2>1 DEF Engaged, Stopped, Busy
<1>7. CASE s = r /\ CloseResultFile(r)
  <2>1. spc'[r] = "closed"
    BY <1>0, <1>7 DEF CloseResultFile
  <2> QED BY <1>7, <2>1 DEF Stopped
<1> QED BY <1>1, <1>2, <1>3, <1>4, <1>5, <1>6, <1>7 DEF Slave

LEMMA TaskedStep == FarmInv /\ AllTasked /\ [Next]_vars => AllTasked'
<1> SUFFICES ASSUME FarmInv, AllTasked, [Next]_vars PROVE AllTasked'
  OBVIOUS
<1>0. /\ TypeOK /\ NP \in Nat /\ items \in Nat /\ FirstTasks
      /\ toVisit \subseteq Entries /\ Jobs \subseteq Entries /\ IsFiniteSet(Jobs)
      /\ \A r \in Slaves : Exchange(r) /\ r \in Nat /\ r > 0
  BY FarmAssumption, JobsAreEntries, FS_Subset DEF FarmInv, TypeInv, TypeOK, Slaves
<1>1. CASE Abort \/ UNCHANGED vars
  BY <1>1 DEF Abort, vars, masterVars, slaveVars, AllTasked, Engaged, Stopped, Busy
<1>2. ASSUME NEW r \in Slaves, Slave(r) PROVE AllTasked'
  <2>1. mpc' = mpc /\ items' = items /\ toVisit' = toVisit
    BY <1>2 DEF Slave, masterVars, OpenResultFile, ReceiveTask, Process, Crash, RequestTask,
       SlaveSendReturns, CloseResultFile
  <2>2. \A s \in Slaves : Engaged(s) \/ Stopped(s) => Engaged(s)' \/ Stopped(s)'
    BY <1>2, SlaveStaysEngaged
  <2> QED BY <2>1, <2>2 DEF AllTasked
<1>3. ASSUME NEW e \in Entries, ParseSkip(e) \/ ParseWait(e) PROVE AllTasked'
  <2>1. /\ mpc = "walk" /\ mpc' \in Walking /\ items' = items
        /\ items # 0 => Jobs \ toVisit' = Jobs \ toVisit
    BY <1>3 DEF ParseSkip, ParseWait, Walking
  <2> QED BY <2>1 DEF AllTasked, Walking
<1>4. ASSUME NEW e \in Entries, ParseFirstTask(e) PROVE AllTasked'
  <2>1. /\ mpc = "walk" /\ mpc' = "sendjob" /\ items' = items - 1 /\ items # 0
        /\ Jobs \ toVisit' = (Jobs \ toVisit) \cup {e} /\ e \notin Jobs \ toVisit
    BY <1>4 DEF ParseFirstTask, Send
  <2>2. IsFiniteSet(Jobs \ toVisit)
    BY <1>0, FS_Subset
  <2>3. Cardinality(Jobs \ toVisit') = Cardinality(Jobs \ toVisit) + 1
    BY <2>1, <2>2, FS_AddElement
  <2>4. Cardinality(Jobs \ toVisit) = NP - 1 - items
    BY <2>1 DEF AllTasked, Walking
  <2>5. Cardinality(Jobs \ toVisit)' = NP - 1 - items'
    BY <1>0, <2>1, <2>3, <2>4
  <2> QED BY <2>1, <2>5 DEF AllTasked, Walking
<1>5. ASSUME NEW r \in Slaves, ParseAnswer(r) PROVE AllTasked'
  <2>1. mpc = "request" /\ mpc' = "sendjob" /\ items' = items /\ items = 0
    BY <1>5 DEF ParseAnswer, Send, FarmInv, Dismissals
  <2> QED BY <2>1 DEF AllTasked, Walking
<1>6. ASSUME NEW r \in Slaves, KillSlave(r) PROVE AllTasked'
  <2>1. /\ mpc = "kill" /\ mpc' = "senddie" /\ slaveVars' = slaveVars
        /\ up[r] # <<>> /\ up' = [up EXCEPT ![r] = Tail(@)]
        /\ down' = [down EXCEPT ![r] = Append(@, Die)]
    BY <1>6 DEF KillSlave, Send
  <2>2. down[r] = <<>> /\ down \in [Slaves -> Seq(Message)] /\ up \in [Slaves -> Seq(Slaves)]
    BY <1>0, <2>1 DEF Exchange, TypeOK
  <2>3. down'[r] = <<Die>>
    BY <2>1, <2>2
  <2>4. ASSUME NEW s \in Slaves, s # r, Engaged(s) \/ Stopped(s) PROVE Engaged(s)' \/ Stopped(s)'
    <3>1. Same(s)
      BY <2>1, <2>2, <2>4 DEF Same, slaveVars
    <3> QED BY <1>0, <2>4, <3>1, SameKeeps
  <2>5. Stopped(r)'
    BY <2>3 DEF Stopped
  <2> QED BY <2>1, <2>4, <2>5 DEF AllTasked, Walking
<1>7. CASE EndOfWalk
  <2>1. mpc = "walk" /\ mpc' = "kill" /\ toVisit = {} /\ \A s \in Slaves : Same(s)
    BY <1>7 DEF EndOfWalk, slaveVars, Same
  <2>2. ASSUME Cardinality(Jobs) >= NP - 1, NEW s \in Slaves PROVE Engaged(s)'
    <3>1. Jobs \ toVisit = Jobs
      BY <2>1
    <3>2. items = 0
      <4>1. ASSUME items # 0 PROVE Cardinality(Jobs) = NP - 1 - items
        BY <2>1, <3>1, <4>1 DEF AllTasked, Walking
      <4> QED BY <1>0, <2>2, <4>1
    <3>3. Engaged(s)
      BY <1>0, <2>1, <3>2 DEF FirstTasks, Walking
    <3> QED BY <1>0, <2>1, <3>3, SameKeeps
  <2> QED BY <2>1, <2>2 DEF AllTasked, Walking
<1>8. CASE MasterSendReturns \/ Sleep \/ OpenMerged \/ MergeFile \/ EndOfMerge
  <2>1. /\ \A s \in Slaves : Same(s)
        /\ mpc' \in Walking <=> mpc \in Walking
        /\ mpc \in Walking => items' = items
        /\ toVisit' = toVisit
    BY <1>8 DEF MasterSendReturns, Sleep, OpenMerged, MergeFile, EndOfMerge, slaveVars, Same, Walking
  <2>2. \A s \in Slaves : Engaged(s) \/ Stopped(s) => Engaged(s)' \/ Stopped(s)'
    BY <1>0, <2>1, SameKeeps
  <2> QED BY <2>1, <2>2 DEF AllTasked
<1> QED BY <1>1, <1>2, <1>3, <1>4, <1>5, <1>6, <1>7, <1>8 DEF Next, Terminated, Master, Parse

\* When there was a file for every slave the receive in kill_slaves always has a
\* request on its way, or a slave that still works or died at it
THEOREM KillLive == Spec => []KillNotStranded
<1>1. Init => AllTasked
  <2> SUFFICES ASSUME Init PROVE AllTasked
    OBVIOUS
  <2>1. Jobs \ toVisit = {} /\ items = NP - 1 /\ mpc = "walk" /\ NP \in Nat
    BY FarmAssumption, JobsAreEntries DEF Init
  <2>2. Cardinality(Jobs \ toVisit) = NP - 1 - items
    BY <2>1, FS_EmptySet
  <2> QED BY <2>1, <2>2 DEF AllTasked, Walking
<1>2. FarmInv /\ AllTasked => KillNotStranded
  <2> SUFFICES ASSUME FarmInv, AllTasked, mpc = "kill", items # 0, Cardinality(Jobs) >= NP - 1
               PROVE  \E r \in Slaves : Held(r) # {} \/ Busy(r) \/ up[r] # <<>>
    BY DEF KillNotStranded
  <2>1. PICK r \in Slaves : ~Stopped(r)
    <3>1. Cardinality(StoppedSet) = NP - 1 - items /\ items \in Nat /\ NP \in Nat
      BY FarmAssumption DEF FarmInv, Dismissals, TypeInv, TypeOK
    <3>2. StoppedSet # Slaves
      BY <3>1, SlavesFinite
    <3> QED BY <3>2 DEF StoppedSet
  <2>2. Engaged(r) /\ Exchange(r)
    BY <2>1 DEF AllTasked, Walking, FarmInv
  <2>3. CASE down[r] # <<>>
    <3>1. PICK m \in Message : down[r] = <<m>> /\ Messages(r) = {m}
      BY <2>2, <2>3, MessagesOf
    <3>2. m # Die
      BY <2>1, <3>1 DEF Stopped
    <3> QED BY <3>1, <3>2 DEF Held
  <2> QED BY <2>2, <2>3 DEF Engaged
<1> QED BY FarmAlways, TaskedStep, <1>1, <1>2, PTL DEF Spec

-----------------------------------------------------------------------------
(* The farm implements the pool of WorkPool: each of its steps is a step of  *)
(* the pool or leaves the pool as it is.  (That the pool's work goes on is   *)
(* checked with TLC.)                                                        *)

\* What the refinement mapping makes of the farm
Pending    == (toVisit \cap Jobs) \cup ({cur} \ {NoEntry})
HeldByAll  == [r \in Slaves |-> HeldBy(r)]
Published  == IF mpc = "done" THEN Jobs ELSE NoEntry

\* What a slave has with channel d and job j, and that task or NoEntry
InHand(d, j) ==
    {m.file : m \in {d[i] : i \in 1 .. Len(d)} \ {Die}} \cup ({j} \ {NoEntry})

TaskIn(d, j) == IF InHand(d, j) = {} THEN NoEntry ELSE CHOOSE e \in InHand(d, j) : TRUE

LEMMA HeldFacts ==
    \A r \in Slaves : /\ HeldBy(r) = TaskIn(down[r], job[r])
                      /\ HeldBy(r)' = TaskIn(down'[r], job'[r])
BY DEF HeldBy, Held, Messages, TaskIn, InHand

\* A slave has at most one task: one on its way, or one it works on
LEMMA TaskFacts ==
    /\ TaskIn(<<>>, NoEntry) = NoEntry
    /\ TaskIn(<<Die>>, NoEntry) = NoEntry
    /\ \A e \in Jobs : TaskIn(<<>>, e) = e /\ TaskIn(<<Work(e)>>, NoEntry) = e
<1>1. InHand(<<>>, NoEntry) = {}
  BY DEF InHand
<1>2. ASSUME NEW m PROVE {<<m>>[i] : i \in 1 .. Len(<<m>>)} = {m}
  <2>1. Len(<<m>>) = 1 /\ <<m>>[1] = m /\ 1 .. 1 = {1}
    OBVIOUS
  <2> QED BY <2>1
<1>3. InHand(<<Die>>, NoEntry) = {}
  BY <1>2 DEF InHand
<1>4. ASSUME NEW e \in Jobs PROVE InHand(<<>>, e) = {e} /\ InHand(<<Work(e)>>, NoEntry) = {e}
  <2>1. e # NoEntry
    BY JobsAreEntries
  <2>2. InHand(<<>>, e) = {e}
    BY <2>1 DEF InHand
  <2>3. Work(e) # Die /\ Work(e).file = e
    BY WorkIsNotDie DEF Work
  <2>4. {<<Work(e)>>[i] : i \in 1 .. Len(<<Work(e)>>)} = {Work(e)}
    BY <1>2
  <2>5. {m.file : m \in {Work(e)} \ {Die}} = {e}
    BY <2>3
  <2> QED BY <2>2, <2>4, <2>5 DEF InHand
<1> QED BY <1>1, <1>3, <1>4 DEF TaskIn

\* parse has taken the file it is about to hand out from the directory
CurTaken == cur \notin toVisit

LEMMA CurStep == FarmInv /\ CurTaken /\ [Next]_vars => CurTaken'
<1> SUFFICES ASSUME FarmInv, CurTaken, [Next]_vars PROVE CurTaken'
  OBVIOUS
<1>0. toVisit \subseteq Entries /\ NoEntry \notin Entries
  BY FarmAssumption DEF FarmInv, TypeInv, TypeOK
<1>1. CASE Master
  <2>1. ASSUME NEW e \in Entries, ParseSkip(e) \/ ParseFirstTask(e) PROVE CurTaken'
    <3>1. cur' = cur /\ toVisit' \subseteq toVisit
      BY <2>1 DEF ParseSkip, ParseFirstTask
    <3> QED BY <3>1 DEF CurTaken
  <2>2. ASSUME NEW e \in Entries, ParseWait(e) PROVE CurTaken'
    BY <2>2 DEF ParseWait, CurTaken
  <2>3. ASSUME NEW r \in Slaves, ParseAnswer(r) \/ KillSlave(r) PROVE CurTaken'
    <3>1. toVisit' = toVisit /\ (cur' = cur \/ cur' = NoEntry)
      BY <2>3 DEF ParseAnswer, KillSlave
    <3> QED BY <1>0, <3>1 DEF CurTaken
  <2>4. CASE EndOfWalk \/ MasterSendReturns \/ Sleep \/ OpenMerged \/ MergeFile \/ EndOfMerge
    <3>1. cur' = cur /\ toVisit' = toVisit
      BY <2>4 DEF EndOfWalk, MasterSendReturns, Sleep, OpenMerged, MergeFile, EndOfMerge
    <3> QED BY <3>1 DEF CurTaken
  <2> QED BY <1>1, <2>1, <2>2, <2>3, <2>4 DEF Master, Parse
<1>2. CASE \E r \in Slaves : Slave(r)
  <2>1. cur' = cur /\ toVisit' = toVisit
    BY <1>2 DEF Slave, OpenResultFile, ReceiveTask, Process, Crash, RequestTask, SlaveSendReturns,
       CloseResultFile, masterVars
  <2> QED BY <2>1 DEF CurTaken
<1>3. CASE Abort \/ UNCHANGED vars
  BY <1>3 DEF Abort, CurTaken, vars, masterVars
<1> QED BY <1>1, <1>2, <1>3 DEF Next, Terminated

\* The steps of the pool, in terms of the mapping
LEMMA PoolAssign ==
    ASSUME NEW e \in Jobs, NEW r \in Slaves,
           e \in Pending, HeldBy(r) = NoEntry, Pending' = Pending \ {e},
           HeldBy(r)' = e, \A s \in Slaves \ {r} : HeldBy(s)' = HeldBy(s),
           Published' = Published
    PROVE  Pool!Assign(e, r)
<1>1. HeldByAll' = [HeldByAll EXCEPT ![r] = e]
  BY DEF HeldByAll
<1>2. HeldByAll[r] = NoEntry
  BY DEF HeldByAll
<1> QED BY <1>1, <1>2 DEF Pool!Assign, Pending, HeldByAll, Published

LEMMA PoolComplete ==
    ASSUME NEW r \in Slaves,
           HeldBy(r) # NoEntry, HeldBy(r)' = NoEntry,
           \A s \in Slaves \ {r} : HeldBy(s)' = HeldBy(s),
           Pending' = Pending, Published' = Published
    PROVE  Pool!Complete(r)
<1>1. HeldByAll' = [HeldByAll EXCEPT ![r] = NoEntry]
  <2>1. \A s \in Slaves : HeldBy(s)' = IF s = r THEN NoEntry ELSE HeldBy(s)
    OBVIOUS
  <2> QED BY <2>1, Zenon DEF HeldByAll
<1>2. HeldByAll[r] # NoEntry
  BY DEF HeldByAll
<1> QED BY <1>1, <1>2 DEF Pool!Complete, Pending, HeldByAll, Published

LEMMA PoolStutter ==
    ASSUME \A s \in Slaves : HeldBy(s)' = HeldBy(s),
           Pending' = Pending, Published' = Published
    PROVE  UNCHANGED Pool!vars
<1>1. HeldByAll' = HeldByAll
  BY DEF HeldByAll
<1> QED BY <1>1 DEF Pool!vars, Pending, HeldByAll, Published

\* A slave gives its task up only by Process
LEMMA PoolSlave ==
    ASSUME FarmInv, NEW r \in Slaves, Slave(r)
    PROVE  \/ Process(r) /\ HeldBy(r) = job[r] /\ Pool!Complete(r)
           \/ ~Process(r) /\ UNCHANGED Pool!vars
<1>0. /\ down \in [Slaves -> Seq(Message)]
      /\ job \in [Slaves -> Jobs \cup {NoEntry}] /\ NoEntry \notin Jobs
      /\ spc \in [Slaves -> {"start", "recv", "work", "reply", "sending",
                             "closing", "closed", "dead"}]
      /\ Exchange(r) /\ JobOK
  BY JobsAreEntries DEF FarmInv, TypeInv, TypeOK
<1>1. Pending' = Pending /\ Published' = Published
  BY DEF Slave, masterVars, OpenResultFile, ReceiveTask, Process, Crash, RequestTask,
     SlaveSendReturns, CloseResultFile, Pending, Published
<1>2. \A s \in Slaves \ {r} : HeldBy(s)' = HeldBy(s)
  <2>1. \A s \in Slaves \ {r} : down'[s] = down[s] /\ job'[s] = job[s]
    BY <1>0 DEF Slave, OpenResultFile, ReceiveTask, Process, Crash, RequestTask,
       SlaveSendReturns, CloseResultFile
  <2> QED BY <2>1, HeldFacts
<1>3. CASE ReceiveTask(r)
  <2>0. ~Process(r)
    BY <1>3 DEF ReceiveTask, Process
  <2>1. PICK m \in Message : down[r] = <<m>>
    BY <1>0, <1>3 DEF ReceiveTask, Exchange
  <2>2. Head(down[r]) = m /\ Tail(down[r]) = <<>>
    BY <2>1
  <2>3. down'[r] = <<>> /\ job[r] = NoEntry
    BY <1>0, <1>3, <2>2 DEF ReceiveTask, JobOK
  <2>4. CASE m.tag = 1
    <3>1. PICK e \in Jobs : m = Work(e)
      BY <2>4 DEF Message, Die
    <3>2. job'[r] = e
      BY <1>0, <1>3, <2>2, <3>1 DEF ReceiveTask, Work
    <3>3. HeldBy(r)' = HeldBy(r)
      BY <2>1, <2>3, <3>1, <3>2, HeldFacts, TaskFacts
    <3> QED BY <1>1, <1>2, <2>0, <3>3, PoolStutter
  <2>5. CASE m.tag # 1
    <3>1. m = Die
      BY <2>5 DEF Message, Work
    <3>2. job'[r] = NoEntry
      BY <1>0, <1>3, <2>2, <2>3, <2>5 DEF ReceiveTask
    <3>3. HeldBy(r)' = HeldBy(r)
      BY <2>1, <2>3, <3>1, <3>2, HeldFacts, TaskFacts
    <3> QED BY <1>1, <1>2, <2>0, <3>3, PoolStutter
  <2> QED BY <2>4, <2>5
<1>4. CASE Process(r)
  <2>1. /\ job[r] \in Jobs /\ job'[r] = NoEntry /\ down' = down /\ down[r] = <<>>
    BY <1>0, <1>4 DEF Process, JobOK, Exchange, Busy
  <2>2. HeldBy(r) = job[r] /\ HeldBy(r)' = NoEntry
    BY <2>1, HeldFacts, TaskFacts
  <2> QED BY <1>0, <1>1, <1>2, <1>4, <2>1, <2>2, PoolComplete
<1>5. CASE OpenResultFile(r) \/ Crash(r) \/ RequestTask(r) \/ SlaveSendReturns(r) \/ CloseResultFile(r)
  <2>1. down' = down /\ job' = job
    BY <1>5 DEF OpenResultFile, Crash, RequestTask, SlaveSendReturns, CloseResultFile
  <2>2. HeldBy(r)' = HeldBy(r)
    BY <2>1, HeldFacts
  <2>3. ~Process(r)
    <3>1. CASE Crash(r)
      <4>1. spc'[r] = "dead"
        BY <1>0, <3>1 DEF Crash
      <4> QED BY <1>0, <4>1 DEF Process
    <3>2. CASE ~Crash(r)
      BY <1>5, <3>2 DEF Process, OpenResultFile, RequestTask, SlaveSendReturns, CloseResultFile
    <3> QED BY <3>1, <3>2
  <2> QED BY <1>1, <1>2, <2>2, <2>3, PoolStutter
<1> QED BY <1>3, <1>4, <1>5 DEF Slave

\* When the master merges nothing is pending, and no slave has a task
LEMMA NothingHeld ==
    ASSUME FarmInv, mpc \in {"merge", "done"}
    PROVE  toVisit = {} /\ cur = NoEntry /\ \A r \in Slaves : HeldBy(r) = NoEntry
<1>1. toVisit = {} /\ cur = NoEntry
  BY DEF FarmInv, TypeInv, Dismissals, Walking, CurOK
<1>2. ASSUME NEW r \in Slaves PROVE HeldBy(r) = NoEntry
  <2>1. Stopped(r) /\ Exchange(r) /\ JobOK
    BY AllStopped DEF FarmInv, TypeInv
  <2>2. job[r] = NoEntry /\ (down[r] = <<>> \/ down[r] = <<Die>>)
    BY <2>1 DEF Stopped, Exchange, JobOK
  <2> QED BY <2>2, HeldFacts, TaskFacts
<1> QED BY <1>1, <1>2

\* The master only hands tasks out, and publishes at its end
LEMMA PoolMaster ==
    ASSUME FarmInv, CurTaken, Master
    PROVE  \/ \E e \in Jobs, r \in Slaves : Pool!Assign(e, r)
           \/ Pool!Publish
           \/ UNCHANGED Pool!vars
<1>0. /\ down \in [Slaves -> Seq(Message)] /\ job \in [Slaves -> Jobs \cup {NoEntry}]
      /\ NoEntry \notin Jobs /\ JobOK /\ CurOK /\ items \in 0 .. NP - 1
      /\ \A r \in Slaves : Exchange(r)
  BY JobsAreEntries DEF FarmInv, TypeInv, TypeOK
<1>1. ASSUME NEW e \in Entries, ParseSkip(e) \/ ParseWait(e) PROVE UNCHANGED Pool!vars
  <2>1. down' = down /\ job' = job /\ Published' = Published
    BY <1>1 DEF ParseSkip, ParseWait, slaveVars, Published
  <2>2. Pending' = Pending
    <3>1. CASE ParseSkip(e)
      BY <3>1 DEF ParseSkip, Pending
    <3>2. CASE ParseWait(e)
      BY <1>0, <3>2 DEF ParseWait, Pending, CurOK
    <3> QED BY <1>1, <3>1, <3>2
  <2> QED BY <2>1, <2>2, HeldFacts, PoolStutter
<1>2. ASSUME NEW e \in Entries, ParseFirstTask(e)
      PROVE  \E j \in Jobs, r \in Slaves : Pool!Assign(j, r)
  <2>1. PICK r \in Slaves : r = items
    BY <1>0, <1>2, FarmAssumption DEF ParseFirstTask, Slaves
  <2>2. e \in Jobs /\ mpc = "walk" /\ mpc' = "sendjob" /\ job' = job
        /\ down' = [down EXCEPT ![r] = Append(@, Work(e))]
    BY <1>2, <2>1 DEF ParseFirstTask, Send, slaveVars
  <2>3. ~Engaged(r)
    BY <2>1, <2>2 DEF FarmInv, FirstTasks, Walking, Slaves
  <2>4. down[r] = <<>> /\ job[r] = NoEntry
    BY <2>3 DEF Engaged, Busy
  <2>5. down'[r] = <<Work(e)>>
    BY <1>0, <2>2, <2>4
  <2>6. HeldBy(r) = NoEntry /\ HeldBy(r)' = e
    BY <2>2, <2>4, <2>5, HeldFacts, TaskFacts
  <2>7. \A s \in Slaves \ {r} : HeldBy(s)' = HeldBy(s)
    BY <1>0, <2>2, HeldFacts
  <2>8. e \in Pending /\ Pending' = Pending \ {e} /\ Published' = Published
    BY <1>0, <1>2, <2>2 DEF ParseFirstTask, Pending, Published, CurOK
  <2> QED BY <2>2, <2>6, <2>7, <2>8, PoolAssign
<1>3. ASSUME NEW r \in Slaves, ParseAnswer(r)
      PROVE  \E j \in Jobs, s \in Slaves : Pool!Assign(j, s)
  <2>1. /\ mpc = "request" /\ mpc' = "sendjob" /\ cur' = NoEntry /\ toVisit' = toVisit
        /\ down' = [down EXCEPT ![r] = Append(@, Work(cur))] /\ job' = job /\ up[r] # <<>>
    BY <1>3 DEF ParseAnswer, Send, slaveVars
  <2>2. cur \in Jobs
    BY <1>0, <2>1 DEF CurOK, FarmInv, TypeInv, TypeOK
  <2>3. down[r] = <<>> /\ job[r] = NoEntry
    BY <1>0, <2>1 DEF Exchange, JobOK
  <2>4. down'[r] = <<Work(cur)>>
    BY <1>0, <2>1, <2>3
  <2>5. HeldBy(r) = NoEntry /\ HeldBy(r)' = cur
    BY <2>1, <2>2, <2>3, <2>4, HeldFacts, TaskFacts
  <2>6. \A s \in Slaves \ {r} : HeldBy(s)' = HeldBy(s)
    BY <1>0, <2>1, HeldFacts
  <2>7. cur \in Pending /\ Pending' = Pending \ {cur} /\ Published' = Published
    BY <1>0, <2>1, <2>2 DEF Pending, Published, CurTaken
  <2> QED BY <2>2, <2>5, <2>6, <2>7, PoolAssign
<1>4. ASSUME NEW r \in Slaves, KillSlave(r) PROVE UNCHANGED Pool!vars
  <2>1. /\ mpc = "kill" /\ mpc' = "senddie" /\ cur' = cur /\ toVisit' = toVisit
        /\ down' = [down EXCEPT ![r] = Append(@, Die)] /\ job' = job /\ up[r] # <<>>
    BY <1>4 DEF KillSlave, Send, slaveVars
  <2>2. down[r] = <<>> /\ job[r] = NoEntry
    BY <1>0, <2>1 DEF Exchange, JobOK
  <2>3. down'[r] = <<Die>>
    BY <1>0, <2>1, <2>2
  <2>4. HeldBy(r)' = HeldBy(r)
    BY <2>1, <2>2, <2>3, HeldFacts, TaskFacts
  <2>5. \A s \in Slaves \ {r} : HeldBy(s)' = HeldBy(s)
    BY <1>0, <2>1, HeldFacts
  <2>6. Pending' = Pending /\ Published' = Published
    BY <2>1 DEF Pending, Published
  <2> QED BY <2>4, <2>5, <2>6, PoolStutter
<1>5. CASE EndOfWalk \/ MasterSendReturns \/ Sleep \/ OpenMerged \/ MergeFile
  <2>1. down' = down /\ job' = job /\ Pending' = Pending /\ Published' = Published
    BY <1>5 DEF EndOfWalk, MasterSendReturns, Sleep, OpenMerged, MergeFile, slaveVars,
       Pending, Published
  <2> QED BY <2>1, HeldFacts, PoolStutter
<1>6. CASE EndOfMerge
  <2>1. /\ mpc = "merge" /\ mpc' = "done" /\ toVisit' = toVisit /\ cur' = cur
        /\ down' = down /\ job' = job
    BY <1>6 DEF EndOfMerge, slaveVars
  <2>2. toVisit = {} /\ cur = NoEntry /\ \A r \in Slaves : HeldBy(r) = NoEntry
    BY <2>1, NothingHeld
  <2>3. Pending = {} /\ Pending' = {} /\ Published = NoEntry /\ Published' = Jobs
    BY <2>1, <2>2 DEF Pending, Published
  <2>4. HeldByAll' = HeldByAll /\ \A r \in Slaves : HeldByAll[r] = NoEntry
    BY <2>1, <2>2, HeldFacts DEF HeldByAll
  <2>5. Pool!Publish
    BY <2>3, <2>4 DEF Pool!Publish, Pending, HeldByAll, Published
  <2> QED BY <2>5
<1> QED BY <1>1, <1>2, <1>3, <1>4, <1>5, <1>6 DEF Master, Parse

\* Every file is worked on once and by one slave, and the master finishes only
\* when none is pending or held: the safety part of PoolImplemented
THEOREM PoolSafety == Spec => Pool!SafeSpec
<1>1. Init => Pool!Init /\ CurTaken
  <2> SUFFICES ASSUME Init PROVE Pool!Init /\ CurTaken
    OBVIOUS
  <2>1. Pending = Jobs /\ Published = NoEntry /\ CurTaken
    BY JobsAreEntries, FarmAssumption DEF Init, Pending, Published, CurTaken
  <2>2. \A r \in Slaves : down[r] = <<>> /\ job[r] = NoEntry
    BY DEF Init
  <2>3. HeldByAll = [r \in Slaves |-> NoEntry]
    BY <2>2, HeldFacts, TaskFacts DEF HeldByAll
  <2> QED BY <2>1, <2>3 DEF Pool!Init, Pending, HeldByAll, Published
<1>2. FarmInv /\ CurTaken /\ [Next]_vars => [Pool!Next]_Pool!vars
  <2> SUFFICES ASSUME FarmInv, CurTaken, [Next]_vars
               PROVE  Pool!Next \/ UNCHANGED Pool!vars
    OBVIOUS
  <2>1. CASE Abort \/ UNCHANGED vars
    <3>1. down' = down /\ job' = job /\ Pending' = Pending /\ Published' = Published
      BY <2>1 DEF Abort, vars, masterVars, slaveVars, Pending, Published
    <3> QED BY <3>1, HeldFacts, PoolStutter
  <2> QED BY <2>1, PoolMaster, PoolSlave DEF Next, Terminated, Pool!Next
<1> QED BY FarmAlways, CurStep, <1>1, <1>2, PTL DEF Spec, Pool!SafeSpec

-----------------------------------------------------------------------------
(* What is printed: the rows of documents, whole. *)

\* The sequence consists of the rows of documents, both pieces of each, one document
\* after the other and none twice
Whole(s) ==
    /\ s \in Seq(Row)
    /\ \A i \in 1 .. Len(s) :
          \/ s[i][2] = 1 /\ i + 1 \in 1 .. Len(s) /\ s[i + 1] = <<s[i][1], 2>>
          \/ s[i][2] = 2 /\ i - 1 \in 1 .. Len(s) /\ s[i - 1] = <<s[i][1], 1>>
    /\ \A i, j \in 1 .. Len(s) : s[i] = s[j] => i = j

Docs(s) == {s[i][1] : i \in 1 .. Len(s)}

LEMMA WholeNone == Whole(<<>>) /\ Docs(<<>>) = {}
BY DEF Whole, Docs

\* The rows of one document
LEMMA WholeRows ==
    ASSUME NEW e \in Entries
    PROVE  Whole(Rows(e)) /\ Docs(Rows(e)) = IF HasRows(e) THEN {e} ELSE {}
<1>1. CASE HasRows(e)
  <2> DEFINE s == <<<<e, 1>>, <<e, 2>>>>
  <2>1. /\ Rows(e) = s /\ Len(s) = 2 /\ s[1] = <<e, 1>> /\ s[2] = <<e, 2>>
        /\ \A i \in 1 .. 2 : i = 1 \/ i = 2
    BY <1>1 DEF Rows
  <2>2. s \in Seq(Row)
    BY <2>1, RowsAreNew
  <2> HIDE DEF s
  <2>3. \A i \in 1 .. Len(s) :
          \/ s[i][2] = 1 /\ i + 1 \in 1 .. Len(s) /\ s[i + 1] = <<s[i][1], 2>>
          \/ s[i][2] = 2 /\ i - 1 \in 1 .. Len(s) /\ s[i - 1] = <<s[i][1], 1>>
    BY <2>1
  <2>4. \A i, j \in 1 .. Len(s) : s[i] = s[j] => i = j
    <3>1. <<e, 1>> # <<e, 2>>
      OBVIOUS
    <3> QED BY <2>1, <3>1
  <2>5. Docs(s) = {e}
    <3>1. 1 \in 1 .. 2 /\ s[1][1] = e /\ s[2][1] = e
      BY <2>1
    <3> QED BY <2>1, <3>1 DEF Docs
  <2> QED BY <1>1, <2>1, <2>2, <2>3, <2>4, <2>5 DEF Whole
<1>2. CASE ~HasRows(e)
  BY <1>2, WholeNone DEF Rows
<1> QED BY <1>1, <1>2

\* Whole rows of different documents may stand behind each other
LEMMA WholeConcat ==
    ASSUME NEW s, NEW t, Whole(s), Whole(t), Docs(s) \cap Docs(t) = {}
    PROVE  Whole(s \o t) /\ Docs(s \o t) = Docs(s) \cup Docs(t)
<1> DEFINE u == s \o t
<1>1. s \in Seq(Row) /\ t \in Seq(Row)
  BY DEF Whole
<1>2. PICK m \in Nat, n \in Nat : m = Len(s) /\ n = Len(t)
  BY <1>1
<1>3. /\ u \in Seq(Row) /\ Len(u) = m + n
      /\ \A i \in 1 .. m : u[i] = s[i]
      /\ \A i \in 1 .. n : u[m + i] = t[i]
  <2>1. /\ s \o t \in Seq(Row) /\ Len(s \o t) = Len(s) + Len(t)
        /\ \A i \in 1 .. Len(s) + Len(t) :
              (s \o t)[i] = IF i <= Len(s) THEN s[i] ELSE t[i - Len(s)]
    BY <1>1, ConcatProperties
  <2>2. ASSUME NEW i \in 1 .. n PROVE u[m + i] = t[i]
    <3>1. m + i \in 1 .. m + n /\ ~(m + i <= m) /\ (m + i) - m = i
      OBVIOUS
    <3> QED BY <1>2, <2>1, <3>1
  <2>3. ASSUME NEW i \in 1 .. m PROVE u[i] = s[i]
    <3>1. i \in 1 .. m + n /\ i <= m
      OBVIOUS
    <3> QED BY <1>2, <2>1, <3>1
  <2> QED BY <1>2, <2>1, <2>2, <2>3
<1> HIDE DEF u
<1>4. \A i \in 1 .. m + n : i \in 1 .. m \/ \E k \in 1 .. n : i = m + k
  <2> SUFFICES ASSUME NEW i \in 1 .. m + n, i \notin 1 .. m PROVE \E k \in 1 .. n : i = m + k
    OBVIOUS
  <2>1. i - m \in 1 .. n /\ i = m + (i - m)
    OBVIOUS
  <2> QED BY <2>1
<1>5. /\ \A i \in 1 .. m :
            \/ s[i][2] = 1 /\ i + 1 \in 1 .. m /\ s[i + 1] = <<s[i][1], 2>>
            \/ s[i][2] = 2 /\ i - 1 \in 1 .. m /\ s[i - 1] = <<s[i][1], 1>>
      /\ \A i, j \in 1 .. m : s[i] = s[j] => i = j
      /\ \A i \in 1 .. n :
            \/ t[i][2] = 1 /\ i + 1 \in 1 .. n /\ t[i + 1] = <<t[i][1], 2>>
            \/ t[i][2] = 2 /\ i - 1 \in 1 .. n /\ t[i - 1] = <<t[i][1], 1>>
      /\ \A i, j \in 1 .. n : t[i] = t[j] => i = j
  BY <1>2 DEF Whole
<1>6. \A i \in 1 .. m, k \in 1 .. n : s[i] # t[k]
  <2> SUFFICES ASSUME NEW i \in 1 .. m, NEW k \in 1 .. n, s[i] = t[k] PROVE FALSE
    OBVIOUS
  <2>1. s[i][1] \in Docs(s) /\ t[k][1] \in Docs(t)
    BY <1>2 DEF Docs
  <2> QED BY <2>1
<1>7. ASSUME NEW i \in 1 .. m + n
      PROVE  \/ u[i][2] = 1 /\ i + 1 \in 1 .. m + n /\ u[i + 1] = <<u[i][1], 2>>
             \/ u[i][2] = 2 /\ i - 1 \in 1 .. m + n /\ u[i - 1] = <<u[i][1], 1>>
  <2>1. CASE i \in 1 .. m
    <3>1. /\ i + 1 \in 1 .. m => i + 1 \in 1 .. m + n /\ u[i + 1] = s[i + 1]
          /\ i - 1 \in 1 .. m => i - 1 \in 1 .. m + n /\ u[i - 1] = s[i - 1]
          /\ u[i] = s[i]
      BY <1>3, <2>1
    <3> QED BY <1>5, <2>1, <3>1
  <2>2. CASE i \notin 1 .. m
    <3>1. PICK k \in 1 .. n : i = m + k
      BY <1>4, <2>2
    <3>2. /\ k + 1 \in 1 .. n => m + (k + 1) \in 1 .. m + n /\ u[m + (k + 1)] = t[k + 1]
          /\ k - 1 \in 1 .. n => m + (k - 1) \in 1 .. m + n /\ u[m + (k - 1)] = t[k - 1]
          /\ u[i] = t[k]
      BY <1>3, <3>1
    <3>3. i + 1 = m + (k + 1) /\ i - 1 = m + (k - 1)
      BY <3>1
    <3> QED BY <1>5, <3>2, <3>3
  <2> QED BY <2>1, <2>2
<1>8. ASSUME NEW i \in 1 .. m + n, NEW j \in 1 .. m + n, u[i] = u[j] PROVE i = j
  <2>1. CASE i \in 1 .. m /\ j \in 1 .. m
    BY <1>3, <1>5, <1>8, <2>1
  <2>2. CASE i \in 1 .. m /\ j \notin 1 .. m
    BY <1>3, <1>4, <1>6, <1>8, <2>2
  <2>3. CASE i \notin 1 .. m /\ j \in 1 .. m
    BY <1>3, <1>4, <1>6, <1>8, <2>3
  <2>4. CASE i \notin 1 .. m /\ j \notin 1 .. m
    <3>1. PICK k \in 1 .. n : i = m + k
      BY <1>4, <2>4
    <3>2. PICK l \in 1 .. n : j = m + l
      BY <1>4, <2>4
    <3>3. t[k] = t[l]
      BY <1>3, <1>8, <3>1, <3>2
    <3> QED BY <1>5, <3>1, <3>2, <3>3
  <2> QED BY <2>1, <2>2, <2>3, <2>4
<1>9. Whole(u)
  BY <1>3, <1>7, <1>8 DEF Whole
<1>10. Docs(u) = Docs(s) \cup Docs(t)
  <2>1. ASSUME NEW e \in Docs(u) PROVE e \in Docs(s) \cup Docs(t)
    <3>1. PICK i \in 1 .. m + n : e = u[i][1]
      BY <1>3 DEF Docs
    <3>2. CASE i \in 1 .. m
      BY <1>2, <1>3, <3>1, <3>2 DEF Docs
    <3>3. CASE i \notin 1 .. m
      <4>1. PICK k \in 1 .. n : i = m + k
        BY <1>4, <3>3
      <4>2. u[i] = t[k]
        BY <1>3, <4>1
      <4> QED BY <1>2, <3>1, <4>2 DEF Docs
    <3> QED BY <3>2, <3>3
  <2>2. ASSUME NEW e \in Docs(s) PROVE e \in Docs(u)
    <3>1. PICK i \in 1 .. m : e = s[i][1]
      BY <1>2 DEF Docs
    <3>2. i \in 1 .. m + n
      OBVIOUS
    <3> QED BY <1>3, <3>1, <3>2 DEF Docs
  <2>3. ASSUME NEW e \in Docs(t) PROVE e \in Docs(u)
    <3>1. PICK i \in 1 .. n : e = t[i][1]
      BY <1>2 DEF Docs
    <3>2. m + i \in 1 .. m + n
      OBVIOUS
    <3> QED BY <1>3, <3>1, <3>2 DEF Docs
  <2> QED BY <2>1, <2>2, <2>3
<1> QED BY <1>9, <1>10 DEF u

\* A document among whole rows is in the output as InOutput wants it
LEMMA WholeOutput ==
    ASSUME Whole(merged), NEW e \in Docs(merged), HasRows(e)
    PROVE  InOutput(e)
<1> DEFINE s == merged
<1>1. /\ s \in Seq(Row) /\ Len(s) \in Nat
      /\ \A i \in 1 .. Len(s) :
          \/ s[i][2] = 1 /\ i + 1 \in 1 .. Len(s) /\ s[i + 1] = <<s[i][1], 2>>
          \/ s[i][2] = 2 /\ i - 1 \in 1 .. Len(s) /\ s[i - 1] = <<s[i][1], 1>>
      /\ \A i, j \in 1 .. Len(s) : s[i] = s[j] => i = j
  BY DEF Whole
<1>2. PICK h \in 1 .. Len(s) : s[h][1] = e
  BY DEF Docs
<1>3. \A i \in 1 .. Len(s) : s[i] = <<s[i][1], s[i][2]>>
  <2>1. \A i \in 1 .. Len(s) : s[i] \in Row
    BY <1>1
  <2> QED BY <2>1 DEF Row
<1>4. \E i \in 1 .. Len(s) - 1 : s[i] = <<e, 1>> /\ s[i + 1] = <<e, 2>>
  <2>1. CASE s[h][2] = 1
    <3>1. h + 1 \in 1 .. Len(s) /\ s[h + 1] = <<e, 2>> /\ s[h] = <<e, 1>>
      BY <1>1, <1>2, <1>3, <2>1
    <3>2. h \in 1 .. Len(s) - 1
      BY <1>1, <3>1
    <3> QED BY <3>1, <3>2
  <2>2. CASE s[h][2] # 1
    <3>1. h - 1 \in 1 .. Len(s) /\ s[h - 1] = <<e, 1>> /\ s[h] = <<e, 2>>
      BY <1>1, <1>2, <1>3, <2>2
    <3>2. h - 1 \in 1 .. Len(s) - 1 /\ (h - 1) + 1 = h
      BY <1>1, <3>1
    <3> QED BY <3>1, <3>2
  <2> QED BY <2>1, <2>2
<1>5. PICK i \in 1 .. Len(s) - 1 : s[i] = <<e, 1>> /\ s[i + 1] = <<e, 2>>
  BY <1>4
<1>6. i \in 1 .. Len(s) /\ i + 1 \in 1 .. Len(s)
  BY <1>1
<1>7. Rows(e) = <<<<e, 1>>, <<e, 2>>>>
  BY DEF Rows
<1>8. SubSeq(s, i, i + 1) = Rows(e)
  <2> DEFINE sub == SubSeq(s, i, i + 1)
  <2>1. /\ sub \in Seq(Row) /\ Len(sub) = 2
        /\ \A k \in 1 .. 2 : sub[k] = s[i + k - 1]
    <3>1. \A k \in i .. i + 1 : s[k] \in Row
      BY <1>1, <1>6
    <3>2. (i + 1) - i + 1 = 2 /\ i + 1 >= i /\ i \in Int /\ i + 1 \in Int
      OBVIOUS
    <3> QED BY <3>1, <3>2, SubSeqProperties
  <2>2. sub[1] = <<e, 1>> /\ sub[2] = <<e, 2>>
    <3>1. i + 1 - 1 = i /\ i + 2 - 1 = i + 1
      OBVIOUS
    <3> QED BY <1>5, <2>1, <3>1
  <2> HIDE DEF sub
  <2>3. sub = <<<<e, 1>>, <<e, 2>>>>
    BY <2>1, <2>2
  <2> QED BY <1>7, <2>3 DEF sub
<1>9. \A k \in 1 .. Len(s) : s[k] \in {Rows(e)[1], Rows(e)[2]} => k \in {i, i + 1}
  <2>1. Rows(e)[1] = <<e, 1>> /\ Rows(e)[2] = <<e, 2>>
    BY <1>7
  <2>2. ASSUME NEW k \in 1 .. Len(s), s[k] = s[i] \/ s[k] = s[i + 1] PROVE k \in {i, i + 1}
    BY <1>1, <1>6, <2>2
  <2> QED BY <1>5, <2>1, <2>2
<1> QED BY <1>8, <1>9 DEF InOutput

-----------------------------------------------------------------------------
(* Where a document is: pending, with a slave, or printed by one. *)

\* What slave r has printed for this run: in its file or still in its buffer
Printed(r) == disk[r] \o buf[r]

Living(r) == spc[r] \notin {"start", "dead"}

DocsOf(r) == IF Living(r) THEN Docs(Printed(r)) ELSE {}
DocsByAll == [r \in Slaves |-> DocsOf(r)]

\* A slave has printed whole rows, and nothing is in the buffer of one that has
\* not opened its file or has closed it
TextOf(r) ==
    /\ spc[r] \in {"start", "closed"} => buf[r] = <<>>
    /\ Living(r) => Whole(Printed(r))

\* P: pending documents; h[r]: the one slave r has; D[r]: those it has printed.
\* None is in two of these places
Apart(P, h, D) ==
    \A r \in Slaves :
        /\ D[r] \cap P = {}
        /\ h[r] # NoEntry => h[r] \notin P
        /\ \A s \in Slaves :
              /\ h[r] # NoEntry => h[r] \notin D[s]
              /\ s # r => D[r] \cap D[s] = {}
              /\ s # r /\ h[r] # NoEntry => h[r] # h[s]

\* A document with rows is in one of them
Kept(P, h, D) ==
    \A e \in Jobs : HasRows(e) => e \in P \/ \E r \in Slaves : h[r] = e \/ e \in D[r]

NoneDead == \A r \in Slaves : spc[r] # "dead"

TextInv ==
    /\ \A r \in Slaves : TextOf(r)
    /\ Apart(Pending, HeldByAll, DocsByAll)
    /\ NoneDead => Kept(Pending, HeldByAll, DocsByAll)

\* What merge_files has copied so far, when it finds every file closed
MergeInv ==
    /\ mpc \in {"merge", "done"} => \A r \in Slaves : Closed(r)
    /\ mpc = "merge" =>
          /\ Whole(merged)
          /\ \A e : e \in Docs(merged) <=> \E r \in Slaves : r < next /\ e \in DocsOf(r)
    /\ mpc = "done" =>
          /\ Whole(merged)
          /\ \A r \in Slaves : DocsOf(r) \subseteq Docs(merged)

\* The hypothesis of MergedInTime, on a state
ClosedInTime == mpc = "merge" => \A r \in Slaves : Closed(r)

-----------------------------------------------------------------------------
(* The steps of the three places. *)

\* A document is handed out
LEMMA PlacesAssign ==
    ASSUME NEW P, NEW h, NEW D, NEW P2, NEW h2, NEW e \in Jobs, NEW r \in Slaves,
           Apart(P, h, D), h \in [Slaves -> Jobs \cup {NoEntry}],
           e \in P, h[r] = NoEntry, P2 = P \ {e}, h2 = [h EXCEPT ![r] = e]
    PROVE  Apart(P2, h2, D) /\ (Kept(P, h, D) => Kept(P2, h2, D))
<1>1. h2[r] = e /\ (\A s \in Slaves : s # r => h2[s] = h[s]) /\ e # NoEntry
  BY JobsAreEntries
<1>2. ASSUME NEW s \in Slaves
      PROVE  /\ D[s] \cap P2 = {}
             /\ h2[s] # NoEntry => h2[s] \notin P2
             /\ \A t \in Slaves :
                   /\ h2[s] # NoEntry => h2[s] \notin D[t]
                   /\ t # s => D[s] \cap D[t] = {}
                   /\ t # s /\ h2[s] # NoEntry => h2[s] # h2[t]
  <2>1. D[s] \cap P2 = {}
    BY DEF Apart
  <2>2. CASE s = r
    <3>1. h2[s] \notin P2
      BY <1>1, <2>2
    <3>2. ASSUME NEW t \in Slaves
          PROVE  h2[s] \notin D[t] /\ (t # s => D[s] \cap D[t] = {} /\ h2[s] # h2[t])
      <4>1. e \notin D[t] /\ h[t] # e
        BY JobsAreEntries DEF Apart
      <4> QED BY <1>1, <2>2, <4>1 DEF Apart
    <3> QED BY <2>1, <3>1, <3>2
  <2>3. CASE s # r
    <3>1. h2[s] = h[s]
      BY <1>1, <2>3
    <3>2. h[s] # NoEntry => h[s] \notin P /\ h[s] # e
      BY DEF Apart
    <3>3. ASSUME NEW t \in Slaves
          PROVE  /\ h2[s] # NoEntry => h2[s] \notin D[t]
                 /\ t # s => D[s] \cap D[t] = {}
                 /\ t # s /\ h2[s] # NoEntry => h2[s] # h2[t]
      <4>1. /\ h[s] # NoEntry => h[s] \notin D[t]
            /\ t # s => D[s] \cap D[t] = {}
            /\ t # s /\ h[s] # NoEntry => h[s] # h[t]
        BY DEF Apart
      <4> QED BY <1>1, <3>1, <3>2, <4>1
    <3> QED BY <2>1, <3>1, <3>2, <3>3
  <2> QED BY <2>2, <2>3
<1>3. Apart(P2, h2, D)
  BY <1>2 DEF Apart
<1>4. ASSUME Kept(P, h, D), NEW d \in Jobs, HasRows(d)
      PROVE  d \in P2 \/ \E s \in Slaves : h2[s] = d \/ d \in D[s]
  <2>1. d \in P \/ \E s \in Slaves : h[s] = d \/ d \in D[s]
    BY <1>4 DEF Kept
  <2>2. CASE d \in P
    BY <1>1, <2>2
  <2>3. CASE \E s \in Slaves : h[s] = d \/ d \in D[s]
    <3>1. PICK s \in Slaves : h[s] = d \/ d \in D[s]
      BY <2>3
    <3>2. h[s] = d => s # r
      BY JobsAreEntries
    <3> QED BY <1>1, <3>1, <3>2
  <2> QED BY <2>1, <2>2, <2>3
<1> QED BY <1>3, <1>4 DEF Kept

\* A document is printed by the slave that has it
LEMMA PlacesComplete ==
    ASSUME NEW P, NEW h, NEW D, NEW h2, NEW D2, NEW e \in Jobs, NEW r \in Slaves,
           Apart(P, h, D), h \in [Slaves -> Jobs \cup {NoEntry}],
           h[r] = e, h2 = [h EXCEPT ![r] = NoEntry],
           \A s \in Slaves \ {r} : D2[s] = D[s],
           D2[r] \subseteq D[r] \cup {e}, D[r] \subseteq D2[r], HasRows(e) => e \in D2[r]
    PROVE  Apart(P, h2, D2) /\ (Kept(P, h, D) => Kept(P, h2, D2))
<1>1. h2[r] = NoEntry /\ (\A s \in Slaves : s # r => h2[s] = h[s]) /\ e # NoEntry
  BY JobsAreEntries
<1>2. e \notin P /\ \A s \in Slaves : e \notin D[s] /\ (s # r => h[s] # e)
  BY <1>1 DEF Apart
<1>3. ASSUME NEW s \in Slaves PROVE D2[s] \cap P = {}
  <2>1. D[s] \cap P = {}
    BY DEF Apart
  <2>2. CASE s = r
    BY <1>2, <2>1, <2>2
  <2>3. CASE s # r
    BY <2>1, <2>3
  <2> QED BY <2>2, <2>3
<1>4. ASSUME NEW s \in Slaves, NEW t \in Slaves, t # s PROVE D2[s] \cap D2[t] = {}
  <2>1. D[s] \cap D[t] = {}
    BY <1>4 DEF Apart
  <2>2. CASE s = r
    <3>1. D2[t] = D[t] /\ D2[s] \subseteq D[s] \cup {e} /\ e \notin D[t]
      BY <1>2, <1>4, <2>2
    <3> QED BY <2>1, <3>1
  <2>3. CASE t = r
    <3>1. D2[s] = D[s] /\ D2[t] \subseteq D[t] \cup {e} /\ e \notin D[s]
      BY <1>2, <1>4, <2>3
    <3> QED BY <2>1, <3>1
  <2>4. CASE s # r /\ t # r
    BY <2>1, <2>4
  <2> QED BY <2>2, <2>3, <2>4
<1>5. ASSUME NEW s \in Slaves, h2[s] # NoEntry
      PROVE  h2[s] \notin P /\ \A t \in Slaves : h2[s] \notin D2[t] /\ (t # s => h2[s] # h2[t])
  <2>1. s # r /\ h2[s] = h[s]
    BY <1>1, <1>5
  <2>2. /\ h[s] # NoEntry /\ h[s] \notin P /\ h[s] # e
        /\ \A t \in Slaves : h[s] \notin D[t] /\ (t # s => h[s] # h[t])
    BY <1>2, <1>5, <2>1 DEF Apart
  <2>3. ASSUME NEW t \in Slaves PROVE h2[s] \notin D2[t] /\ (t # s => h2[s] # h2[t])
    <3>1. CASE t = r
      BY <1>1, <2>1, <2>2, <3>1
    <3>2. CASE t # r
      BY <1>1, <2>1, <2>2, <3>2
    <3> QED BY <3>1, <3>2
  <2> QED BY <2>1, <2>2, <2>3
<1>6. Apart(P, h2, D2)
  BY <1>3, <1>4, <1>5 DEF Apart
<1>7. ASSUME Kept(P, h, D), NEW d \in Jobs, HasRows(d)
      PROVE  d \in P \/ \E s \in Slaves : h2[s] = d \/ d \in D2[s]
  <2>1. d \in P \/ \E s \in Slaves : h[s] = d \/ d \in D[s]
    BY <1>7 DEF Kept
  <2>2. CASE \E s \in Slaves : h[s] = d \/ d \in D[s]
    <3>1. PICK s \in Slaves : h[s] = d \/ d \in D[s]
      BY <2>2
    <3>2. CASE s = r
      BY <1>7, <3>1, <3>2
    <3>3. CASE s # r
      BY <1>1, <3>1, <3>3
    <3> QED BY <3>2, <3>3
  <2> QED BY <2>1, <2>2
<1> QED BY <1>6, <1>7 DEF Kept

\* The rows of a slave that dies are lost
LEMMA PlacesDie ==
    ASSUME NEW P, NEW h, NEW D, NEW D2, NEW r \in Slaves, Apart(P, h, D),
           \A s \in Slaves \ {r} : D2[s] = D[s], D2[r] = {}
    PROVE  Apart(P, h, D2)
<1>1. \A s \in Slaves : D2[s] \subseteq D[s]
  OBVIOUS
<1>2. ASSUME NEW s \in Slaves, NEW t \in Slaves
      PROVE  /\ D2[s] \cap P = {}
             /\ t # s => D2[s] \cap D2[t] = {}
             /\ h[s] # NoEntry => h[s] \notin D2[t]
  <2>1. D[s] \cap P = {} /\ (t # s => D[s] \cap D[t] = {}) /\ (h[s] # NoEntry => h[s] \notin D[t])
    BY DEF Apart
  <2>2. D2[s] \subseteq D[s] /\ D2[t] \subseteq D[t]
    BY <1>1
  <2> QED BY <2>1, <2>2
<1> QED BY <1>2 DEF Apart

\* What is cut in two is the two parts one after the other
LEMMA CutJoin ==
    ASSUME NEW S, NEW s \in Seq(S), NEW k \in 0 .. Len(s)
    PROVE  SubSeq(s, 1, k) \o SubSeq(s, k + 1, Len(s)) = s
<1> DEFINE a == SubSeq(s, 1, k)
           b == SubSeq(s, k + 1, Len(s))
<1>1. PICK n \in Nat : n = Len(s)
  OBVIOUS
<1>2. a \in Seq(S) /\ b \in Seq(S)
  BY CutType
<1>3. Len(a) = k /\ \A i \in 1 .. k : a[i] = s[i]
  <2>1. \A i \in 1 .. k : s[i] \in S
    BY <1>1
  <2>2. Len(a) = (IF 1 <= k THEN k - 1 + 1 ELSE 0) /\ \A i \in 1 .. k - 1 + 1 : a[i] = s[1 + i - 1]
    BY <2>1, <1>1, SubSeqProperties
  <2>3. k \in Nat /\ k - 1 + 1 = k /\ \A i \in 1 .. k : 1 + i - 1 = i
    BY <1>1
  <2> QED BY <2>2, <2>3
<1>4. Len(b) = n - k /\ \A i \in 1 .. n - k : b[i] = s[k + i]
  <2>1. \A i \in k + 1 .. n : s[i] \in S
    BY <1>1
  <2>2. /\ Len(b) = (IF k + 1 <= n THEN n - (k + 1) + 1 ELSE 0)
        /\ \A i \in 1 .. n - (k + 1) + 1 : b[i] = s[k + 1 + i - 1]
    BY <2>1, <1>1, SubSeqProperties
  <2>3. k \in Nat /\ k <= n /\ n - (k + 1) + 1 = n - k /\ \A i \in 1 .. n - k : k + 1 + i - 1 = k + i
    BY <1>1
  <2> QED BY <2>2, <2>3
<1> HIDE DEF a, b
<1>5. /\ a \o b \in Seq(S) /\ Len(a \o b) = Len(a) + Len(b)
      /\ \A i \in 1 .. Len(a) + Len(b) : (a \o b)[i] = IF i <= Len(a) THEN a[i] ELSE b[i - Len(a)]
  BY <1>2, ConcatProperties
<1>6. Len(a) + Len(b) = n
  BY <1>1, <1>3, <1>4
<1>7. ASSUME NEW i \in 1 .. n PROVE (a \o b)[i] = s[i]
  <2>1. CASE i <= k
    <3>1. i \in 1 .. k
      BY <2>1, <1>1
    <3> QED BY <1>3, <1>5, <1>6, <2>1, <3>1
  <2>2. CASE ~(i <= k)
    <3>1. i - k \in 1 .. n - k /\ k + (i - k) = i
      BY <2>2, <1>1
    <3> QED BY <1>3, <1>4, <1>5, <1>6, <2>2, <3>1
  <2> QED BY <2>1, <2>2
<1>8. a \o b = s
  BY <1>1, <1>5, <1>6, <1>7, SeqEqual
<1> QED BY <1>8 DEF a, b

\* The steps of the pool, in terms of what is pending and held
LEMMA PoolMeaning ==
    /\ \A e \in Jobs, r \in Slaves :
          Pool!Assign(e, r) =>
             /\ e \in Pending /\ HeldByAll[r] = NoEntry
             /\ Pending' = Pending \ {e} /\ HeldByAll' = [HeldByAll EXCEPT ![r] = e]
    /\ \A r \in Slaves :
          Pool!Complete(r) =>
             Pending' = Pending /\ HeldByAll' = [HeldByAll EXCEPT ![r] = NoEntry]
    /\ Pool!Publish \/ UNCHANGED Pool!vars => Pending' = Pending /\ HeldByAll' = HeldByAll
<1>1. ASSUME NEW e \in Jobs, NEW r \in Slaves, Pool!Assign(e, r)
      PROVE  /\ e \in Pending /\ HeldByAll[r] = NoEntry
             /\ Pending' = Pending \ {e} /\ HeldByAll' = [HeldByAll EXCEPT ![r] = e]
  BY <1>1 DEF Pool!Assign, Pending, HeldByAll
<1>2. ASSUME NEW r \in Slaves, Pool!Complete(r)
      PROVE  Pending' = Pending /\ HeldByAll' = [HeldByAll EXCEPT ![r] = NoEntry]
  BY <1>2 DEF Pool!Complete, Pending, HeldByAll
<1>3. ASSUME Pool!Publish \/ UNCHANGED Pool!vars
      PROVE  Pending' = Pending /\ HeldByAll' = HeldByAll
  BY <1>3 DEF Pool!Publish, Pool!vars, Pending, HeldByAll
<1> QED BY <1>1, <1>2, <1>3

LEMMA HeldType == ASSUME FarmInv PROVE HeldByAll \in [Slaves -> Jobs \cup {NoEntry}]
<1>1. ASSUME NEW r \in Slaves PROVE HeldBy(r) \in Jobs \cup {NoEntry}
  <2>1. job[r] \in Jobs \cup {NoEntry} /\ Exchange(r) /\ JobOK
    BY DEF FarmInv, TypeInv, TypeOK
  <2>2. CASE down[r] = <<>>
    BY <2>1, <2>2, HeldFacts, TaskFacts
  <2>3. CASE down[r] # <<>>
    <3>1. PICK m \in Message : down[r] = <<m>>
      BY <2>1, <2>3 DEF Exchange
    <3>2. job[r] = NoEntry
      BY <2>1, <2>3 DEF Exchange, Busy
    <3>3. m = Die \/ \E e \in Jobs : m = Work(e)
      BY DEF Message
    <3> QED BY <3>1, <3>2, <3>3, HeldFacts, TaskFacts
  <2> QED BY <2>2, <2>3
<1> QED BY <1>1 DEF HeldByAll

\* A step that changes nothing but what slave r has printed, or what it is about to
LEMMA TextOfOne ==
    ASSUME TextInv, NEW r \in Slaves, Pending' = Pending, HeldByAll' = HeldByAll,
           \A s \in Slaves \ {r} : TextOf(s)' /\ DocsOf(s)' = DocsOf(s),
           TextOf(r)', NoneDead' => NoneDead,
           DocsOf(r)' = DocsOf(r) \/ (DocsOf(r)' = {} /\ spc'[r] = "dead")
    PROVE  TextInv'
<1>1. \A s \in Slaves : TextOf(s)'
  OBVIOUS
<1>2. CASE DocsOf(r)' = DocsOf(r)
  <2>1. \A s \in Slaves : DocsOf(s)' = DocsOf(s)
    BY <1>2
  <2>2. DocsByAll' = DocsByAll
    BY <2>1 DEF DocsByAll
  <2> QED BY <1>1, <2>2 DEF TextInv
<1>3. CASE DocsOf(r)' = {} /\ spc'[r] = "dead"
  <2>1. \A s \in Slaves \ {r} : DocsByAll'[s] = DocsByAll[s]
    BY DEF DocsByAll
  <2>2. DocsByAll'[r] = {}
    BY <1>3 DEF DocsByAll
  <2>3. Apart(Pending, HeldByAll, DocsByAll)
    BY DEF TextInv
  <2>4. Apart(Pending, HeldByAll, DocsByAll')
    BY <2>1, <2>2, <2>3, PlacesDie
  <2>5. ~NoneDead'
    BY <1>3 DEF NoneDead
  <2> QED BY <1>1, <2>4, <2>5 DEF TextInv
<1> QED BY <1>2, <1>3

\* Rows written in three goes
LEMMA JoinRows ==
    \A s, t, u \in Seq(Row) : (s \o t) \o u = s \o (t \o u)
BY ConcatAssociative

\* A slave prints the rows of its document whole, or dies with what it has printed
LEMMA TextSlave ==
    ASSUME FarmInv, TypeInv', RowsOfThisRun, TextInv, NEW r \in Slaves, Slave(r)
    PROVE  TextInv'
<1>0. /\ buf \in [Slaves -> Seq(Piece)] /\ disk \in [Slaves -> Seq(Piece)]
      /\ spc \in [Slaves -> {"start", "recv", "work", "reply", "sending",
                             "closing", "closed", "dead"}]
      /\ job \in [Slaves -> Jobs \cup {NoEntry}]
      /\ Jobs \subseteq Entries /\ NoEntry \notin Jobs /\ JobOK
  BY JobsAreEntries DEF FarmInv, TypeInv, TypeOK
<1>1. /\ \A s \in Slaves : TextOf(s)
      /\ Apart(Pending, HeldByAll, DocsByAll)
      /\ NoneDead => Kept(Pending, HeldByAll, DocsByAll)
  BY DEF TextInv
<1>2. \A s \in Slaves \ {r} : disk'[s] = disk[s] /\ buf'[s] = buf[s] /\ spc'[s] = spc[s]
  <2>1. CASE OpenResultFile(r) \/ ReceiveTask(r)
    BY <1>0, <2>1 DEF OpenResultFile, ReceiveTask
  <2>2. CASE Process(r)
    <3>1. PICK out : out = buf[r] \o Rows(job[r])
      OBVIOUS
    <3>2. PICK k \in 0 .. Len(out) :
            /\ disk' = [disk EXCEPT ![r] = @ \o SubSeq(out, 1, k)]
            /\ buf' = [buf EXCEPT ![r] = SubSeq(out, k + 1, Len(out))]
      BY <2>2, <3>1 DEF Process
    <3> QED BY <1>0, <2>2, <3>2 DEF Process
  <2>3. CASE Crash(r) \/ RequestTask(r) \/ SlaveSendReturns(r) \/ CloseResultFile(r)
    BY <1>0, <2>3 DEF Crash, RequestTask, SlaveSendReturns, CloseResultFile
  <2> QED BY <2>1, <2>2, <2>3 DEF Slave
<1>3. \A s \in Slaves \ {r} : TextOf(s)' /\ DocsOf(s)' = DocsOf(s)
  BY <1>1, <1>2 DEF TextOf, DocsOf, Living, Printed
<1>4. spc[r] # "dead" /\ (NoneDead' => NoneDead)
  <2>1. spc[r] # "dead"
    BY DEF Slave, OpenResultFile, ReceiveTask, Process, Crash, RequestTask, SlaveSendReturns,
       CloseResultFile
  <2> QED BY <1>2, <2>1 DEF NoneDead
<1>5. ~Process(r) => Pending' = Pending /\ HeldByAll' = HeldByAll
  BY PoolSlave, PoolMeaning
<1>6. CASE OpenResultFile(r)
  <2>1. spc[r] = "start" /\ buf[r] = <<>> /\ buf' = buf /\ ~Process(r)
    BY <1>1, <1>6 DEF OpenResultFile, TextOf, Process
  <2>2. CASE spc'[r] = "dead"
    <3>1. TextOf(r)' /\ DocsOf(r)' = {}
      BY <2>2 DEF TextOf, DocsOf, Living
    <3> QED BY <1>3, <1>4, <1>5, <2>1, <2>2, <3>1, TextOfOne
  <2>3. CASE spc'[r] # "dead"
    <3>1. spc'[r] = "recv" /\ disk'[r] = <<>> /\ buf'[r] = <<>>
      BY <1>0, <1>6, <2>1, <2>3 DEF OpenResultFile
    <3>2. disk'[r] \o buf'[r] = <<>>
      BY <3>1
    <3>3. TextOf(r)'
      BY <3>1, <3>2, WholeNone DEF TextOf, Printed
    <3>4. DocsOf(r)' = {} /\ DocsOf(r) = {}
      BY <2>1, <3>1, <3>2, WholeNone DEF DocsOf, Living, Printed
    <3> QED BY <1>3, <1>4, <1>5, <2>1, <3>3, <3>4, TextOfOne
  <2> QED BY <2>2, <2>3
<1>7. CASE ReceiveTask(r) \/ RequestTask(r) \/ SlaveSendReturns(r)
  <2>1. /\ spc[r] \in {"recv", "reply", "sending"} /\ disk' = disk /\ buf' = buf /\ ~Process(r)
        /\ spc'[r] \in {"work", "closing", "sending", "recv"}
    BY <1>0, <1>7 DEF ReceiveTask, RequestTask, SlaveSendReturns, Process
  <2>2. TextOf(r)' /\ DocsOf(r)' = DocsOf(r)
    BY <1>1, <2>1 DEF TextOf, DocsOf, Living, Printed
  <2> QED BY <1>3, <1>4, <1>5, <2>1, <2>2, TextOfOne
<1>8. CASE Process(r)
  <2>0. spc[r] = "work" /\ spc'[r] = "reply" /\ job[r] \in Jobs /\ job[r] \in Entries
    BY <1>0, <1>8 DEF Process, JobOK
  <2>1. PICK e \in Jobs : e = job[r]
    BY <2>0
  <2>2. PICK out : out = buf[r] \o Rows(e)
    OBVIOUS
  <2>3. /\ buf[r] \in Seq(Row) /\ disk[r] \in Seq(Row) /\ Rows(e) \in Seq(Row)
        /\ out \in Seq(Row)
    <3>1. buf[r] \in Seq(Row) /\ disk[r] \in Seq(Row) /\ Rows(e) \in Seq(Row)
      BY <2>0, <2>1, RowsAreNew DEF RowsOfThisRun
    <3> QED BY <2>2, <3>1, ConcatProperties
  <2>4. PICK k \in 0 .. Len(out) :
            /\ disk' = [disk EXCEPT ![r] = @ \o SubSeq(out, 1, k)]
            /\ buf' = [buf EXCEPT ![r] = SubSeq(out, k + 1, Len(out))]
    BY <1>8, <2>1, <2>2 DEF Process
  <2>5. disk'[r] = disk[r] \o SubSeq(out, 1, k) /\ buf'[r] = SubSeq(out, k + 1, Len(out))
    BY <1>0, <2>4
  <2>6. /\ SubSeq(out, 1, k) \in Seq(Row) /\ SubSeq(out, k + 1, Len(out)) \in Seq(Row)
        /\ SubSeq(out, 1, k) \o SubSeq(out, k + 1, Len(out)) = out
    BY <2>3, CutType, CutJoin
  <2>7. disk'[r] \o buf'[r] = disk[r] \o out
    <3>1. (disk[r] \o SubSeq(out, 1, k)) \o SubSeq(out, k + 1, Len(out))
             = disk[r] \o (SubSeq(out, 1, k) \o SubSeq(out, k + 1, Len(out)))
      BY <2>3, <2>6, JoinRows
    <3> QED BY <2>5, <2>6, <3>1
  <2>8. disk[r] \o out = (disk[r] \o buf[r]) \o Rows(e)
    BY <2>2, <2>3, JoinRows
  <2>9. Whole(Printed(r)) /\ DocsOf(r) = Docs(Printed(r))
    BY <1>1, <2>0 DEF TextOf, DocsOf, Living
  <2>10. HeldBy(r) = e /\ Pending' = Pending /\ HeldByAll' = [HeldByAll EXCEPT ![r] = NoEntry]
    BY <1>8, <2>1, PoolSlave, PoolMeaning
  <2>11. HeldByAll[r] = e /\ e # NoEntry
    BY <1>0, <2>10 DEF HeldByAll
  <2>12. e \notin DocsOf(r)
    BY <1>1, <2>11 DEF Apart, DocsByAll
  <2>13. Whole(Rows(e)) /\ Docs(Rows(e)) = IF HasRows(e) THEN {e} ELSE {}
    BY <2>0, <2>1, WholeRows
  <2>14. /\ Whole(Printed(r) \o Rows(e))
         /\ Docs(Printed(r) \o Rows(e)) = DocsOf(r) \cup Docs(Rows(e))
    <3>1. Docs(Printed(r)) \cap Docs(Rows(e)) = {}
      BY <2>9, <2>12, <2>13
    <3> QED BY <2>9, <2>13, <3>1, WholeConcat
  <2>15. Printed(r)' = Printed(r) \o Rows(e)
    BY <2>7, <2>8 DEF Printed
  <2>16. TextOf(r)' /\ DocsOf(r)' = DocsOf(r) \cup Docs(Rows(e))
    BY <2>0, <2>14, <2>15 DEF TextOf, DocsOf, Living
  <2>17. /\ \A s \in Slaves \ {r} : DocsByAll'[s] = DocsByAll[s]
         /\ DocsByAll'[r] = DocsOf(r) \cup Docs(Rows(e)) /\ DocsByAll[r] = DocsOf(r)
    BY <1>3, <2>16 DEF DocsByAll
  <2>18. /\ DocsByAll'[r] \subseteq DocsByAll[r] \cup {e} /\ DocsByAll[r] \subseteq DocsByAll'[r]
         /\ HasRows(e) => e \in DocsByAll'[r]
    BY <2>13, <2>17
  <2>19. /\ Apart(Pending, HeldByAll', DocsByAll')
         /\ Kept(Pending, HeldByAll, DocsByAll) => Kept(Pending, HeldByAll', DocsByAll')
    BY <1>1, <2>10, <2>11, <2>17, <2>18, HeldType, PlacesComplete
  <2> QED BY <1>1, <1>3, <1>4, <2>10, <2>16, <2>19 DEF TextInv
<1>9. CASE Crash(r)
  <2>1. spc'[r] = "dead" /\ spc[r] = "work"
    BY <1>0, <1>9 DEF Crash
  <2>2. ~Process(r)
    BY <1>0, <2>1 DEF Process
  <2>3. TextOf(r)' /\ DocsOf(r)' = {}
    BY <2>1 DEF TextOf, DocsOf, Living
  <2> QED BY <1>3, <1>4, <1>5, <2>1, <2>2, <2>3, TextOfOne
<1>10. CASE CloseResultFile(r)
  <2>1. /\ spc[r] = "closing" /\ spc'[r] = "closed" /\ ~Process(r)
        /\ disk'[r] = disk[r] \o buf[r] /\ buf'[r] = <<>>
    BY <1>0, <1>10 DEF CloseResultFile, Process
  <2>2. Printed(r) \in Seq(Row)
    BY <1>1, <2>1 DEF TextOf, Living, Whole
  <2>3. Printed(r)' = Printed(r)
    BY <2>1, <2>2, ConcatEmptySeq DEF Printed
  <2>4. TextOf(r)' /\ DocsOf(r)' = DocsOf(r)
    BY <1>1, <2>1, <2>3 DEF TextOf, DocsOf, Living
  <2> QED BY <1>3, <1>4, <1>5, <2>1, <2>4, TextOfOne
<1> QED BY <1>6, <1>7, <1>8, <1>9, <1>10 DEF Slave

\* The master hands documents out
LEMMA TextMaster ==
    ASSUME FarmInv, CurTaken, TextInv, Master
    PROVE  TextInv'
<1>1. spc' = spc /\ buf' = buf /\ disk' = disk
  BY DEF Master, Parse, ParseSkip, ParseFirstTask, ParseWait, ParseAnswer, KillSlave,
     EndOfWalk, MasterSendReturns, Sleep, OpenMerged, MergeFile, EndOfMerge, slaveVars
<1>2. /\ \A s \in Slaves : TextOf(s)' /\ DocsOf(s)' = DocsOf(s)
      /\ NoneDead' => NoneDead
  BY <1>1 DEF TextInv, TextOf, DocsOf, Living, Printed, NoneDead
<1>3. DocsByAll' = DocsByAll
  BY <1>2 DEF DocsByAll
<1>4. /\ Apart(Pending, HeldByAll, DocsByAll)
      /\ NoneDead => Kept(Pending, HeldByAll, DocsByAll)
  BY DEF TextInv
<1>5. CASE \E e \in Jobs, r \in Slaves : Pool!Assign(e, r)
  <2>1. PICK e \in Jobs, r \in Slaves : Pool!Assign(e, r)
    BY <1>5
  <2>2. /\ e \in Pending /\ HeldByAll[r] = NoEntry
        /\ Pending' = Pending \ {e} /\ HeldByAll' = [HeldByAll EXCEPT ![r] = e]
    BY <2>1, PoolMeaning
  <2>3. /\ Apart(Pending', HeldByAll', DocsByAll)
        /\ Kept(Pending, HeldByAll, DocsByAll) => Kept(Pending', HeldByAll', DocsByAll)
    BY <1>4, <2>2, HeldType, PlacesAssign
  <2> QED BY <1>2, <1>3, <1>4, <2>3 DEF TextInv
<1>6. CASE Pool!Publish \/ UNCHANGED Pool!vars
  <2>1. Pending' = Pending /\ HeldByAll' = HeldByAll
    BY <1>6, PoolMeaning
  <2> QED BY <1>2, <1>3, <1>4, <2>1 DEF TextInv
<1> QED BY <1>5, <1>6, PoolMaster

LEMMA TextStep ==
    FarmInv /\ CurTaken /\ RowsOfThisRun /\ TextInv /\ [Next]_vars => TextInv'
<1> SUFFICES ASSUME FarmInv, CurTaken, RowsOfThisRun, TextInv, [Next]_vars PROVE TextInv'
  OBVIOUS
<1>1. TypeInv'
  BY TypeStep DEF FarmInv
<1>2. CASE Abort \/ UNCHANGED vars
  <2>1. /\ down' = down /\ job' = job /\ Pending' = Pending
        /\ spc' = spc /\ buf' = buf /\ disk' = disk
    BY <1>2 DEF Abort, vars, masterVars, slaveVars, Pending
  <2>2. /\ \A s \in Slaves : TextOf(s)' /\ DocsOf(s)' = DocsOf(s) /\ HeldBy(s)' = HeldBy(s)
        /\ NoneDead' => NoneDead
    BY <2>1, HeldFacts DEF TextInv, TextOf, DocsOf, Living, Printed, NoneDead
  <2>3. DocsByAll' = DocsByAll /\ HeldByAll' = HeldByAll
    BY <2>2 DEF DocsByAll, HeldByAll
  <2> QED BY <2>1, <2>2, <2>3 DEF TextInv
<1> QED BY <1>1, <1>2, TextSlave, TextMaster DEF Next, Terminated

LEMMA InitText == Init => TextInv
<1> SUFFICES ASSUME Init PROVE TextInv
  OBVIOUS
<1>1. Pending = Jobs
  BY JobsAreEntries, FarmAssumption DEF Init, Pending
<1>2. \A r \in Slaves : TextOf(r) /\ DocsOf(r) = {} /\ HeldBy(r) = NoEntry
  <2>1. ASSUME NEW r \in Slaves PROVE TextOf(r) /\ DocsOf(r) = {}
    BY DEF Init, TextOf, DocsOf, Living
  <2>2. ASSUME NEW r \in Slaves PROVE HeldBy(r) = NoEntry
    <3>1. down[r] = <<>> /\ job[r] = NoEntry
      BY DEF Init
    <3> QED BY <3>1, HeldFacts, TaskFacts
  <2> QED BY <2>1, <2>2
<1>3. \A r \in Slaves : DocsByAll[r] = {} /\ HeldByAll[r] = NoEntry
  BY <1>2 DEF DocsByAll, HeldByAll
<1>4. Apart(Pending, HeldByAll, DocsByAll)
  BY <1>3 DEF Apart
<1>5. Kept(Pending, HeldByAll, DocsByAll)
  BY <1>1 DEF Kept
<1> QED BY <1>2, <1>4, <1>5 DEF TextInv

-----------------------------------------------------------------------------
(* The merge, when every file is closed. *)

\* Everything that holds of the output while it is written in time
TextAll == FarmInv /\ CurTaken /\ RowsOfThisRun /\ TextInv

LEMMA InitTextAll == Init => TextAll
<1> SUFFICES ASSUME Init PROVE TextAll
  OBVIOUS
<1>1. CurTaken
  BY FarmAssumption DEF Init, CurTaken
<1>2. RowsOfThisRun
  BY DEF Init, RowsOfThisRun
<1> QED BY InitFarm, InitText, <1>1, <1>2 DEF TextAll

LEMMA TextAllStep == TextAll /\ [Next]_vars => TextAll'
BY FarmStep, CurStep, RowsStep, TextStep DEF TextAll

\* merge_files copies each closed file as a whole
LEMMA MergeStep ==
    TextAll /\ MergeInv /\ ClosedInTime' /\ [Next]_vars => MergeInv'
<1> SUFFICES ASSUME TextAll, MergeInv, ClosedInTime', [Next]_vars PROVE MergeInv'
  OBVIOUS
<1>0. FarmInv /\ TextInv
  BY DEF TextAll
<1>1. CASE Parse \/ (\E r \in Slaves : ParseAnswer(r) \/ KillSlave(r))
              \/ EndOfWalk \/ MasterSendReturns \/ Sleep
  <2>1. mpc' \notin {"merge", "done"}
    BY <1>1 DEF Parse, ParseSkip, ParseFirstTask, ParseWait, ParseAnswer, KillSlave,
       EndOfWalk, MasterSendReturns, Sleep, Send
  <2> QED BY <2>1 DEF MergeInv
<1>2. CASE OpenMerged
  <2>1. CASE mpc' = "dead"
    BY <2>1 DEF MergeInv
  <2>2. CASE mpc' # "dead"
    <3>1. mpc' = "merge" /\ merged' = <<>> /\ next' = 1
      BY <1>2, <2>2 DEF OpenMerged
    <3>2. \A r \in Slaves : Closed(r)'
      BY <3>1 DEF ClosedInTime
    <3>3. \A r \in Slaves : ~(r < next')
      BY <3>1, FarmAssumption DEF Slaves
    <3> QED BY <3>1, <3>2, <3>3, WholeNone DEF MergeInv
  <2> QED BY <2>1, <2>2
<1>3. CASE MergeFile
  <2>1. /\ mpc = "merge" /\ mpc' = mpc /\ next < NP /\ next' = next + 1
        /\ merged' = merged \o disk[next]
        /\ spc' = spc /\ buf' = buf /\ disk' = disk
    BY <1>3 DEF MergeFile, slaveVars
  <2>2. PICK n \in Slaves : n = next
    BY <1>0, <2>1, FarmAssumption DEF FarmInv, TypeInv, TypeOK, Slaves
  <2>3. \A r \in Slaves : Closed(r) /\ Closed(r)' /\ DocsOf(r)' = DocsOf(r)
    BY <2>1 DEF MergeInv, Closed, DocsOf, Living, Printed
  <2>4. Whole(disk[n]) /\ Docs(disk[n]) = DocsOf(n)
    <3>1. buf[n] = <<>> /\ Living(n) /\ Whole(Printed(n))
      BY <1>0, <2>3 DEF TextInv, TextOf, Closed, Living
    <3>2. disk[n] \in Seq(Piece)
      BY <1>0 DEF FarmInv, TypeInv, TypeOK
    <3>3. Printed(n) = disk[n]
      BY <3>1, <3>2, ConcatEmptySeq DEF Printed
    <3> QED BY <3>1, <3>3 DEF DocsOf
  <2>5. Whole(merged) /\ \A e : e \in Docs(merged) <=> \E r \in Slaves : r < n /\ e \in DocsOf(r)
    BY <2>1, <2>2 DEF MergeInv
  <2>6. Docs(merged) \cap Docs(disk[n]) = {}
    <3> SUFFICES ASSUME NEW e \in Docs(merged), e \in DocsOf(n) PROVE FALSE
      BY <2>4
    <3>1. PICK r \in Slaves : r < n /\ e \in DocsOf(r)
      BY <2>5
    <3>2. r # n
      BY <3>1 DEF Slaves
    <3>3. DocsOf(r) \cap DocsOf(n) = {}
      BY <1>0, <3>2 DEF TextInv, Apart, DocsByAll
    <3> QED BY <3>1, <3>3
  <2>7. Whole(merged') /\ Docs(merged') = Docs(merged) \cup DocsOf(n)
    BY <2>1, <2>2, <2>4, <2>5, <2>6, WholeConcat
  <2>8. \A r \in Slaves : (r < next') <=> (r < n \/ r = n)
    BY <2>1, <2>2 DEF Slaves
  <2>9. \A e : e \in Docs(merged') <=> \E r \in Slaves : r < next' /\ e \in DocsOf(r)'
    BY <2>3, <2>5, <2>7, <2>8
  <2>10. Docs(merged') = Docs(merged)'
    OBVIOUS
  <2> QED BY <2>1, <2>3, <2>7, <2>9 DEF MergeInv
<1>4. CASE EndOfMerge
  <2>1. /\ mpc = "merge" /\ mpc' = "done" /\ next = NP /\ merged' = merged
        /\ spc' = spc /\ buf' = buf /\ disk' = disk
    BY <1>4 DEF EndOfMerge, slaveVars
  <2>2. \A r \in Slaves : Closed(r)' /\ DocsOf(r)' = DocsOf(r) /\ r < next
    BY <2>1, FarmAssumption DEF MergeInv, Closed, DocsOf, Living, Printed, Slaves
  <2>3. Whole(merged) /\ \A r \in Slaves : DocsOf(r) \subseteq Docs(merged)
    BY <2>1, <2>2 DEF MergeInv
  <2>4. Whole(merged)' /\ \A r \in Slaves : DocsOf(r)' \subseteq Docs(merged)'
    BY <2>1, <2>2, <2>3
  <2> QED BY <2>1, <2>2, <2>4 DEF MergeInv
<1>5. CASE \E r \in Slaves : Slave(r)
  <2>1. PICK r \in Slaves : Slave(r)
    BY <1>5
  <2>2. ~Closed(r) /\ mpc' = mpc
    BY <2>1 DEF Closed, Slave, OpenResultFile, ReceiveTask, Process, Crash, RequestTask,
       SlaveSendReturns, CloseResultFile, masterVars
  <2> QED BY <2>2 DEF MergeInv
<1>6. CASE Abort \/ UNCHANGED vars
  BY <1>6 DEF Abort, vars, masterVars, slaveVars, MergeInv, Closed, DocsOf, Living, Printed
<1> QED BY <1>1, <1>2, <1>3, <1>4, <1>5, <1>6 DEF Next, Terminated, Master

\* If every slave has closed its file when the merge begins the output is complete:
\* merge_files finds all that the slaves have printed, which is every document,
\* whole and once
LEMMA MergeOutput == TextAll /\ MergeInv => MergedComplete
<1> SUFFICES ASSUME TextAll, MergeInv, mpc = "done", NEW e \in Jobs, HasRows(e)
             PROVE  InOutput(e)
  BY DEF MergedComplete
<1>1. toVisit = {} /\ cur = NoEntry /\ \A r \in Slaves : HeldBy(r) = NoEntry
  BY NothingHeld DEF TextAll
<1>2. NoneDead
  BY AllStopped DEF TextAll, NoneDead
<1>3. Kept(Pending, HeldByAll, DocsByAll)
  BY <1>2 DEF TextAll, TextInv
<1>4. e \notin Pending /\ \A r \in Slaves : HeldByAll[r] # e
  BY <1>1, JobsAreEntries DEF Pending, HeldByAll
<1>5. PICK r \in Slaves : e \in DocsOf(r)
  BY <1>3, <1>4 DEF Kept, DocsByAll
<1>6. Whole(merged) /\ e \in Docs(merged)
  BY <1>5 DEF MergeInv
<1> QED BY <1>6, WholeOutput

\* In every run where each merge step finds the result files closed, as the sleep
\* of main is meant to ensure, the finished output has the rows of every document,
\* whole and once: none is lost in a buffer, torn, printed twice or never handed out
THEOREM MergeInTime == Spec => MergedInTime
<1>1. Init => TextAll /\ MergeInv
  BY InitTextAll DEF Init, MergeInv
<1>2. Spec => []TextAll
  BY InitTextAll, TextAllStep, PTL DEF Spec
<1>3. Spec /\ []ClosedInTime => []MergeInv
  BY <1>1, <1>2, MergeStep, PTL DEF Spec
<1>4. Spec /\ []ClosedInTime => []MergedComplete
  BY <1>2, <1>3, MergeOutput, PTL
<1> QED BY <1>4, PTL DEF MergedInTime, ClosedInTime

-----------------------------------------------------------------------------
(* The merge, whether or not the files are closed. *)

\* The sequence is the beginning of rows: no piece comes twice, and none that goes
\* on with a document stands behind anything but the piece it goes on with
Begun(s) ==
    /\ s \in Seq(Row)
    /\ \A i \in 1 .. Len(s) :
          s[i][2] = 2 => i - 1 \in 1 .. Len(s) /\ s[i - 1] = <<s[i][1], 1>>
    /\ \A i, j \in 1 .. Len(s) : s[i] = s[j] => i = j

\* What the output is whenever merge_files reads the result files
OutputBegun == mpc \in {"merge", "done"} => Begun(merged)

OutputInv ==
    mpc \in {"merge", "done"} =>
        /\ Begun(merged)
        /\ \A e \in Docs(merged) : \E r \in Slaves : r < next /\ e \in DocsOf(r)

\* Beginnings of rows of different documents may stand behind each other
LEMMA BegunConcat ==
    ASSUME NEW s, NEW t, Begun(s), Begun(t), Docs(s) \cap Docs(t) = {}
    PROVE  Begun(s \o t) /\ Docs(s \o t) \subseteq Docs(s) \cup Docs(t)
<1> DEFINE u == s \o t
<1>1. s \in Seq(Row) /\ t \in Seq(Row)
  BY DEF Begun
<1>2. PICK m \in Nat, n \in Nat : m = Len(s) /\ n = Len(t)
  BY <1>1
<1>3. /\ u \in Seq(Row) /\ Len(u) = m + n
      /\ \A i \in 1 .. m + n : u[i] = IF i <= m THEN s[i] ELSE t[i - m]
  BY <1>1, <1>2, ConcatProperties
<1> HIDE DEF u
<1>4. /\ \A i \in 1 .. m : s[i][2] = 2 => i - 1 \in 1 .. m /\ s[i - 1] = <<s[i][1], 1>>
      /\ \A i, j \in 1 .. m : s[i] = s[j] => i = j
      /\ \A i \in 1 .. n : t[i][2] = 2 => i - 1 \in 1 .. n /\ t[i - 1] = <<t[i][1], 1>>
      /\ \A i, j \in 1 .. n : t[i] = t[j] => i = j
  BY <1>2 DEF Begun
<1>5. \A i \in 1 .. m, k \in 1 .. n : s[i] # t[k]
  <2> SUFFICES ASSUME NEW i \in 1 .. m, NEW k \in 1 .. n, s[i] = t[k] PROVE FALSE
    OBVIOUS
  <2>1. s[i][1] \in Docs(s) /\ t[k][1] \in Docs(t)
    BY <1>2 DEF Docs
  <2> QED BY <2>1
<1>6. \A i \in 1 .. m + n : \/ i \in 1 .. m /\ i <= m /\ u[i] = s[i]
                            \/ i - m \in 1 .. n /\ ~(i <= m) /\ u[i] = t[i - m]
  BY <1>3
<1>7. ASSUME NEW i \in 1 .. m + n, u[i][2] = 2
      PROVE  i - 1 \in 1 .. m + n /\ u[i - 1] = <<u[i][1], 1>>
  <2>1. CASE i \in 1 .. m /\ i <= m /\ u[i] = s[i]
    <3>1. i - 1 \in 1 .. m /\ s[i - 1] = <<s[i][1], 1>>
      BY <1>4, <1>7, <2>1
    <3>2. i - 1 \in 1 .. m + n /\ u[i - 1] = s[i - 1]
      BY <1>3, <3>1
    <3> QED BY <2>1, <3>1, <3>2
  <2>2. CASE i - m \in 1 .. n /\ ~(i <= m) /\ u[i] = t[i - m]
    <3>1. PICK k \in 1 .. n : k = i - m
      BY <2>2
    <3>2. k - 1 \in 1 .. n /\ t[k - 1] = <<t[k][1], 1>>
      BY <1>4, <1>7, <2>2, <3>1
    <3>3. i - 1 \in 1 .. m + n /\ ~(i - 1 <= m) /\ (i - 1) - m = k - 1
      BY <3>1, <3>2
    <3>4. u[i - 1] = t[k - 1]
      BY <1>3, <3>3
    <3> QED BY <2>2, <3>1, <3>2, <3>3, <3>4
  <2> QED BY <1>6, <2>1, <2>2
<1>8. ASSUME NEW i \in 1 .. m + n, NEW j \in 1 .. m + n, u[i] = u[j] PROVE i = j
  <2>1. CASE i <= m /\ j <= m
    BY <1>4, <1>6, <1>8, <2>1
  <2>2. CASE (i <= m /\ ~(j <= m)) \/ (~(i <= m) /\ j <= m)
    BY <1>5, <1>6, <1>8, <2>2
  <2>3. CASE ~(i <= m) /\ ~(j <= m)
    <3>1. i - m \in 1 .. n /\ j - m \in 1 .. n /\ t[i - m] = t[j - m]
      BY <1>6, <1>8, <2>3
    <3>2. i - m = j - m
      BY <1>4, <3>1
    <3> QED BY <3>2
  <2> QED BY <2>1, <2>2, <2>3
<1>9. Begun(u)
  BY <1>3, <1>7, <1>8 DEF Begun
<1>10. Docs(u) \subseteq Docs(s) \cup Docs(t)
  BY <1>2, <1>3, <1>6 DEF Docs
<1> QED BY <1>9, <1>10 DEF u

\* The file of a slave is the beginning of what it has printed
LEMMA BegunPrefix ==
    ASSUME NEW s \in Seq(Row), NEW t \in Seq(Row), Whole(s \o t)
    PROVE  Begun(s) /\ Docs(s) \subseteq Docs(s \o t)
<1> DEFINE u == s \o t
<1>1. PICK m \in Nat, n \in Nat : m = Len(s) /\ n = Len(t)
  OBVIOUS
<1>2. /\ u \in Seq(Row) /\ Len(u) = m + n
      /\ \A i \in 1 .. m + n : u[i] = IF i <= m THEN s[i] ELSE t[i - m]
  BY <1>1, ConcatProperties
<1>3. \A i \in 1 .. m : i \in 1 .. m + n /\ u[i] = s[i]
  BY <1>2
<1>4. /\ \A i \in 1 .. m + n :
            u[i][2] = 2 => i - 1 \in 1 .. m + n /\ u[i - 1] = <<u[i][1], 1>>
      /\ \A i, j \in 1 .. m + n : u[i] = u[j] => i = j
  <2> HIDE DEF u
  <2>1. Whole(u)
    BY DEF u
  <2> QED BY <1>2, <2>1 DEF Whole
<1> HIDE DEF u
<1>5. ASSUME NEW i \in 1 .. m, s[i][2] = 2
      PROVE  i - 1 \in 1 .. m /\ s[i - 1] = <<s[i][1], 1>>
  <2>1. i - 1 \in 1 .. m + n /\ u[i - 1] = <<s[i][1], 1>>
    BY <1>3, <1>4, <1>5
  <2>2. i - 1 \in 1 .. m
    BY <2>1
  <2> QED BY <1>3, <2>1, <2>2
<1>6. \A i, j \in 1 .. m : s[i] = s[j] => i = j
  BY <1>3, <1>4
<1>7. Begun(s)
  BY <1>1, <1>5, <1>6 DEF Begun
<1>8. Docs(s) \subseteq Docs(u)
  BY <1>1, <1>2, <1>3 DEF Docs
<1> QED BY <1>7, <1>8 DEF u

\* merge_files copies of each file what is there
LEMMA OutputStep == TextAll /\ TextAll' /\ OutputInv /\ [Next]_vars => OutputInv'
<1> SUFFICES ASSUME TextAll, TextAll', OutputInv, [Next]_vars, mpc' \in {"merge", "done"}
             PROVE  /\ Begun(merged')
                    /\ \A e \in Docs(merged') : \E r \in Slaves : r < next' /\ e \in DocsOf(r)'
  BY DEF OutputInv
<1>0. FarmInv /\ TextInv /\ RowsOfThisRun /\ next \in 1 .. NP /\ NP \in Nat
  BY FarmAssumption DEF TextAll, FarmInv, TypeInv, TypeOK
<1>1. CASE Parse \/ (\E r \in Slaves : ParseAnswer(r) \/ KillSlave(r))
              \/ EndOfWalk \/ MasterSendReturns \/ Sleep
  BY <1>1 DEF Parse, ParseSkip, ParseFirstTask, ParseWait, ParseAnswer, KillSlave,
     EndOfWalk, MasterSendReturns, Sleep, Send
<1>2. CASE OpenMerged
  <2>1. merged' = <<>>
    BY <1>2 DEF OpenMerged
  <2>2. Begun(<<>>) /\ Docs(<<>>) = {}
    BY WholeNone DEF Begun
  <2> QED BY <2>1, <2>2
<1>3. CASE MergeFile
  <2>1. /\ mpc = "merge" /\ next < NP /\ next' = next + 1
        /\ merged' = merged \o disk[next]
        /\ spc' = spc /\ buf' = buf /\ disk' = disk
    BY <1>3 DEF MergeFile, slaveVars
  <2>2. PICK n \in Slaves : n = next
    BY <1>0, <2>1 DEF Slaves
  <2>3. \A r \in Slaves : DocsOf(r)' = DocsOf(r)
    BY <2>1 DEF DocsOf, Living, Printed
  <2>4. Begun(disk[n]) /\ Docs(disk[n]) \subseteq DocsOf(n)
    <3>1. Living(n) /\ Whole(Printed(n))
      BY <1>0, <2>1, AllStopped DEF TextInv, TextOf, Living
    <3>2. disk[n] \in Seq(Row) /\ buf[n] \in Seq(Row)
      BY <1>0, <3>1 DEF RowsOfThisRun, Living
    <3> QED BY <3>1, <3>2, BegunPrefix DEF Printed, DocsOf
  <2>5. Begun(merged) /\ \A e \in Docs(merged) : \E r \in Slaves : r < n /\ e \in DocsOf(r)
    BY <2>1, <2>2 DEF OutputInv
  <2>6. Docs(merged) \cap Docs(disk[n]) = {}
    <3> SUFFICES ASSUME NEW e \in Docs(merged), e \in DocsOf(n) PROVE FALSE
      BY <2>4
    <3>1. PICK r \in Slaves : r < n /\ e \in DocsOf(r)
      BY <2>5
    <3>2. r # n
      BY <3>1 DEF Slaves
    <3>3. DocsOf(r) \cap DocsOf(n) = {}
      BY <1>0, <3>2 DEF TextInv, Apart, DocsByAll
    <3> QED BY <3>1, <3>3
  <2>7. Begun(merged') /\ Docs(merged') \subseteq Docs(merged) \cup DocsOf(n)
    BY <2>1, <2>2, <2>4, <2>5, <2>6, BegunConcat
  <2>8. \A r \in Slaves : (r < next') <=> (r < n \/ r = n)
    BY <2>1, <2>2 DEF Slaves
  <2> QED BY <2>3, <2>5, <2>7, <2>8
<1>4. CASE EndOfMerge \/ Abort \/ UNCHANGED vars
  <2>1. /\ mpc \in {"merge", "done"} /\ next' = next /\ merged' = merged
        /\ spc' = spc /\ buf' = buf /\ disk' = disk
    BY <1>4 DEF EndOfMerge, Abort, vars, masterVars, slaveVars
  <2>2. \A r \in Slaves : DocsOf(r)' = DocsOf(r)
    BY <2>1 DEF DocsOf, Living, Printed
  <2> QED BY <2>1, <2>2 DEF OutputInv
<1>5. CASE \E r \in Slaves : Slave(r)
  <2>1. PICK r \in Slaves : Slave(r)
    BY <1>5
  <2>2. /\ mpc' = mpc /\ merged' = merged /\ next' = next
    BY <2>1 DEF Slave, OpenResultFile, ReceiveTask, Process, Crash, RequestTask,
       SlaveSendReturns, CloseResultFile, masterVars
  <2>3. Stopped(r) /\ Exchange(r) /\ spc[r] \in {"recv", "sending", "closing", "closed"}
    <3>1. Stopped(r) /\ Exchange(r)
      BY <1>0, <2>2, AllStopped DEF FarmInv
    <3> QED BY <3>1 DEF Stopped, Exchange
  <2>4. /\ spc \in [Slaves -> {"start", "recv", "work", "reply", "sending",
                               "closing", "closed", "dead"}]
        /\ disk \in [Slaves -> Seq(Piece)] /\ buf \in [Slaves -> Seq(Piece)]
    BY <1>0 DEF FarmInv, TypeInv, TypeOK
  <2>5. DocsOf(r)' = DocsOf(r) /\ \A s \in Slaves \ {r} : DocsOf(s)' = DocsOf(s)
    <3>1. CASE ReceiveTask(r) \/ SlaveSendReturns(r)
      <4>1. /\ disk' = disk /\ buf' = buf
            /\ spc[r] \in {"recv", "sending"} /\ spc'[r] \in {"work", "closing", "recv"}
            /\ \A s \in Slaves \ {r} : spc'[s] = spc[s]
        BY <2>4, <3>1 DEF ReceiveTask, SlaveSendReturns
      <4> QED BY <4>1 DEF DocsOf, Living, Printed
    <3>2. CASE CloseResultFile(r)
      <4>1. /\ spc[r] = "closing" /\ spc'[r] = "closed"
            /\ disk'[r] = disk[r] \o buf[r] /\ buf'[r] = <<>>
            /\ \A s \in Slaves \ {r} :
                  spc'[s] = spc[s] /\ disk'[s] = disk[s] /\ buf'[s] = buf[s]
        BY <2>4, <3>2 DEF CloseResultFile
      <4>2. Printed(r) \in Seq(Row)
        BY <1>0, <4>1 DEF TextInv, TextOf, Living, Whole
      <4>3. Printed(r)' = Printed(r)
        BY <4>1, <4>2, ConcatEmptySeq DEF Printed
      <4> QED BY <4>1, <4>3 DEF DocsOf, Living, Printed
    <3> QED BY <2>1, <2>3, <3>1, <3>2 DEF Slave, OpenResultFile, Process, Crash, RequestTask
  <2>6. \A s \in Slaves : DocsOf(s)' = DocsOf(s)
    BY <2>5
  <2> QED BY <2>2, <2>6 DEF OutputInv
<1> QED BY <1>1, <1>2, <1>3, <1>4, <1>5 DEF Next, Terminated, Master

\* Even when merge_files comes before a slave has closed its file, as the sleep of
\* main does not exclude, no row is in the output twice and a row that is torn is so
\* at its end: only ends of result files are missing
THEOREM MergeAnyTime == Spec => []OutputBegun
<1>1. Init => TextAll /\ OutputInv
  BY InitTextAll DEF Init, OutputInv
<1>2. TextAll /\ [Next]_vars => TextAll'
  BY TextAllStep
<1>3. OutputInv => OutputBegun
  BY DEF OutputInv, OutputBegun
<1> QED BY <1>1, <1>2, <1>3, OutputStep, PTL DEF Spec
=============================================================================
