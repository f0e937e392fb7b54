---------------------------- MODULE LanguageFarm ----------------------------
(***************************************************************************)
(* src/src/tasks/parallel_language_detector.c: the task farm that detects  *)
(* the language of every document.  It differs from TaskFarm in what the   *)
(* slaves answer (the answer is the result: a message with tag 1 is copied *)
(* to the log, one with tag 0 is not), in a line the master itself writes  *)
(* to the log about a file it does not hand out, in a slave that exits in  *)
(* the middle of a job after it has answered, and in its end: no files are *)
(* merged and nobody calls MPI_Finalize.                                   *)
(***************************************************************************)
EXTENDS Integers, Sequences, FiniteSets, SequencesExt

CONSTANTS
    NP,        \* the number of MPI processes
    Entries,   \* what ftw visits
    Collections, \* the kinds the entries may have, a function for each case
    NoEntry    \* not an entry

\* "dir", "longname": no task, though the log says of a file that its name is too
\* long; "english", "foreign": what textcat says;
\* "unparsable": read_document returns NULL; "rootless": a document with no root
\* element; "unreadable": a file that cannot be opened
Kinds == {"dir", "longname", "english", "foreign", "unparsable", "rootless",
          "unreadable"}

ASSUME LanguageFarmAssumption ==
    /\ NP \in Nat \ {0}
    /\ Collections \subseteq [Entries -> Kinds]
    /\ NoEntry \notin Entries

Slaves == 1 .. NP - 1

VARIABLES
    kind,      \* the kind of every entry; it does not change
    toVisit,   \* entries ftw has not visited yet
    items,     \* ITEMS_TO_BE_SEND
    cur,       \* the file parse is about to hand out, or NoEntry
    mpc,       \* where the master is
    dest,      \* the receiver of the master's MPI_Send in progress
    log,       \* the files logfile.txt has a line about, in order
    down, up,  \* the channels of every slave
    spc,       \* where every slave is
    job,       \* the file every slave works on, or NoEntry
    alive      \* FALSE once the runtime has aborted the program

masterVars == <<toVisit, items, cur, mpc, dest, log>>
slaveVars  == <<spc, job>>
moving     == <<masterVars, slaveVars, down, up, alive>>
vars       == <<kind, moving>>

Files == {e \in Entries : kind[e] # "dir"}

Jobs == {e \in Files : kind[e] # "longname"}

Init ==
    /\ kind \in Collections
    /\ toVisit = Entries
    /\ items = NP - 1
    /\ cur = NoEntry /\ mpc = "walk" /\ dest = 0 /\ log = <<>>
    /\ down = [r \in Slaves |-> <<>>]
    /\ up = [r \in Slaves |-> <<>>]
    /\ spc = [r \in Slaves |-> "recv"]
    /\ job = [r \in Slaves |-> NoEntry]
    /\ alive = TRUE

-----------------------------------------------------------------------------
(* The master. *)

Send(r, tag, e, pc) ==
    /\ down' = [down EXCEPT ![r] = Append(@, [tag |-> tag, file |-> e])]
    /\ dest' = r
    /\ mpc' = pc

\* Mutant: parse forgets the message of the slave it gives new work to
Receive_NoLogWhileWalking(r) ==
    /\ up[r] # <<>>
    /\ up' = [up EXCEPT ![r] = Tail(@)]
    /\ log' = IF Head(up[r]).tag = 1 /\ mpc # "request"
              THEN Append(log, Head(up[r]).file) ELSE log

\* The receive of parse and kill_slaves: a message with tag 1 goes to the log
Receive(r) ==
    /\ up[r] # <<>>
    /\ up' = [up EXCEPT ![r] = Tail(@)]
    /\ log' = IF Head(up[r]).tag = 1 THEN Append(log, Head(up[r]).file) ELSE log

ParseSkip(e) ==
    /\ alive /\ mpc = "walk" /\ e \in toVisit \ Files
    /\ toVisit' = toVisit \ {e}
    /\ UNCHANGED <<items, cur, mpc, dest, log, slaveVars, down, up, alive>>

\* Mutant: the name is only complained about on the terminal
ParseTooLong_NotLogged(e) ==
    /\ alive /\ mpc = "walk" /\ e \in toVisit \cap (Files \ Jobs)
    /\ toVisit' = toVisit \ {e}
    /\ UNCHANGED <<items, cur, mpc, dest, log, slaveVars, down, up, alive>>

\* A name that does not fit into the message: the master writes the line itself
ParseTooLong(e) ==
    /\ alive /\ mpc = "walk" /\ e \in toVisit \cap (Files \ Jobs)
    /\ toVisit' = toVisit \ {e}
    /\ log' = Append(log, e)
    /\ UNCHANGED <<items, cur, mpc, dest, slaveVars, down, up, alive>>

ParseFirstTask(e) ==
    /\ alive /\ mpc = "walk" /\ e \in toVisit \cap Jobs
    /\ items # 0
    /\ toVisit' = toVisit \ {e}
    /\ Send(items, 1, e, "sendjob")
    /\ items' = items - 1
    /\ UNCHANGED <<cur, log, slaveVars, up, alive>>

ParseWait(e) ==
    /\ alive /\ mpc = "walk" /\ e \in toVisit \cap Jobs
    /\ items = 0
    /\ toVisit' = toVisit \ {e}
    /\ cur' = e
    /\ mpc' = "request"
    /\ UNCHANGED <<items, dest, log, slaveVars, down, up, alive>>

ParseAnswer(r) ==
    /\ alive /\ mpc = "request"
    /\ Receive(r)
    /\ Send(r, 1, cur, "sendjob")
    /\ cur' = NoEntry
    /\ UNCHANGED <<toVisit, items, slaveVars, alive>>

\* Mutant: the number of processes is not decremented before it is compared
EndOfWalk_OneTooFew ==
    /\ alive /\ mpc = "walk" /\ toVisit = {}
    /\ items' = NP - 2
    /\ mpc' = "kill"
    /\ UNCHANGED <<toVisit, cur, dest, log, slaveVars, down, up, alive>>

\* Mutant: the test of kill_slaves decrements after the comparison
EndOfWalk_PostDecrement ==
    /\ alive /\ mpc = "walk" /\ toVisit = {}
    /\ items' = NP
    /\ mpc' = "kill"
    /\ UNCHANGED <<toVisit, cur, dest, log, slaveVars, down, up, alive>>

EndOfWalk ==
    /\ alive /\ mpc = "walk" /\ toVisit = {}
    /\ items' = NP - 1
    /\ mpc' = "kill"
    /\ UNCHANGED <<toVisit, cur, dest, log, slaveVars, down, up, alive>>

KillSlave(r) ==
    /\ alive /\ mpc = "kill" /\ items # 0
    /\ Receive(r)
    /\ Send(r, 0, NoEntry, "senddie")
    /\ UNCHANGED <<toVisit, items, cur, slaveVars, alive>>

MasterSendReturns ==
    /\ alive
    /\ \/ /\ mpc = "sendjob" /\ mpc' = "walk"
          /\ UNCHANGED items
       \/ /\ mpc = "senddie" /\ mpc' = "kill"
          /\ items' = items - 1
    /\ dest' = 0
    /\ UNCHANGED <<toVisit, cur, log, slaveVars, down, up, alive>>

\* kill_slaves returns, the log is closed and main returns
MasterExit ==
    /\ alive /\ mpc = "kill" /\ items = 0
    /\ mpc' = "done"
    /\ UNCHANGED <<toVisit, items, cur, dest, log, slaveVars, down, up, alive>>

-----------------------------------------------------------------------------
(* Slave r. *)

ReceiveTask(r) ==
    /\ alive /\ spc[r] = "recv" /\ down[r] # <<>>
    /\ down' = [down EXCEPT ![r] = Tail(@)]
    /\ LET m == Head(down[r])
       IN /\ spc' = [spc EXCEPT ![r] = IF m.tag = 0 THEN "done" ELSE "work"]
          /\ job' = [job EXCEPT ![r] = m.file]
    /\ UNCHANGED <<masterVars, up, alive>>

\* The answer is sent: the language, or that there is no document
Answer(r, tag, pc) ==
    /\ up' = [up EXCEPT ![r] = Append(@, [tag |-> tag, file |-> job[r]])]
    /\ spc' = [spc EXCEPT ![r] = pc]
    /\ UNCHANGED <<masterVars, job, down, alive>>

\* Mutant: the slave reports every language
Classify_AllLogged(r) ==
    /\ alive /\ spc[r] = "work" /\ kind[job[r]] \in {"english", "foreign"}
    /\ Answer(r, 1, "sending")

\* Mutant: nothing is sent about an English document
Classify_OnlyForeign(r) ==
    /\ alive /\ spc[r] = "work" /\ kind[job[r]] \in {"english", "foreign"}
    /\ IF kind[job[r]] = "foreign"
       THEN Answer(r, 1, "sending")
       ELSE /\ spc' = [spc EXCEPT ![r] = "recv"]
            /\ job' = [job EXCEPT ![r] = NoEntry]
            /\ UNCHANGED <<masterVars, down, up, alive>>

Classify(r) ==
    /\ alive /\ spc[r] = "work" /\ kind[job[r]] \in {"english", "foreign"}
    /\ Answer(r, IF kind[job[r]] = "foreign" THEN 1 ELSE 0, "sending")

ReportUnparsable(r) ==
    /\ alive /\ spc[r] = "work" /\ kind[job[r]] = "unparsable"
    /\ Answer(r, 1, "sendingfailure")

SlaveSendReturns(r) ==
    /\ alive
    /\ \/ /\ spc[r] = "sending"
          /\ spc' = [spc EXCEPT ![r] = "recv"]
          /\ job' = [job EXCEPT ![r] = NoEntry]
       \* without a document there is no DNM: the slave exits
       \/ /\ spc[r] = "sendingfailure"
          /\ spc' = [spc EXCEPT ![r] = "dead"]
          /\ job' = [job EXCEPT ![r] = NoEntry]
    /\ UNCHANGED <<masterVars, down, up, alive>>

\* No root element (create_DNM returns NULL, exit) or no file (strlen of NULL):
\* the slave ends without an answer
Die(r) ==
    /\ alive /\ spc[r] = "work" /\ kind[job[r]] \in {"rootless", "unreadable"}
    /\ spc' = [spc EXCEPT ![r] = "dead"]
    /\ UNCHANGED <<masterVars, job, down, up, alive>>

-----------------------------------------------------------------------------

Dead == \E r \in Slaves : spc[r] = "dead"

Ended == mpc = "done" \/ \E r \in Slaves : spc[r] = "done"

Finished == mpc = "done" /\ \A r \in Slaves : spc[r] = "done"

\* The runtime ends the other processes when one has failed; it may when one has
\* returned from main, because nobody calls MPI_Finalize
Abort ==
    /\ alive /\ ~Finished
    /\ Dead \/ Ended
    /\ alive' = FALSE
    /\ UNCHANGED <<masterVars, slaveVars, down, up>>

Parse ==
    \E e \in Entries :
        ParseSkip(e) \/ ParseTooLong(e) \/ ParseFirstTask(e) \/ ParseWait(e)

Master ==
    \/ Parse
    \/ \E r \in Slaves : ParseAnswer(r) \/ KillSlave(r)
    \/ EndOfWalk \/ MasterSendReturns \/ MasterExit

Slave(r) ==
    ReceiveTask(r) \/ Classify(r) \/ ReportUnparsable(r)
        \/ SlaveSendReturns(r) \/ Die(r)

Terminated == (Finished \/ ~alive) /\ UNCHANGED moving

Step == Master \/ (\E r \in Slaves : Slave(r)) \/ Abort \/ Terminated

Next == Step /\ UNCHANGED kind

Spec == Init /\ [][Next]_vars

\* As in TaskFarm: processes run, MPI delivers, the runtime notices a failure
MasterSendDone == dest \in Slaves /\ down[dest] = <<>> /\ MasterSendReturns
SlaveSendDone(r) == up[r] = <<>> /\ SlaveSendReturns(r)

FairSpec ==
    /\ Spec
    /\ WF_moving(Parse \/ EndOfWalk \/ MasterExit)
    /\ WF_moving(\E r \in Slaves : ParseAnswer(r) \/ KillSlave(r))
    /\ WF_moving(MasterSendDone)
    /\ \A r \in Slaves :
          /\ WF_moving(ReceiveTask(r))
          /\ WF_moving(Classify(r) \/ ReportUnparsable(r) \/ Die(r))
          /\ WF_moving(SlaveSendDone(r))
    /\ WF_moving(Dead /\ Abort)

-----------------------------------------------------------------------------
(* Properties. *)

Answers == [tag : {0, 1}, file : Jobs]
Tasks   == [tag : {1}, file : Jobs] \cup [tag : {0}, file : {NoEntry}]

TypeOK ==
    /\ kind \in Collections
    /\ toVisit \subseteq Entries
    /\ items \in 0 .. NP - 1
    /\ cur \in Jobs \cup {NoEntry}
    /\ mpc \in {"walk", "request", "sendjob", "kill", "senddie", "done"}
    /\ dest \in 0 .. NP - 1
    /\ log \in Seq(Files)
    /\ down \in [Slaves -> Seq(Tasks)]
    /\ up \in [Slaves -> Seq(Answers)]
    /\ spc \in [Slaves -> {"recv", "work", "sending", "sendingfailure", "done", "dead"}]
    /\ job \in [Slaves -> Jobs \cup {NoEntry}]
    /\ alive \in BOOLEAN

\* The files nothing is known about: still to be visited, in the master's hand, on
\* the way to a slave, in the hand of one that works or died with it, and those with an
\* answer under way.  A document sent to a slave that is dead stays among them
Outstanding ==
    (toVisit \cap Files) \cup ({cur} \ {NoEntry})
        \cup (UNION {{m.file : m \in ToSet(down[r])} \ {NoEntry} : r \in Slaves})
        \cup ({job[r] : r \in {s \in Slaves : spc[s] \in {"work", "dead"}}} \ {NoEntry})
        \cup (UNION {{m.file : m \in ToSet(up[r])} : r \in Slaves})

\* The kinds of files with a line in logfile.txt
Logged == {"longname", "foreign", "unparsable"}

D == INSTANCE Detector
       WITH todo     <- Outstanding,
            printed  <- log,
            over     <- (mpc = "done"),
            Skipped  <- {"dir"},
            Reported <- Logged

\* The farm is a detector in one process: whoever answers in whatever order, in parse or
\* in kill_slaves, and although a slave that could not parse its document exits after its
\* answer, every file is looked at once; the line about it is written when its answer is
\* received, or, if its name is too long, when parse refuses it; none is written twice or
\* about a document in English; and the master does not come to its end while a slave that
\* died, or one that parse took for alive, has a document nobody has looked at
DetectorImplemented == D!Spec

Harmless == \A e \in Jobs : kind[e] \in {"english", "foreign"}

\* With documents that can be parsed, at least one for every slave, everybody
\* comes to the end, unless the runtime resents the missing MPI_Finalize
Completion ==
    (Harmless /\ Cardinality(Jobs) >= NP - 1 /\ []alive) => <>Finished
=============================================================================
