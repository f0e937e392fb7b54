------------------------------ MODULE TaskFarm ------------------------------
(***************************************************************************)
(* The MPI task farm of src/src/tasks/parallel_libsvm_input.c (its twins   *)
(* parallel_libsvm_input_occurence.c and parallel_libsvm_ngrams_extended.c *)
(* have the same run_slave, kill_slaves, parse, merge_files and main).     *)
(*                                                                         *)
(* Rank 0 walks a directory with ftw and hands every file to a slave, one  *)
(* at a time; a slave appends its rows to a result file of its own and     *)
(* asks for more; when the walk is over the master dismisses the slaves,   *)
(* sleeps a second and concatenates the result files.                      *)
(*                                                                         *)
(* MPI: messages between two ranks keep their order, a receive from        *)
(* MPI_ANY_SOURCE takes the head of any nonempty channel, and MPI_Send may *)
(* return before or after its message is received (the library may or may  *)
(* not buffer it).                                                         *)
(***************************************************************************)
EXTENDS Integers, Sequences, FiniteSets

CONSTANTS
    NP,        \* the number of MPI processes (MPI_Comm_size)
    Entries,   \* what ftw visits below the directory
    Kind,      \* the kind of every entry
    NoEntry,   \* not an entry
    MayFail    \* the ranks whose fopen for writing may fail

\* "dir": not a file; "longname": a name of FILE_NAME_SIZE or more characters;
\* "text": yields rows; "blank": yields none (nothing parsed, no paragraph, no
\* known word); "fleeting": yields rows if its slave can still read it when it
\* comes to it; file_contents returns NULL otherwise and read_document takes the
\* length of that
Kinds == {"dir", "longname", "text", "blank", "fleeting"}

ASSUME FarmAssumption ==
    /\ NP \in Nat \ {0}
    /\ IsFiniteSet(Entries)
    /\ Kind \in [Entries -> Kinds]
    /\ NoEntry \notin Entries
    /\ MayFail \subseteq 0 .. NP - 1

Slaves == 1 .. NP - 1

\* The entries that parse turns into a task
Jobs == {e \in Entries : Kind[e] \in {"text", "blank", "fleeting"}}

HasRows(e) == Kind[e] \in {"text", "fleeting"}

\* A document's rows reach the disk in pieces: the output is buffered
Rows(e) == IF HasRows(e) THEN <<<<e, 1>>, <<e, 2>>>> ELSE <<>>

\* What an earlier run left in a file
Stale == <<NoEntry, 0>>

Piece == (Entries \X {1, 2}) \cup {Stale}

\* A message from the master: work (worktag 1) or dismissal (worktag 0)
Work(e) == [tag |-> 1, file |-> e]
Die     == [tag |-> 0, file |-> NoEntry]
Message == {Work(e) : e \in Jobs} \cup {Die}

VARIABLES
    toVisit,   \* entries ftw has not visited yet
    items,     \* ITEMS_TO_BE_SENT
    cur,       \* the file parse is about to hand out, or NoEntry
    mpc,       \* where the master is
    dest,      \* the receiver of the master's MPI_Send in progress
    down,      \* down[r]: messages from the master to slave r
    up,        \* up[r]: requests from slave r to the master
    spc,       \* spc[r]: where slave r is
    job,       \* job[r]: the file slave r works on, or NoEntry
    buf,       \* buf[r]: what slave r has printed and not yet written
    disk,      \* disk[r]: the content of r's result file
    merged,    \* the content of libsvm_input.txt
    next,      \* the rank whose file merge_files reads next
    alive      \* FALSE once the MPI runtime has aborted the program

masterVars == <<toVisit, items, cur, mpc, dest, merged, next>>
slaveVars  == <<spc, job, buf, disk>>
vars       == <<masterVars, slaveVars, down, up, alive>>

Init ==
    /\ toVisit = Entries
    /\ items = NP - 1
    /\ cur = NoEntry
    /\ mpc = "walk"
    /\ dest = 0
    /\ down = [r \in Slaves |-> <<>>]
    /\ up = [r \in Slaves |-> <<>>]
    /\ spc = [r \in Slaves |-> "start"]
    /\ job = [r \in Slaves |-> NoEntry]
    /\ buf = [r \in Slaves |-> <<>>]
    /\ disk \in [Slaves -> {<<>>, <<Stale>>}]
    /\ merged \in {<<>>, <<Stale>>}
    /\ next = 1
    /\ alive = TRUE

-----------------------------------------------------------------------------
(* The master. *)

\* MPI_Send: the message is in the channel; the call returns in MasterSendReturns
Send(r, m, pc) ==
    /\ down' = [down EXCEPT ![r] = Append(@, m)]
    /\ dest' = r
    /\ mpc' = pc

\* parse returns at once on a directory and on a name that is too long
ParseSkip(e) ==
    /\ alive /\ mpc = "walk" /\ e \in toVisit \ Jobs
    /\ toVisit' = toVisit \ {e}
    /\ UNCHANGED <<items, cur, mpc, dest, merged, next, slaveVars, down, up, alive>>

\* Mutant: the receiver is ITEMS_TO_BE_SENT, without the decrement
ParseFirstTask_NoDecrement(e) ==
    /\ alive /\ mpc = "walk" /\ e \in toVisit \cap Jobs
    /\ items # 0
    /\ toVisit' = toVisit \ {e}
    /\ Send(items, Work(e), "sendjob")
    /\ UNCHANGED <<items, cur, merged, next, slaveVars, up, alive>>

\* Mutant: no else, the file that was sent is sent again to whoever asks
ParseFirstTask_NoElse(e) ==
    /\ alive /\ mpc = "walk" /\ e \in toVisit \cap Jobs
    /\ items # 0
    /\ toVisit' = toVisit \ {e}
    /\ Send(items, Work(e), "request")
    /\ items' = items - 1
    /\ cur' = e
    /\ UNCHANGED <<merged, next, slaveVars, up, alive>>

\* parse while a process has had no task: it gets this one
ParseFirstTask(e) ==
    /\ alive /\ mpc = "walk" /\ e \in toVisit \cap Jobs
    /\ items # 0
    /\ toVisit' = toVisit \ {e}
    /\ Send(items, Work(e), "sendjob")
    /\ items' = items - 1
    /\ UNCHANGED <<cur, merged, next, slaveVars, up, alive>>

\* parse when every process has a task: wait for one to be done
ParseWait(e) ==
    /\ alive /\ mpc = "walk" /\ e \in toVisit \cap Jobs
    /\ items = 0
    /\ toVisit' = toVisit \ {e}
    /\ cur' = e
    /\ mpc' = "request"
    /\ UNCHANGED <<items, dest, merged, next, slaveVars, down, up, alive>>

\* parse, second half: the receive returned a request of r, r gets the file
ParseAnswer(r) ==
    /\ alive /\ mpc = "request" /\ up[r] # <<>>
    /\ up' = [up EXCEPT ![r] = Tail(@)]
    /\ Send(r, Work(cur), "sendjob")
    /\ cur' = NoEntry
    /\ UNCHANGED <<toVisit, items, merged, next, slaveVars, alive>>

\* Mutant: the test of kill_slaves decrements after the comparison
EndOfWalk_PostDecrement ==
    /\ alive /\ mpc = "walk" /\ toVisit = {}
    /\ items' = NP
    /\ mpc' = "kill"
    /\ UNCHANGED <<toVisit, cur, dest, merged, next, slaveVars, down, up, alive>>

\* Mutant: the master is counted out twice, one slave is not waited for
EndOfWalk_OneTooFew ==
    /\ alive /\ mpc = "walk" /\ toVisit = {}
    /\ items' = NP - 2
    /\ mpc' = "kill"
    /\ UNCHANGED <<toVisit, cur, dest, merged, next, slaveVars, down, up, alive>>

\* ftw has returned and main calls kill_slaves, which sets ITEMS_TO_BE_SENT to
\* the number of processes and decrements it before each test
EndOfWalk ==
    /\ alive /\ mpc = "walk" /\ toVisit = {}
    /\ items' = NP - 1
    /\ mpc' = "kill"
    /\ UNCHANGED <<toVisit, cur, dest, merged, next, slaveVars, down, up, alive>>

\* kill_slaves, one round: whoever asks for work next is dismissed
KillSlave(r) ==
    /\ alive /\ mpc = "kill" /\ items # 0 /\ up[r] # <<>>
    /\ up' = [up EXCEPT ![r] = Tail(@)]
    /\ Send(r, Die, "senddie")
    /\ UNCHANGED <<toVisit, items, cur, merged, next, slaveVars, alive>>

\* The MPI_Send of parse or kill_slaves returns
MasterSendReturns ==
    /\ alive
    /\ \/ /\ mpc = "sendjob"
          /\ mpc' = "walk"
          /\ UNCHANGED items
       \/ /\ mpc = "senddie"
          /\ mpc' = "kill"
          /\ items' = items - 1
    /\ dest' = 0
    /\ UNCHANGED <<toVisit, cur, merged, next, slaveVars, down, up, alive>>

\* kill_slaves returns and main sleeps
Sleep ==
    /\ alive /\ mpc = "kill" /\ items = 0
    /\ mpc' = "sleep"
    /\ UNCHANGED <<toVisit, items, cur, dest, merged, next, slaveVars, down, up, alive>>

Closed(r) == spc[r] = "closed"

\* The sleep is over; merge_files opens (and truncates) the output
OpenMerged ==
    /\ alive /\ mpc = "sleep"
    /\ \/ /\ mpc' = "merge" /\ merged' = <<>> /\ next' = 1
       \/ /\ 0 \in MayFail
          /\ mpc' = "dead"
          /\ UNCHANGED <<merged, next>>
    /\ UNCHANGED <<toVisit, items, cur, dest, slaveVars, down, up, alive>>

\* merge_files appends what the result file of the next rank holds by now (a
\* file that is missing is skipped, which appends nothing either)
MergeFile ==
    /\ alive /\ mpc = "merge" /\ next < NP
    /\ merged' = merged \o disk[next]
    /\ next' = next + 1
    /\ UNCHANGED <<toVisit, items, cur, mpc, dest, slaveVars, down, up, alive>>

\* merge_files closes the output and the master is done
EndOfMerge ==
    /\ alive /\ mpc = "merge" /\ next = NP
    /\ mpc' = "done"
    /\ UNCHANGED <<toVisit, items, cur, dest, merged, next, slaveVars, down, up, alive>>

-----------------------------------------------------------------------------
(* Slave r. *)

\* Mutant: the result file is opened with "a"
OpenResultFile_Append(r) ==
    /\ alive /\ spc[r] = "start"
    /\ spc' = [spc EXCEPT ![r] = "recv"]
    /\ UNCHANGED <<masterVars, job, buf, disk, down, up, alive>>

\* run_slave creates (and truncates) the result file, or exits
OpenResultFile(r) ==
    /\ alive /\ spc[r] = "start"
    /\ \/ /\ spc' = [spc EXCEPT ![r] = "recv"]
          /\ disk' = [disk EXCEPT ![r] = <<>>]
       \/ /\ r \in MayFail
          /\ spc' = [spc EXCEPT ![r] = "dead"]
          /\ UNCHANGED disk
    /\ UNCHANGED <<masterVars, job, buf, down, up, alive>>

\* The receive at the head of the loop returns a task or the dismissal
ReceiveTask(r) ==
    /\ alive /\ spc[r] = "recv" /\ down[r] # <<>>
    /\ down' = [down EXCEPT ![r] = Tail(@)]
    /\ \/ /\ Head(down[r]).tag = 1
          /\ job' = [job EXCEPT ![r] = Head(down[r]).file]
          /\ spc' = [spc EXCEPT ![r] = "work"]
       \/ /\ Head(down[r]).tag = 0
          /\ spc' = [spc EXCEPT ![r] = "closing"]
          /\ UNCHANGED job
    /\ UNCHANGED <<masterVars, buf, disk, up, alive>>

\* Mutant: the slave goes back to its receive without a request when the
\* document has nothing to print
Process_NoReply(r) ==
    /\ alive /\ spc[r] = "work"
    /\ LET out == buf[r] \o Rows(job[r])
       IN \E k \in 0 .. Len(out) :
             /\ disk' = [disk EXCEPT ![r] = @ \o SubSeq(out, 1, k)]
             /\ buf' = [buf EXCEPT ![r] = SubSeq(out, k + 1, Len(out))]
    /\ job' = [job EXCEPT ![r] = NoEntry]
    /\ spc' = [spc EXCEPT ![r] = IF Rows(job[r]) = <<>> THEN "recv" ELSE "reply"]
    /\ UNCHANGED <<masterVars, down, up, alive>>

\* The document is read and its rows printed; the stream writes any part of
\* what it has buffered
Process(r) ==
    /\ alive /\ spc[r] = "work"
    /\ LET out == buf[r] \o Rows(job[r])
       IN \E k \in 0 .. Len(out) :
             /\ disk' = [disk EXCEPT ![r] = @ \o SubSeq(out, 1, k)]
             /\ buf' = [buf EXCEPT ![r] = SubSeq(out, k + 1, Len(out))]
    /\ job' = [job EXCEPT ![r] = NoEntry]
    /\ spc' = [spc EXCEPT ![r] = "reply"]
    /\ UNCHANGED <<masterVars, down, up, alive>>

\* read_document takes strlen of NULL: the process dies, its buffer with it
Crash(r) ==
    /\ alive /\ spc[r] = "work" /\ Kind[job[r]] = "fleeting"
    /\ spc' = [spc EXCEPT ![r] = "dead"]
    /\ buf' = [buf EXCEPT ![r] = <<>>]
    /\ UNCHANGED <<masterVars, job, disk, down, up, alive>>

\* The request for a new document is sent ...
RequestTask(r) ==
    /\ alive /\ spc[r] = "reply"
    /\ up' = [up EXCEPT ![r] = Append(@, r)]
    /\ spc' = [spc EXCEPT ![r] = "sending"]
    /\ UNCHANGED <<masterVars, job, buf, disk, down, alive>>

\* ... and its MPI_Send returns
SlaveSendReturns(r) ==
    /\ alive /\ spc[r] = "sending"
    /\ spc' = [spc EXCEPT ![r] = "recv"]
    /\ UNCHANGED <<masterVars, job, buf, disk, down, up, alive>>

\* Mutant: no fclose
CloseResultFile_NoFlush(r) ==
    /\ alive /\ spc[r] = "closing"
    /\ spc' = [spc EXCEPT ![r] = "closed"]
    /\ UNCHANGED <<masterVars, job, buf, disk, down, up, alive>>

\* The loop is left: close_document_loader, then fclose writes the buffer
CloseResultFile(r) ==
    /\ alive /\ spc[r] = "closing"
    /\ disk' = [disk EXCEPT ![r] = @ \o buf[r]]
    /\ buf' = [buf EXCEPT ![r] = <<>>]
    /\ spc' = [spc EXCEPT ![r] = "closed"]
    /\ UNCHANGED <<masterVars, job, down, up, alive>>

-----------------------------------------------------------------------------

Dead == mpc = "dead" \/ \E r \in Slaves : spc[r] = "dead"

\* Mutant: a process that fails leaves the others running
Abort_Never == FALSE /\ UNCHANGED vars

\* A process that ends without MPI_Finalize makes the runtime end the others
Abort ==
    /\ alive /\ Dead
    /\ alive' = FALSE
    /\ UNCHANGED <<masterVars, slaveVars, down, up>>

Finished == mpc = "done" /\ \A r \in Slaves : Closed(r)

Terminated == (Finished \/ ~alive) /\ UNCHANGED vars

Parse == \E e \in Entries : ParseSkip(e) \/ ParseFirstTask(e) \/ ParseWait(e)

Master ==
    \/ Parse
    \/ \E r \in Slaves : ParseAnswer(r) \/ KillSlave(r)
    \/ EndOfWalk \/ MasterSendReturns \/ Sleep
    \/ OpenMerged \/ MergeFile \/ EndOfMerge

Slave(r) ==
    \/ OpenResultFile(r) \/ ReceiveTask(r) \/ Process(r) \/ Crash(r)
    \/ RequestTask(r) \/ SlaveSendReturns(r) \/ CloseResultFile(r)

Next == Master \/ (\E r \in Slaves : Slave(r)) \/ Abort \/ Terminated

Spec == Init /\ [][Next]_vars

\* Processes are scheduled and MPI makes progress: a send whose message has been
\* received returns (one that has not may block), a receive takes a message that
\* is there, and the runtime notices a process that died
MasterSendDone == dest \in Slaves /\ down[dest] = <<>> /\ MasterSendReturns
SlaveSendDone(r) == up[r] = <<>> /\ SlaveSendReturns(r)

FairSpec ==
    /\ Spec
    /\ WF_vars(Parse \/ EndOfWalk \/ Sleep \/ OpenMerged \/ MergeFile \/ EndOfMerge)
    /\ WF_vars(\E r \in Slaves : ParseAnswer(r) \/ KillSlave(r))
    /\ WF_vars(MasterSendDone)
    /\ \A r \in Slaves :
          /\ WF_vars(OpenResultFile(r) \/ Process(r) \/ Crash(r)
                        \/ RequestTask(r) \/ CloseResultFile(r))
          /\ WF_vars(ReceiveTask(r))
          /\ WF_vars(SlaveSendDone(r))
    /\ WF_vars(Abort)

-----------------------------------------------------------------------------
(* Properties. *)

TypeOK ==
    /\ toVisit \subseteq Entries
    /\ items \in 0 .. NP - 1
    /\ cur \in Jobs \cup {NoEntry}
    /\ mpc \in {"walk", "request", "sendjob", "kill", "senddie",
                "sleep", "merge", "done", "dead"}
    /\ dest \in 0 .. NP - 1
    /\ down \in [Slaves -> Seq(Message)]
    /\ up \in [Slaves -> Seq(Slaves)]
    /\ spc \in [Slaves -> {"start", "recv", "work", "reply", "sending",
                           "closing", "closed", "dead"}]
    /\ job \in [Slaves -> Jobs \cup {NoEntry}]
    /\ buf \in [Slaves -> Seq(Piece)]
    /\ disk \in [Slaves -> Seq(Piece)]
    /\ merged \in Seq(Piece)
    /\ next \in 1 .. NP
    /\ alive \in BOOLEAN

Messages(r) == {down[r][i] : i \in 1 .. Len(down[r])}

\* The tasks slave r has: sent to it or being worked on
Held(r) == {m.file : m \in Messages(r) \ {Die}} \cup ({job[r]} \ {NoEntry})

\* Slave r has a task and has not asked for another
Busy(r) == spc[r] = "reply" \/ job[r] # NoEntry

\* Slave r has been told to stop
Dismissed(r) == spc[r] \in {"closing", "closed"} \/ Die \in Messages(r)

\* At any time at most one thing is under way between the master and a slave: a
\* message to it, a task it works on, or its request. (So no slave ever gets a
\* second task, and none is sent to a slave that was dismissed or has died.)
OneExchange ==
    \A r \in Slaves :
        /\ Len(down[r]) + (IF Busy(r) THEN 1 ELSE 0) + Len(up[r]) <= 1
        /\ spc[r] \in {"closing", "closed"} => down[r] = <<>> /\ up[r] = <<>>

\* Whenever parse waits for a request some slave is about to send one, or has
\* died: the blocking receive in parse never waits for nothing (with at least
\* one slave)
ParseNotStranded ==
    mpc = "request" =>
        \A r \in Slaves : Held(r) # {} \/ Busy(r) \/ up[r] # <<>>

\* The same for the receive in kill_slaves, when there was a file for everyone
KillNotStranded ==
    (mpc = "kill" /\ items # 0 /\ Cardinality(Jobs) >= NP - 1) =>
        \E r \in Slaves : Held(r) # {} \/ Busy(r) \/ up[r] # <<>>

\* Once kill_slaves has returned every slave is dismissed and every file that
\* was to be processed has been: nothing is pending, held or asked for
MergeAfterDismissal ==
    mpc \in {"sleep", "merge", "done"} =>
        /\ toVisit = {} /\ cur = NoEntry
        /\ \A r \in Slaves : Dismissed(r) /\ Held(r) = {} /\ up[r] = <<>>

\* No row of an earlier run gets into the output: whatever merge_files reads,
\* its slave has truncated before
NoStaleRows ==
    mpc \in {"merge", "done"} =>
        /\ Stale \notin {merged[i] : i \in 1 .. Len(merged)}
        /\ \A r \in Slaves : Stale \notin {disk[r][i] : i \in 1 .. Len(disk[r])}

\* A slave that died keeps the master from merging: there is no output that
\* silently lacks the documents of a dead slave
CrashBlocksMerge ==
    (\E r \in Slaves : spc[r] = "dead") => mpc \notin {"sleep", "merge", "done"}

\* The rows of e are in the output, once and in one piece
InOutput(e) ==
    \E i \in 1 .. Len(merged) - 1 :
        /\ SubSeq(merged, i, i + 1) = Rows(e)
        /\ \A k \in 1 .. Len(merged) : merged[k] \in {Rows(e)[1], Rows(e)[2]} =>
                                          k \in {i, i + 1}

\* "just to make sure that files are closed properly" (main, on the sleep):
\* the finished output has the rows of every document, whole and once
MergedComplete ==
    mpc = "done" => \A e \in Jobs : HasRows(e) => InOutput(e)

\* If the slaves have closed their files when the master's sleep is over, it is
\* so: no row is lost in a buffer, printed twice or torn
MergedInTime ==
    []((mpc = "merge") => \A r \in Slaves : Closed(r)) => []MergedComplete

\* "number of processes that are supposed to receive a task" (main): when the
\* walk is over every process has received one
EveryProcessTasked == [][mpc = "walk" /\ mpc' = "kill" => items = 0]_vars

\* The program comes to its end (or is aborted)
Termination == <>(Finished \/ ~alive)

-----------------------------------------------------------------------------
(* The farm implements a work pool. *)

HeldBy(r) == IF Held(r) = {} THEN NoEntry ELSE CHOOSE e \in Held(r) : TRUE

Pool == INSTANCE WorkPool WITH
    Workers <- Slaves,
    None    <- NoEntry,
    pending <- (toVisit \cap Jobs) \cup ({cur} \ {NoEntry}),
    held    <- [r \in Slaves |-> HeldBy(r)],
    result  <- IF mpc = "done" THEN Jobs ELSE NoEntry

\* Every step of the farm is a step of the pool or leaves the pool as it is:
\* each file is worked on by one slave, and the master finishes only when every
\* file has been (what is then in the output is MergedComplete's).  When no
\* process fails the work of the pool goes on until it is done
PoolImplemented == Pool!SafeSpec /\ ([]~Dead => Pool!Live)
=============================================================================
