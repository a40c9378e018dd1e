------------------------------ MODULE Custody ------------------------------
(***************************************************************************)
(* Process custody of internal/processscope as internal/processcontrol     *)
(* uses it.  An owner process holds the root scope.  Each of its workers   *)
(* runs one command the way runScoped does: it asks the broker for a child *)
(* scope, attaches the command, runs it and closes the child.  The broker  *)
(* is a process of its own that serves one channel per scope; it launches  *)
(* a guardian process per job, and the guardian launches the target.       *)
(*                                                                         *)
(* The interleavings are those of the broker's goroutines (one per         *)
(* channel, one reader and at most one retirement per job, and main), of   *)
(* the guardians and of the workers.  A job and the child scope it runs in *)
(* have one name.  Frames on a channel arrive in order, so the client's    *)
(* demultiplexer is part of the send.  Every timer may fire at any moment. *)
(***************************************************************************)
EXTENDS Naturals, Sequences, FiniteSets

CONSTANTS
    Workers,  \* workers, child scopes and jobs
    Root,     \* the root scope and its channel
    Main,     \* the goroutine of runBroker
    None,
    Jobs      \* limits.Jobs: the number of concurrent jobs admitted

ASSUME NamesAssumption ==
    Root \notin Workers /\ Main \notin Workers \cup {Root} /\ None \notin Workers
ASSUME JobsAssumption == Jobs \in Nat \ {0}

Channels == Workers \cup {Root}
Executors == Channels \cup {Main}

VARIABLES
    owner,    \* is the owner process alive?
    opc,      \* the owner's root handle: "open", "closing", "exit", "done"
    wpc,      \* the request each worker waits on
    scope,    \* the child scope each worker was given
    outcome,  \* what each worker's runScoped, and the root Close, returned
    req,      \* frames sent to the broker, per channel
    replyCh,  \* replies delivered to the client, per channel
    jobCh,    \* jobChans: None, or a channel that holds at most one result
    broker,   \* is the broker process alive?
    bpc,      \* what each broker goroutine does next
    todo,     \* jobs it has left to retire
    closing,  \* scopes marked closing
    nonces,   \* scopes with an unspent attachment
    jobOrder, \* registered jobs, in order
    job,      \* the broker's record of each job
    ret,      \* where the retirement of each job is
    reader,   \* where the goroutine reading each guardian is
    gq,       \* frames a guardian has sent
    guardian, \* the guardian processes
    target,   \* the processes they launched
    strays,   \* what is left in a job's process group by its target
    report,   \* the report a close of this scope was answered with
    join      \* retirements of each goroutine: "own", joined ("none"), or given up ("out")

clientVars == <<owner, opc, wpc, scope, outcome>>
brokerVars == <<bpc, todo, closing, nonces, jobOrder, report, join>>
osVars == <<broker, gq, guardian, target, strays>>
vars == <<clientVars, req, replyCh, jobCh, brokerVars, job, ret, reader, osVars>>

Codes == {"", "CANCELED", "CUSTODY_ERROR", "INVALID_COMMAND", "INTERNAL_ERROR"}
Exits == {"none", "ok", "failed"}
Replies == {"attached", "started", "refused", "childok", "cleaned", "cleanup-failed"}
Statuses == {"cleaned", "cleanup-failed"}

\* The record newScope and handleRun start a job with.
NewJob == [retired |-> FALSE, terminated |-> FALSE, reaped |-> FALSE,
           exceeded |-> FALSE, conn |-> TRUE, cancelCode |-> "", exit |-> "none"]

Registered(j) == \E i \in DOMAIN jobOrder : jobOrder[i] = j
Subtree(c) == IF c \in Workers THEN {c} ELSE Workers
LiveJobs == {j \in Workers : Registered(j) /\ ~job[j].retired}
Alive == {"up", "killed"}       \* processes that are still in their group
Drained(j) == target[j] \notin Alive /\ strays[j] \notin Alive
GuardianUp == {"boot", "bootsig", "up", "drain", "reported", "startfail"}

Init ==
    /\ owner = TRUE /\ opc = "open"
    /\ wpc = [w \in Workers |-> "idle"]
    /\ scope = [w \in Workers |-> None]
    /\ outcome = [c \in Channels |-> "none"]
    /\ req = [c \in Channels |-> <<>>]
    /\ replyCh = [c \in Channels |-> <<>>]
    /\ jobCh = [j \in Workers |-> None]
    /\ broker = TRUE
    /\ bpc = [e \in Executors |-> IF e \in Workers THEN "none" ELSE "read"]
    /\ todo = [e \in Executors |-> <<>>]
    /\ closing = {} /\ nonces = {} /\ jobOrder = <<>>
    /\ job = [j \in Workers |-> NewJob]
    /\ ret = [j \in Workers |-> "none"]
    /\ reader = [j \in Workers |-> "none"]
    /\ gq = [j \in Workers |-> <<>>]
    /\ guardian = [j \in Workers |-> "none"]
    /\ target = [j \in Workers |-> "none"]
    /\ strays = [j \in Workers |-> "none"]
    /\ report = [c \in Channels |-> "none"]
    /\ join = [e \in Executors |-> "none"]

-----------------------------------------------------------------------------
(* Clients: the owner's workers and its root handle. *)

\* A frame sent to a broker that is gone is lost.
Send(c, frame) ==
    req' = IF broker THEN [req EXCEPT ![c] = Append(@, frame)] ELSE req
Take(c) == replyCh' = [replyCh EXCEPT ![c] = Tail(@)]
Ends(w, result) ==
    /\ wpc' = [wpc EXCEPT ![w] = "done"]
    /\ outcome' = [outcome EXCEPT ![w] = result]

\* The worker gives up what it was doing and closes its child scope.
CloseChild(w, result) ==
    /\ wpc' = [wpc EXCEPT ![w] = "close"]
    /\ outcome' = [outcome EXCEPT ![w] = result]
    /\ Send(scope[w], [t |-> "close", of |-> scope[w]])

\* runScoped asks the root scope for a child; a closed handle refuses at once.
Child(w) ==
    /\ owner /\ wpc[w] = "idle"
    /\ IF opc # "open" THEN Ends(w, "error") /\ UNCHANGED req
       ELSE /\ Send(Root, [t |-> "childreq", of |-> w])
            /\ wpc' = [wpc EXCEPT ![w] = "child"]
            /\ UNCHANGED outcome
    /\ UNCHANGED <<owner, opc, scope, replyCh, jobCh, brokerVars, job, ret, reader, osVars>>

\* Mutant of ChildReply: the descriptor of the reply is not looked at.
ChildReplyUnchecked(w) ==
    /\ owner /\ wpc[w] = "child" /\ replyCh[Root] # <<>>
    /\ Take(Root)
    /\ LET r == Head(replyCh[Root]) IN
       /\ scope' = [scope EXCEPT ![w] = r.of]
       /\ Send(r.of, [t |-> "attach", of |-> r.of])
    /\ wpc' = [wpc EXCEPT ![w] = "attach"]
    /\ UNCHANGED <<owner, opc, outcome, jobCh, brokerVars, job, ret, reader, osVars>>

\* Whoever waits on the root handle takes the next reply, whatever it answers.
\* A reply without a descriptor is an error; with one, the worker attaches.
ChildReply(w) ==
    /\ owner /\ wpc[w] = "child" /\ replyCh[Root] # <<>>
    /\ Take(Root)
    /\ LET r == Head(replyCh[Root]) IN
       IF r.t = "childok"
       THEN /\ scope' = [scope EXCEPT ![w] = r.of]
            /\ Send(r.of, [t |-> "attach", of |-> r.of])
            /\ wpc' = [wpc EXCEPT ![w] = "attach"]
            /\ UNCHANGED outcome
       ELSE Ends(w, "error") /\ UNCHANGED <<scope, req>>
    /\ UNCHANGED <<owner, opc, jobCh, brokerVars, job, ret, reader, osVars>>

\* Attach takes any reply but a refusal for the attachment; Run sends it.
AttachReply(w) ==
    /\ owner /\ wpc[w] = "attach" /\ replyCh[scope[w]] # <<>>
    /\ Take(scope[w])
    /\ IF Head(replyCh[scope[w]]).t # "refused"
       THEN /\ Send(scope[w], [t |-> "run", of |-> scope[w]])
            /\ wpc' = [wpc EXCEPT ![w] = "run"]
            /\ UNCHANGED outcome
       ELSE CloseChild(w, "error")
    /\ UNCHANGED <<owner, opc, scope, jobCh, brokerVars, job, ret, reader, osVars>>

\* Run goes on to wait for the result only after "started".
RunReply(w) ==
    /\ owner /\ wpc[w] = "run" /\ replyCh[scope[w]] # <<>>
    /\ Take(scope[w])
    /\ IF Head(replyCh[scope[w]]).t = "started"
       THEN /\ wpc' = [wpc EXCEPT ![w] = "wait"]
            /\ jobCh' = [jobCh EXCEPT ![scope[w]] = IF @ = None THEN <<>> ELSE @]
            /\ UNCHANGED <<outcome, req>>
       ELSE CloseChild(w, "error") /\ UNCHANGED jobCh
    /\ UNCHANGED <<owner, opc, scope, brokerVars, job, ret, reader, osVars>>

\* Mutant of RequestFails: the close of a child waits without a limit.
RequestFailsNotClose(w) ==
    /\ owner
    /\ \/ wpc[w] = "child" /\ Ends(w, "error") /\ UNCHANGED req
       \/ wpc[w] \in {"attach", "run"} /\ CloseChild(w, "error")
    /\ UNCHANGED <<owner, opc, scope, replyCh, jobCh, brokerVars, job, ret, reader, osVars>>

\* A request ends without its reply: the context is cancelled, the control
\* window passes, or the channel ends.  Its reply may still come.
RequestFails(w) ==
    /\ owner
    /\ \/ wpc[w] \in {"child", "close"} /\ Ends(w, "error") /\ UNCHANGED req
       \/ wpc[w] \in {"attach", "run"} /\ CloseChild(w, "error")
    /\ UNCHANGED <<owner, opc, scope, replyCh, jobCh, brokerVars, job, ret, reader, osVars>>

\* The context, the deadline or an output limit cancels the job, once.
Cancel(w) ==
    /\ owner /\ wpc[w] = "wait"
    /\ wpc' = [wpc EXCEPT ![w] = "cancel"]
    /\ Send(scope[w], [t |-> "cancel", of |-> scope[w]])
    /\ UNCHANGED <<owner, opc, scope, outcome, replyCh, jobCh, brokerVars, job, ret, reader, osVars>>

\* What runScoped makes of a result, before it closes the child scope.
Verdict(r) == IF r.code # "" \/ r.exit = "failed" THEN "error" ELSE "success"

\* Run has its result; or the hard limit, which is later than the deadline
\* that cancels, passes without one.
RunEnds(w) ==
    /\ owner
    /\ \/ /\ wpc[w] \in {"wait", "cancel"}
          /\ jobCh[scope[w]] \notin {None, <<>>}
          /\ CloseChild(w, Verdict(Head(jobCh[scope[w]])))
       \/ /\ wpc[w] = "cancel"
          /\ jobCh[scope[w]] = <<>>
          /\ CloseChild(w, "error")
    /\ jobCh' = [jobCh EXCEPT ![scope[w]] = None]
    /\ UNCHANGED <<owner, opc, scope, replyCh, brokerVars, job, ret, reader, osVars>>

\* Only a report that says "cleaned" lets a success stand.
CloseReply(w) ==
    /\ owner /\ wpc[w] = "close" /\ replyCh[scope[w]] # <<>>
    /\ Take(scope[w])
    /\ Ends(w, IF Head(replyCh[scope[w]]).t = "cleaned" THEN outcome[w] ELSE "error")
    /\ UNCHANGED <<owner, opc, scope, req, jobCh, brokerVars, job, ret, reader, osVars>>

\* The owner closes the root scope, whatever its workers are doing.
CloseRoot ==
    /\ owner /\ opc = "open"
    /\ opc' = "closing"
    /\ Send(Root, [t |-> "close", of |-> Root])
    /\ UNCHANGED <<owner, wpc, scope, outcome, replyCh, jobCh, brokerVars, job, ret, reader, osVars>>

\* The root close takes the next reply, or fails without one.
RootReply ==
    /\ owner /\ opc = "closing"
    /\ opc' = "exit"
    /\ \/ /\ replyCh[Root] # <<>>
          /\ Take(Root)
          /\ outcome' = [outcome EXCEPT ![Root] =
                 IF Head(replyCh[Root]).t = "cleaned" THEN "cleaned" ELSE "cleanup-failed"]
       \/ /\ outcome' = [outcome EXCEPT ![Root] = "cleanup-failed"]
          /\ UNCHANGED replyCh
    /\ UNCHANGED <<owner, wpc, scope, req, jobCh, brokerVars, job, ret, reader, osVars>>

\* The broker process ends: its goroutines, its memory and its ends of the
\* channels are gone.
BrokerGone ==
    /\ broker' = FALSE
    /\ req' = [c \in Channels |-> <<>>]
    /\ bpc' = [e \in Executors |-> "over"]
    /\ todo' = [e \in Executors |-> <<>>]
    /\ closing' = {} /\ nonces' = {} /\ jobOrder' = <<>>
    /\ job' = [j \in Workers |-> NewJob]
    /\ ret' = [j \in Workers |-> "none"]
    /\ gq' = [j \in Workers |-> <<>>]
    /\ join' = [e \in Executors |-> "none"]
    /\ UNCHANGED <<reader, report>>

\* The owner waits for the broker to exit, and kills it when it does not;
\* that does not change the status it returns.
RootExit ==
    /\ owner /\ opc = "exit"
    /\ opc' = "done"
    /\ \/ ~broker /\ UNCHANGED <<req, brokerVars, job, ret, reader, broker, gq>>
       \/ broker /\ BrokerGone
    /\ UNCHANGED <<owner, wpc, scope, outcome, replyCh, jobCh, guardian, target, strays>>

\* The owner process dies, and its workers and their memory with it.  Frames
\* it has sent are still read.
OwnerDies ==
    /\ owner /\ opc # "done"
    /\ owner' = FALSE
    /\ opc' = "done"
    /\ wpc' = [w \in Workers |-> "done"]
    /\ scope' = [w \in Workers |-> None]
    /\ outcome' = [c \in Channels |-> "none"]
    /\ replyCh' = [c \in Channels |-> <<>>]
    /\ jobCh' = [j \in Workers |-> None]
    /\ UNCHANGED <<req, brokerVars, job, ret, reader, osVars>>

-----------------------------------------------------------------------------
(* The broker: one goroutine per channel, and main. *)

\* A frame to a client whose process is gone is lost.
Reply(c, t, of) ==
    replyCh' = IF owner THEN [replyCh EXCEPT ![c] = Append(@, [t |-> t, of |-> of])]
                        ELSE replyCh
Goto(e, next) == bpc' = [bpc EXCEPT ![e] = next]

\* Channel c has read a frame of type t.
Receives(c, t) ==
    /\ broker /\ bpc[c] = "read"
    /\ req[c] # <<>> /\ Head(req[c]).t = t
    /\ req' = [req EXCEPT ![c] = Tail(@)]

\* childreq: a root found open gets a child scope, with its own channel.  The
\* root is not looked at again before the child is in the scope table.
ServeChild ==
    /\ IF Root \in closing
       THEN Receives(Root, "childreq") /\ Reply(Root, "refused", Root) /\ UNCHANGED bpc
       ELSE /\ broker /\ bpc[Root] = "read" /\ req[Root] # <<>> /\ Head(req[Root]).t = "childreq"
            /\ Goto(Root, "child")
            /\ UNCHANGED <<req, replyCh>>
    /\ UNCHANGED <<clientVars, jobCh, todo, closing, nonces, jobOrder, report, join, job, ret, reader, osVars>>

NewScope ==
    /\ broker /\ bpc[Root] = "child"
    /\ LET s == Head(req[Root]).of IN
       /\ bpc' = [bpc EXCEPT ![Root] = "read", ![s] = "read"]
       /\ Reply(Root, "childok", s)
    /\ req' = [req EXCEPT ![Root] = Tail(@)]
    /\ UNCHANGED <<clientVars, jobCh, todo, closing, nonces, jobOrder, report, join, job, ret, reader, osVars>>

\* attach: an open scope with budget left gets a nonce.
ServeAttach(c) ==
    /\ Receives(c, "attach")
    /\ \/ /\ c \notin closing
          /\ nonces' = nonces \cup {c}
          /\ Reply(c, "attached", c)
       \/ UNCHANGED nonces /\ Reply(c, "refused", c)
    /\ UNCHANGED <<clientVars, jobCh, bpc, todo, closing, jobOrder, report, join, job, ret, reader, osVars>>

\* run: the conditions handleRun reads under its first lock.  They are not
\* read again before the job is registered and launched.
MayRun(c) == c \notin closing /\ c \in nonces /\ Cardinality(LiveJobs) < Jobs

ServeRun(c) ==
    /\ Receives(c, "run")
    /\ \/ MayRun(c) /\ Goto(c, "register") /\ UNCHANGED replyCh
       \/ Reply(c, "refused", c) /\ UNCHANGED bpc
    /\ UNCHANGED <<clientVars, jobCh, todo, closing, nonces, jobOrder, report, join, job, ret, reader, osVars>>

\* The job is registered under an identifier of its own, and its attachment
\* is spent.
Register(c) ==
    /\ broker /\ bpc[c] = "register" /\ ~Registered(c)
    /\ jobOrder' = Append(jobOrder, c)
    /\ nonces' = nonces \ {c}
    /\ Goto(c, "launch")
    /\ UNCHANGED <<clientVars, req, replyCh, jobCh, todo, closing, report, join, job, ret, reader, osVars>>

\* The guardian is started in a process group of its own; or it is not, and
\* settleUnlaunched settles the job unless a retirement has claimed it.
Launch(c) ==
    /\ broker /\ bpc[c] = "launch"
    /\ \/ /\ guardian' = [guardian EXCEPT ![c] = "boot"]
          /\ Goto(c, "dispatch")
          /\ UNCHANGED <<replyCh, job, ret>>
       \/ /\ job' = [job EXCEPT ![c].retired = TRUE]
          /\ ret' = IF job[c].retired THEN ret ELSE [ret EXCEPT ![c] = "over"]
          /\ Reply(c, "refused", c)
          /\ Goto(c, "read")
          /\ UNCHANGED guardian
    /\ UNCHANGED <<clientVars, req, jobCh, todo, closing, nonces, jobOrder, report, join, reader,
                   broker, gq, target, strays>>

\* j.once: the first reason to stop a job is the one its result names.
Once(j, code) == [job[j] EXCEPT !.cancelCode = IF @ = "" THEN code ELSE @]

\* The job record is sent to the guardian and a goroutine reads its answers.
\* The send fails when a retirement has killed the guardian already.
Dispatch(c) ==
    /\ broker /\ bpc[c] = "dispatch"
    /\ IF guardian[c] = "boot"
       THEN /\ reader' = [reader EXCEPT ![c] = "first"]
            /\ Goto(c, "read")
            /\ UNCHANGED <<job, todo>>
       ELSE /\ job' = [job EXCEPT ![c] = Once(c, "INTERNAL_ERROR")]
            /\ todo' = [todo EXCEPT ![c] = <<c>>]
            /\ Goto(c, "failing")
            /\ UNCHANGED reader
    /\ UNCHANGED <<clientVars, req, replyCh, jobCh, closing, nonces, jobOrder, report, join, ret, osVars>>

DispatchFails(c) ==
    /\ broker /\ bpc[c] = "failing" /\ todo[c] = <<>>
    /\ Reply(c, "refused", c)
    /\ Goto(c, "read")
    /\ join' = [join EXCEPT ![c] = "none"]
    /\ UNCHANGED <<clientVars, req, jobCh, todo, closing, nonces, jobOrder, report, job, ret, reader, osVars>>

\* retireJob claims a job that no retirement has claimed.
Claim(j) ==
    IF job[j].retired THEN UNCHANGED ret ELSE ret' = [ret EXCEPT ![j] = "term"]
Claimed(r) == [r EXCEPT !.retired = TRUE]

\* cancel: a job that is not retired yet is, on a goroutine of its own.  One
\* code stands for the three reasons a client gives.
ServeCancel(c) ==
    /\ Receives(c, "cancel")
    /\ IF job[c].retired THEN UNCHANGED <<job, ret>>
       ELSE Claim(c) /\ job' = [job EXCEPT ![c] = Claimed(Once(c, "CANCELED"))]
    /\ UNCHANGED <<clientVars, replyCh, jobCh, brokerVars, reader, osVars>>

\* markClosingLocked: a scope that is not closing yet, and the children it has.
MarkClosing(c) ==
    closing' = IF c \in closing THEN closing
               ELSE closing \cup {c} \cup {w \in Subtree(c) : bpc[w] # "none"}

\* The registered jobs of a subtree, in order, whether retired or not.
JobsIn(c) ==
    IF c = Root THEN jobOrder ELSE IF Registered(c) THEN <<c>> ELSE <<>>

\* close: the subtree is marked closing and its jobs are retired in order.
ServeClose(c) ==
    /\ Receives(c, "close")
    /\ MarkClosing(c)
    /\ todo' = [todo EXCEPT ![c] = JobsIn(c)]
    /\ Goto(c, "retire")
    /\ UNCHANGED <<clientVars, replyCh, jobCh, nonces, jobOrder, report, join, job, ret, reader, osVars>>

\* Mutant of JoinRetirement: a job somebody else retires is not waited for.
JoinRetirementSkips(e) ==
    /\ broker /\ bpc[e] \in {"retire", "failing"} /\ todo[e] # <<>>
    /\ LET j == Head(todo[e]) IN
       /\ Claim(j) /\ job' = [job EXCEPT ![j] = Claimed(@)]
       /\ todo' = IF job[j].retired THEN [todo EXCEPT ![e] = Tail(@)] ELSE todo
    /\ UNCHANGED <<clientVars, req, replyCh, jobCh, bpc, closing, nonces, jobOrder, report, join, reader, osVars>>

\* retireJob on the next job: claim it and retire it, or join the retirement
\* that has claimed it; go on when it has settled.
JoinRetirement(e) ==
    /\ broker /\ bpc[e] \in {"retire", "failing"} /\ todo[e] # <<>>
    /\ LET j == Head(todo[e]) IN
       \/ /\ ~job[j].retired
          /\ Claim(j) /\ job' = [job EXCEPT ![j] = Claimed(@)]
          /\ join' = [join EXCEPT ![e] = "own"]
          /\ UNCHANGED todo
       \/ /\ ret[j] = "over"
          /\ todo' = [todo EXCEPT ![e] = Tail(@)]
          /\ join' = [join EXCEPT ![e] = IF @ = "own" THEN "none" ELSE @]
          /\ UNCHANGED <<job, ret>>
    /\ UNCHANGED <<clientVars, req, replyCh, jobCh, bpc, closing, nonces, jobOrder, report, reader, osVars>>

\* The join of a retirement another goroutine has claimed is bounded: when it
\* runs out, the goroutine goes on although that retirement has not settled.
JoinRunsOut(e) ==
    /\ broker /\ bpc[e] \in {"retire", "failing"} /\ todo[e] # <<>>
    /\ LET j == Head(todo[e]) IN job[j].retired /\ ret[j] # "over"
    /\ join[e] # "own"
    /\ todo' = [todo EXCEPT ![e] = Tail(@)]
    /\ join' = [join EXCEPT ![e] = "out"]
    /\ UNCHANGED <<clientVars, req, replyCh, jobCh, bpc, closing, nonces, jobOrder, report, job, ret,
                   reader, osVars>>

\* buildReport: every job of the subtree must be terminated and reaped within
\* its budget.
Settled(j) == job[j].terminated /\ job[j].reaped /\ ~job[j].exceeded
StatusOf(c) ==
    IF \A j \in Subtree(c) : Registered(j) => Settled(j) THEN "cleaned" ELSE "cleanup-failed"

\* The close is answered; the root's goroutine ends with it.
Report(c) ==
    /\ broker /\ bpc[c] = "retire" /\ todo[c] = <<>>
    /\ report' = [report EXCEPT ![c] = StatusOf(c)]
    /\ Reply(c, StatusOf(c), c)
    /\ Goto(c, IF c = Root THEN "over" ELSE "read")
    /\ join' = [join EXCEPT ![c] = "none"]
    /\ UNCHANGED <<clientVars, req, jobCh, todo, closing, nonces, jobOrder, job, ret, reader, osVars>>

\* The root channel ends when its owner is gone and everything is read.
RootChannelEnds ==
    /\ broker /\ bpc[Root] = "read" /\ req[Root] = <<>> /\ ~owner
    /\ Goto(Root, "over")
    /\ UNCHANGED <<clientVars, req, replyCh, jobCh, todo, closing, nonces, jobOrder, report, join, job, ret,
                   reader, osVars>>

\* runBroker's main goroutine: the owner is lost, the root served, or a signal
\* has come, which may be at any time.
Shutdown ==
    /\ broker /\ bpc[Main] = "read"
    /\ MarkClosing(Root)
    /\ todo' = [todo EXCEPT ![Main] = jobOrder]
    /\ Goto(Main, "retire")
    /\ UNCHANGED <<clientVars, req, replyCh, jobCh, nonces, jobOrder, report, join, job, ret, reader, osVars>>

\* It writes the ledger and returns, which ends the process.
BrokerExits ==
    /\ broker /\ bpc[Main] = "retire" /\ todo[Main] = <<>>
    /\ BrokerGone
    /\ UNCHANGED <<clientVars, replyCh, jobCh, guardian, target, strays>>

-----------------------------------------------------------------------------
(* The retirement of a job, and the goroutine that reads its guardian. *)

\* A result reaches the client only while the job's channel is registered and
\* empty: the first one wins.
ForwardResult(j, r) ==
    jobCh' = IF owner /\ jobCh[j] = <<>>
             THEN [jobCh EXCEPT ![j] = <<[exit |-> r.exit, code |-> r.cancelCode]>>]
             ELSE jobCh

\* Mutant of Signalled: a guardian the signal ends is reaped at once.
SignalledReaps(j) ==
    IF guardian[j] = "up" THEN {"drain"}
    ELSE IF guardian[j] \in {"boot", "zombie"} THEN {"reaped"} ELSE {guardian[j]}

\* What a guardian may become on SIGTERM: it drains its target; while it boots
\* the signal kills it, or is queued once the handler is installed.
Signalled(j) ==
    CASE guardian[j] = "up" -> {"drain"}
      [] guardian[j] = "boot" -> IF reader[j] = "none" THEN {"zombie"} ELSE {"zombie", "bootsig"}
      [] OTHER -> {guardian[j]}

\* SIGTERM to the job's process group.  Before the launch the group number is
\* still zero, and signalling group zero reaches the broker's own group: the
\* broker may shut down at any time after a signal, as Shutdown says.
RetireTerm(j) ==
    /\ broker /\ ret[j] = "term"
    /\ ret' = [ret EXCEPT ![j] = "kill"]
    /\ IF guardian[j] = "none"
       THEN UNCHANGED guardian
       ELSE \E next \in Signalled(j) : guardian' = [guardian EXCEPT ![j] = next]
    /\ UNCHANGED <<clientVars, req, replyCh, jobCh, brokerVars, job, reader, broker, gq, target, strays>>

\* SIGKILL to the group, and the job counts as terminated, when the reader has seen the end of the job or the
\* wait is over; a wait that ran out has used up the retirement's budget.
ResultIn(j) == reader[j] = "over"

RetireKill(j) ==
    /\ broker /\ ret[j] = "kill"
    /\ IF guardian[j] = "none"
       THEN BrokerGone /\ UNCHANGED <<guardian, target, strays>>
       ELSE /\ \/ ResultIn(j) /\ ret' = [ret EXCEPT ![j] = "reap"]
               \/ ret' = [ret EXCEPT ![j] = "late"]
            /\ guardian' = [guardian EXCEPT ![j] = IF @ \in GuardianUp THEN "zombie" ELSE @]
            /\ target' = [target EXCEPT ![j] = IF @ = "up" THEN "killed" ELSE @]
            /\ strays' = [strays EXCEPT ![j] =
                   IF target[j] \in Alive \/ @ = "up" THEN "killed" ELSE @]
            /\ job' = [job EXCEPT ![j].terminated = TRUE]
            /\ UNCHANGED <<req, brokerVars, reader, broker, gq>>
    /\ UNCHANGED <<clientVars, replyCh, jobCh>>

\* The guardian is reaped; the flags the report reads say so at once.
RetireReap(j) ==
    /\ broker /\ ret[j] \in {"reap", "late"}
    /\ ret' = [ret EXCEPT ![j] = IF @ = "reap" THEN "drain" ELSE "overdue"]
    /\ guardian' = [guardian EXCEPT ![j] = IF @ = "zombie" THEN "reaped" ELSE @]
    /\ job' = [job EXCEPT ![j].reaped = guardian[j] = "zombie",
                          ![j].terminated = guardian[j] = "zombie"]
    /\ UNCHANGED <<clientVars, req, replyCh, jobCh, brokerVars, reader, broker, gq, target, strays>>

\* Mutant of SettledJob: the group is not waited for.
SettledJobUndrained(j, late) == [job[j] EXCEPT !.exceeded = late, !.conn = FALSE]

\* Mutant of SettledJob: running out of the budget is not recorded.
SettledJobUnbounded(j, late) ==
    [job[j] EXCEPT !.terminated = job[j].reaped /\ Drained(j), !.conn = FALSE]

\* What the reap window leaves: the job is terminated if its group has drained
\* too, and the connection is closed.
SettledJob(j, late) ==
    [job[j] EXCEPT !.terminated = job[j].reaped /\ Drained(j),
                   !.exceeded = late, !.conn = FALSE]

RetireDrain(j) ==
    /\ broker /\ ret[j] \in {"drain", "overdue"}
    /\ ret' = [ret EXCEPT ![j] = "over"]
    /\ \E late \in IF ret[j] = "overdue" THEN {TRUE} ELSE BOOLEAN :
          job' = [job EXCEPT ![j] = SettledJob(j, late)]
    /\ ForwardResult(j, job[j])
    /\ UNCHANGED <<clientVars, req, replyCh, brokerVars, reader, osVars>>

\* The guardian's channel ends: it died, or the retirement closed the
\* connection.  The client is not told.
ReadEnd(j) ==
    /\ broker /\ reader[j] \in {"first", "loop"}
    /\ \/ ~job[j].conn
       \/ gq[j] = <<>> /\ guardian[j] \in {"zombie", "reaped"}
    /\ reader' = [reader EXCEPT ![j] = "over"]
    /\ job' = [job EXCEPT ![j] = Once(j, "CUSTODY_ERROR")]
    /\ UNCHANGED <<clientVars, req, replyCh, jobCh, brokerVars, ret, osVars>>

\* Mutant of Announce: the result channel is left to Run to register.
AnnounceLate(j) == Reply(j, "started", j) /\ UNCHANGED jobCh

\* The started reply; the demultiplexer registers the job's result channel
\* before it hands the reply to Run.
Announce(j) ==
    /\ Reply(j, "started", j)
    /\ jobCh' = IF owner /\ jobCh[j] = None THEN [jobCh EXCEPT ![j] = <<>>] ELSE jobCh

\* The first frame says whether the target started.  When it did not, the job
\* is retired and nothing tells that retirement that the job has ended.
ReadFirst(j) ==
    /\ broker /\ reader[j] = "first" /\ job[j].conn /\ gq[j] # <<>>
    /\ gq' = [gq EXCEPT ![j] = Tail(@)]
    /\ IF Head(gq[j]).t = "gstarted"
       THEN /\ reader' = [reader EXCEPT ![j] = "loop"]
            /\ Announce(j)
            /\ UNCHANGED <<job, ret>>
       ELSE /\ reader' = [reader EXCEPT ![j] = "failed"]
            /\ Reply(j, "refused", j)
            /\ Claim(j) /\ job' = [job EXCEPT ![j] = Claimed(Once(j, "INVALID_COMMAND"))]
            /\ UNCHANGED jobCh
    /\ UNCHANGED <<clientVars, req, brokerVars, broker, guardian, target, strays>>

\* The exit is recorded; the result of a target that ended by itself is
\* forwarded at once, that of a drained one by its retirement.
ReadExit(j) ==
    /\ broker /\ reader[j] = "loop" /\ job[j].conn /\ gq[j] # <<>>
    /\ gq' = [gq EXCEPT ![j] = Tail(@)]
    /\ reader' = [reader EXCEPT ![j] = "over"]
    /\ LET r == [job[j] EXCEPT !.exit = Head(gq[j]).exit] IN
       /\ job' = [job EXCEPT ![j] = r]
       /\ IF Head(gq[j]).t = "gexit" THEN ForwardResult(j, r) ELSE UNCHANGED jobCh
    /\ UNCHANGED <<clientVars, req, replyCh, brokerVars, ret, broker, guardian, target, strays>>

-----------------------------------------------------------------------------
(* Guardians and targets. *)

\* The guardian's end of the channel reads EOF, or it finds itself orphaned.
Released(j) == ~broker \/ ~job[j].conn

GuardianUnchanged == UNCHANGED <<clientVars, req, replyCh, jobCh, brokerVars, job, ret, reader, broker>>
Tell(j, t, exit) ==
    gq' = IF Released(j) THEN gq ELSE [gq EXCEPT ![j] = Append(@, [t |-> t, exit |-> exit])]
Becomes(j, state) == guardian' = [guardian EXCEPT ![j] = state]

\* The guardian starts its target, fails to, or finds no job to read.
GuardianStart(j) ==
    /\ guardian[j] \in {"boot", "bootsig"}
    /\ \/ /\ reader[j] # "none"
          /\ Becomes(j, IF guardian[j] = "boot" THEN "up" ELSE "drain")
          /\ target' = [target EXCEPT ![j] = "up"]
          /\ Tell(j, "gstarted", "none")
       \/ /\ reader[j] # "none"
          /\ Becomes(j, "startfail")
          /\ Tell(j, "gstartfail", "none")
          /\ UNCHANGED target
       \/ /\ reader[j] = "none" /\ Released(j)
          /\ Becomes(j, "zombie")
          /\ UNCHANGED <<gq, target>>
    /\ UNCHANGED strays /\ GuardianUnchanged

\* The target ends by itself, well or not, or dies of its SIGKILL; processes
\* it started may stay behind in the group, unless the group was killed.
TargetEnds(j) ==
    /\ target[j] = "up"
    /\ \E exit \in {"ok", "failed"}, left \in {"none", "up"} :
          /\ target' = [target EXCEPT ![j] = exit]
          /\ strays' = [strays EXCEPT ![j] = left]
    /\ UNCHANGED <<gq, guardian>> /\ GuardianUnchanged

TargetDies(j) ==
    /\ target[j] = "killed"
    /\ target' = [target EXCEPT ![j] = "failed"]
    /\ \E left \in IF strays[j] = "killed" THEN {"killed"} ELSE {"none", "up"} :
          strays' = [strays EXCEPT ![j] = left]
    /\ UNCHANGED <<gq, guardian>> /\ GuardianUnchanged

StraysEnd(j) ==
    /\ strays[j] \in Alive /\ target[j] \notin Alive
    /\ strays' = [strays EXCEPT ![j] = "none"]
    /\ UNCHANGED <<gq, guardian, target>> /\ GuardianUnchanged

\* A target that ended is reported, and the guardian waits to be released.
GuardianReport(j) ==
    /\ guardian[j] = "up" /\ target[j] \notin Alive
    /\ Tell(j, "gexit", target[j])
    /\ Becomes(j, "reported")
    /\ UNCHANGED <<target, strays>> /\ GuardianUnchanged

\* Nobody needs the target any more.
GuardianLoses(j) ==
    /\ guardian[j] = "up" /\ Released(j)
    /\ Becomes(j, "drain")
    /\ UNCHANGED <<gq, target, strays>> /\ GuardianUnchanged

\* drain: wait for the target, kill it after the grace, and report a terminal
\* exit.  Reporting one that is still there takes the grace and hardReapWindow,
\* longer than a retirement waits before it kills the guardian: nobody reads it.
GuardianDrain(j) ==
    /\ guardian[j] = "drain"
    /\ \/ /\ target[j] = "up"
          /\ target' = [target EXCEPT ![j] = "killed"]
          /\ UNCHANGED <<gq, guardian>>
       \/ /\ target[j] \notin Alive
          /\ Tell(j, "gterminal", target[j])
          /\ Becomes(j, "reported")
          /\ UNCHANGED target
    /\ UNCHANGED strays /\ GuardianUnchanged

\* Mutant of GuardianExit: the guardian waits for a release that only the
\* broker can give.
GuardianExitReleased(j) ==
    /\ guardian[j] \in {"reported", "startfail"} /\ broker /\ ~job[j].conn
    /\ Becomes(j, "zombie")
    /\ UNCHANGED <<gq, target, strays>> /\ GuardianUnchanged

GuardianExit(j) ==
    /\ guardian[j] \in {"reported", "startfail"} /\ Released(j)
    /\ Becomes(j, "zombie")
    /\ UNCHANGED <<gq, target, strays>> /\ GuardianUnchanged

\* The broker process dies.
BrokerDies ==
    /\ broker /\ BrokerGone
    /\ UNCHANGED <<clientVars, replyCh, jobCh, guardian, target, strays>>

-----------------------------------------------------------------------------
Worker(w) ==
    \/ Child(w) \/ ChildReply(w) \/ AttachReply(w) \/ RunReply(w)
    \/ RequestFails(w) \/ Cancel(w) \/ RunEnds(w) \/ CloseReply(w)

Serve(c) ==
    \/ ServeAttach(c) \/ ServeRun(c) \/ Register(c) \/ Launch(c)
    \/ Dispatch(c) \/ DispatchFails(c) \/ ServeCancel(c)

Custodian(j) ==
    \/ RetireTerm(j) \/ RetireKill(j) \/ RetireReap(j) \/ RetireDrain(j)
    \/ ReadEnd(j) \/ ReadFirst(j) \/ ReadExit(j)

Guardian(j) ==
    \/ GuardianStart(j) \/ GuardianReport(j) \/ GuardianLoses(j)
    \/ GuardianDrain(j) \/ GuardianExit(j)

Closing(c) == ServeClose(c) \/ Report(c)
Retiring(e) == JoinRetirement(e) \/ JoinRunsOut(e)
Broker == ServeChild \/ NewScope \/ RootChannelEnds \/ Shutdown \/ BrokerExits
Owner == RootReply \/ RootExit

Next ==
    \/ \E w \in Workers :
          Worker(w) \/ Serve(w) \/ Custodian(w) \/ Guardian(w)
          \/ TargetEnds(w) \/ TargetDies(w) \/ StraysEnd(w)
    \/ \E c \in Channels : Closing(c)
    \/ \E e \in Executors : Retiring(e)
    \/ Broker \/ Owner \/ CloseRoot \/ OwnerDies \/ BrokerDies

Spec == Init /\ [][Next]_vars

\* Goroutines and processes that can take a step take it, and a target that
\* was killed dies; a call's timers (the control window, the deadline that
\* cancels, the hard limit) fire.  Nobody has to start or end a target, close
\* the root, signal the broker or die.
Fairness ==
    /\ \A w \in Workers :
          /\ WF_vars(wpc[w] # "idle" /\ Worker(w))
          /\ WF_vars(Serve(w) \/ Closing(w) \/ Retiring(w))
          /\ WF_vars(RetireTerm(w) \/ RetireKill(w) \/ RetireReap(w) \/ RetireDrain(w))
          /\ WF_vars(ReadEnd(w) \/ ReadFirst(w) \/ ReadExit(w))
          /\ WF_vars(Guardian(w)) /\ WF_vars(TargetDies(w))
    /\ WF_vars(ServeChild \/ NewScope \/ RootChannelEnds \/ Closing(Root) \/ Retiring(Root))
    /\ WF_vars(((~owner \/ bpc[Root] = "over") /\ Shutdown) \/ Retiring(Main) \/ BrokerExits)
    /\ WF_vars(Owner)

FairSpec == Spec /\ Fairness

\* The shape of every variable.
TypeOK ==
    /\ owner \in BOOLEAN /\ broker \in BOOLEAN
    /\ opc \in {"open", "closing", "exit", "done"}
    /\ wpc \in [Workers -> {"idle", "child", "attach", "run", "wait", "cancel", "close", "done"}]
    /\ scope \in [Workers -> Workers \cup {None}]
    /\ outcome \in [Channels -> {"none", "success", "error"} \cup Statuses]
    /\ req \in [Channels -> Seq([t : {"childreq", "attach", "run", "cancel", "close"}, of : Channels])]
    /\ replyCh \in [Channels -> Seq([t : Replies, of : Channels])]
    /\ jobCh \in [Workers -> {None} \cup Seq([exit : Exits, code : Codes])]
    /\ bpc \in [Executors -> {"none", "read", "child", "register", "launch", "dispatch", "failing",
                              "retire", "over"}]
    /\ todo \in [Executors -> Seq(Workers)]
    /\ closing \subseteq Channels /\ nonces \subseteq Workers
    /\ jobOrder \in Seq(Workers)
    /\ job \in [Workers -> [retired : BOOLEAN, terminated : BOOLEAN, reaped : BOOLEAN,
                            exceeded : BOOLEAN, conn : BOOLEAN, cancelCode : Codes, exit : Exits]]
    /\ ret \in [Workers -> {"none", "term", "kill", "reap", "late", "drain", "overdue", "over"}]
    /\ reader \in [Workers -> {"none", "first", "loop", "over", "failed"}]
    /\ gq \in [Workers -> Seq([t : {"gstarted", "gstartfail", "gexit", "gterminal"}, exit : Exits])]
    /\ guardian \in [Workers -> {"none", "zombie", "reaped"} \cup GuardianUp]
    /\ target \in [Workers -> {"none", "ok", "failed"} \cup Alive]
    /\ strays \in [Workers -> {"none"} \cup Alive]
    /\ report \in [Channels -> {"none"} \cup Statuses]
    /\ join \in [Executors -> {"none", "own", "out"}]

\* "cleaned" is never said of a job that is still there: when a close is
\* answered so, every job registered under the scope has its guardian reaped,
\* and the job of a child scope has left its process group empty.  The one
\* exception to the second half is a close whose join ran out
\* (broker.go:882): the flags it reads may be those of a retirement that has
\* reaped the guardian and still watches the group.
CleanedIsGone ==
    [][\A c \in Channels, j \in Workers :
          /\ report[c] # "cleaned" /\ report'[c] = "cleaned"
          /\ j \in Subtree(c) /\ Registered(j)
          => guardian[j] = "reaped" /\ (c \in Workers /\ join[c] # "out" => Drained(j))]_vars

\* The close of a child scope never reports a retirement half done: whatever
\* it answers, the retirement of its job has settled, or it joined one that
\* another goroutine had claimed and waited out the whole bound of broker.go:882.
\* In that last case a failure may be reported of a job that is cleaned later.
ReportIsSettled ==
    [][\A c \in Workers :
          report[c] = "none" /\ report'[c] # "none" /\ Registered(c) =>
              ret[c] = "over" \/ join[c] = "out"]_vars

\* A group is signalled only while its guardian is not reaped: until then the
\* system cannot give the group's number to another process.
SignalsOwnGroup ==
    \A j \in Workers : ret[j] \in {"term", "kill"} => guardian[j] # "reaped"

\* A result is never lost on its way: when the retirement has settled, a Run
\* that still waits has the result in its channel.
ResultNotLost ==
    \A w \in Workers :
        wpc[w] \in {"wait", "cancel"} /\ ret[scope[w]] = "over" =>
            jobCh[scope[w]] \notin {None, <<>>}

\* runScoped succeeds only when its target ran to a successful end.
SuccessMeansCompleted ==
    \A w \in Workers :
        wpc[w] = "done" /\ outcome[w] = "success" => target[scope[w]] = "ok"

\* The root Close says "cleaned" only when nothing of the tree is left.
CleanedTreeIsEmpty ==
    opc = "done" /\ outcome[Root] = "cleaned" => \A j \in Workers : Drained(j)

\* When the owner is lost, the broker ends and nothing it launched is left.
OwnerLossCleansUp ==
    ~owner ~> ~broker /\ \A j \in Workers :
        target[j] \notin Alive /\ guardian[j] \notin GuardianUp

\* Every call of a worker returns while its process lives.
CallsReturn == \A w \in Workers : wpc[w] # "idle" ~> wpc[w] = "done"

=============================================================================
