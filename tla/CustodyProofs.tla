--------------------------- MODULE CustodyProofs ---------------------------
(***************************************************************************)
(* Proofs about Custody for any number of workers and any job limit: the   *)
(* broker signals a process group only while its number is still its own,  *)
(* and a close of a child scope that is answered "cleaned" leaves no       *)
(* process of the scope's job behind.                                      *)
(*                                                                         *)
(* Neither is inductive.  The argument is about who owns a job's fate: a   *)
(* job nobody has claimed has no retirement, a guardian is reaped only by  *)
(* a retirement that has settled, a guardian is launched once and only for *)
(* a registered job, the flags of a settled retirement are true only if    *)
(* the guardian was reaped and its group seen empty, and the close of a    *)
(* child scope has its job to retire until that retirement has settled or  *)
(* the join of it has run out.                                             *)
(***************************************************************************)
EXTENDS Custody, TLAPS

JobRecords ==
    [retired : BOOLEAN, terminated : BOOLEAN, reaped : BOOLEAN, exceeded : BOOLEAN,
     conn : BOOLEAN, cancelCode : Codes, exit : Exits]
Frames == [t : {"gstarted", "gstartfail", "gexit", "gterminal"}, exit : Exits]

Retirements == {"none", "term", "kill", "reap", "late", "drain", "overdue", "over"}
PCs == {"none", "read", "child", "register", "launch", "dispatch", "failing", "retire", "over"}

Joins == {"none", "own", "out"}

\* The shape of the variables the argument is about.
Shape ==
    /\ bpc \in [Executors -> PCs]
    /\ todo \in [Executors -> Seq(Workers)]
    /\ join \in [Executors -> Joins]
    /\ jobOrder \in Seq(Workers)
    /\ job \in [Workers -> JobRecords]
    /\ ret \in [Workers -> Retirements]
    /\ gq \in [Workers -> Seq(Frames)]
    /\ guardian \in [Workers -> {"none", "zombie", "reaped"} \cup GuardianUp]
    /\ target \in [Workers -> {"none", "ok", "failed"} \cup Alive]
    /\ strays \in [Workers -> {"none"} \cup Alive]

\* What the broker's memory and the processes of one job have to do with each
\* other.
Owned(j) ==
    /\ ~job[j].retired => ret[j] = "none"
    /\ guardian[j] = "reaped" => ret[j] \in {"drain", "overdue", "over"}
    /\ guardian[j] # "none" => Registered(j)
    /\ bpc[j] = "launch" => Registered(j) /\ guardian[j] = "none"
    /\ job[j].reaped => guardian[j] = "reaped"
    /\ job[j].reaped /\ job[j].terminated /\ ret[j] = "over" => Drained(j)
    /\ bpc[j] = "retire" => todo[j] \in {<<>>, <<j>>}
    /\ bpc[j] = "retire" /\ todo[j] = <<>> /\ Registered(j) => ret[j] = "over" \/ join[j] = "out"

\* No step changes how a close that is about to answer has joined.
JoinKept ==
    /\ join' \in [Executors -> Joins]
    /\ \A k \in Workers : bpc'[k] = "retire" /\ todo'[k] = <<>> => join'[k] = join[k]

IInv ==
    /\ Shape
    /\ broker => \A j \in Workers : Owned(j)
    /\ ~broker => \A j \in Workers : ret[j] = "none"

\* A job record that no retirement has touched.
LEMMA NewJobShape == NewJob \in JobRecords /\ ~NewJob.reaped
  BY DEF NewJob, JobRecords, Codes, Exits

\* The broker, its memory and the processes start out in the invariant.
LEMMA InitInvariant == Init => IInv
<1> SUFFICES ASSUME Init PROVE IInv
  OBVIOUS
<1>1. Shape
  <2>1. bpc \in [Executors -> PCs]
    BY DEF Init, PCs
  <2>2. jobOrder \in Seq(Workers) /\ todo \in [Executors -> Seq(Workers)]
    BY DEF Init
  <2>3. job \in [Workers -> JobRecords]
    BY NewJobShape DEF Init
  <2>4. gq \in [Workers -> Seq(Frames)]
    BY DEF Init
  <2>5. /\ ret \in [Workers -> Retirements]
        /\ guardian \in [Workers -> {"none", "zombie", "reaped"} \cup GuardianUp]
        /\ target \in [Workers -> {"none", "ok", "failed"} \cup Alive]
        /\ strays \in [Workers -> {"none"} \cup Alive]
        /\ join \in [Executors -> Joins]
    BY DEF Init, Retirements, Joins
  <2> QED BY <2>1, <2>2, <2>3, <2>4, <2>5 DEF Shape
<1>2. ASSUME NEW j \in Workers PROVE Owned(j)
  <2>1. bpc[j] = "none" /\ job[j] = NewJob /\ ret[j] = "none" /\ guardian[j] = "none"
    BY DEF Init, Executors, Channels
  <2> QED BY <2>1, NewJobShape DEF Owned
<1>3. broker
  BY DEF Init
<1> QED BY <1>1, <1>2, <1>3 DEF IInv

\* A step that joins nothing keeps how everybody joined.
LEMMA JoinStays == IInv /\ UNCHANGED join => JoinKept
  BY DEF IInv, Shape, JoinKept

\* A step that leaves a job's processes and flags alone, launches nothing and
\* forgets no registration keeps what is known of the job.
LEMMA OwnedKept ==
  ASSUME NEW k \in Workers, Owned(k),
         ret'[k] = ret[k], guardian'[k] = guardian[k],
         job[k].retired => job'[k].retired,
         job'[k].terminated = job[k].terminated, job'[k].reaped = job[k].reaped,
         Registered(k)' <=> Registered(k),
         bpc'[k] \in {"launch", "retire"} => bpc'[k] = bpc[k] /\ todo'[k] = todo[k],
         bpc'[k] = "retire" /\ todo'[k] = <<>> => join'[k] = join[k],
         Drained(k) => Drained(k)'
  PROVE  Owned(k)'
  BY DEF Owned

\* A step of goroutines that neither launches a job nor starts a close.
LEMMA BookStep ==
  ASSUME IInv, JoinKept, UNCHANGED <<jobOrder, job, ret, osVars>>,
         bpc' \in [Executors -> PCs], todo' \in [Executors -> Seq(Workers)],
         \A k \in Workers : bpc'[k] \in {"launch", "retire"} =>
                               bpc'[k] = bpc[k] /\ todo'[k] = todo[k]
  PROVE  IInv'
<1>1. Shape'
  BY DEF IInv, Shape, osVars, JoinKept
<1>2. ASSUME NEW k \in Workers, Owned(k) PROVE Owned(k)'
  <2>1. (Registered(k)' <=> Registered(k)) /\ (Drained(k) => Drained(k)')
    BY DEF Registered, Drained, osVars
  <2> QED BY <1>2, <2>1, OwnedKept DEF osVars, JoinKept
<1>3. broker' = broker /\ ret' = ret
  BY DEF osVars
<1> QED BY <1>1, <1>2, <1>3 DEF IInv

\* A step that moves one goroutine on, to neither of these.
LEMMA MoveStep ==
  ASSUME IInv, JoinKept, NEW e, NEW x \in PCs \ {"launch", "retire"},
         bpc' = [bpc EXCEPT ![e] = x],
         UNCHANGED <<todo, jobOrder, job, ret, osVars>>
  PROVE  IInv'
<1>1. bpc \in [Executors -> PCs] /\ todo' \in [Executors -> Seq(Workers)]
  BY DEF IInv, Shape
<1>2. bpc' \in [Executors -> PCs]
  BY <1>1
<1>3. ASSUME NEW k \in Workers, bpc'[k] \in {"launch", "retire"}
      PROVE  bpc'[k] = bpc[k] /\ todo'[k] = todo[k]
  BY <1>1, <1>3 DEF Executors, Channels
<1> QED BY <1>1, <1>2, <1>3, BookStep

\* Steps of clients leave everything the argument is about alone.
LEMMA FrameStep ==
  ASSUME IInv, UNCHANGED <<bpc, todo, join, jobOrder, job, ret, osVars>>
  PROVE  IInv'
<1>1. bpc' \in [Executors -> PCs] /\ todo' \in [Executors -> Seq(Workers)]
  BY DEF IInv, Shape
<1>2. JoinKept
  BY JoinStays
<1> QED BY <1>1, <1>2, BookStep

\* The end of the broker leaves no retirement.
LEMMA GoneStep ==
  ASSUME IInv, BrokerGone, UNCHANGED <<guardian, target, strays>>
  PROVE  IInv'
<1>1. bpc' \in [Executors -> PCs] /\ jobOrder' \in Seq(Workers)
  BY DEF BrokerGone, PCs
<1>2. todo' \in [Executors -> Seq(Workers)]
  BY DEF BrokerGone
<1>3. job' \in [Workers -> JobRecords]
  BY NewJobShape DEF BrokerGone
<1>4. gq' \in [Workers -> Seq(Frames)]
  BY DEF BrokerGone
<1>5. ret' \in [Workers -> Retirements]
  BY DEF BrokerGone, Retirements
<1>j. join' \in [Executors -> Joins]
  BY DEF BrokerGone, Joins
<1>6. Shape'
  BY <1>1, <1>2, <1>3, <1>4, <1>5, <1>j DEF IInv, Shape
<1> QED BY <1>6 DEF IInv, BrokerGone

\* A worker touches neither the broker's memory nor a process.
LEMMA ClientStep ==
  ASSUME IInv,
         NEW w \in Workers, Worker(w)
  PROVE  IInv'
<1>1. UNCHANGED <<bpc, todo, join, jobOrder, job, ret, osVars>>
  <2>1. CASE Child(w) BY <2>1 DEF Child, brokerVars
  <2>2. CASE ChildReply(w) BY <2>2 DEF ChildReply, brokerVars
  <2>3. CASE AttachReply(w) BY <2>3 DEF AttachReply, brokerVars
  <2>4. CASE RunReply(w) BY <2>4 DEF RunReply, brokerVars
  <2>5. CASE RequestFails(w) BY <2>5 DEF RequestFails, brokerVars
  <2>6. CASE Cancel(w) BY <2>6 DEF Cancel, brokerVars
  <2>7. CASE RunEnds(w) BY <2>7 DEF RunEnds, brokerVars
  <2>8. CASE CloseReply(w) BY <2>8 DEF CloseReply, brokerVars
  <2> QED BY <2>1, <2>2, <2>3, <2>4, <2>5, <2>6, <2>7, <2>8 DEF Worker
<1> QED BY <1>1, FrameStep

\* The owner does so only by ending the broker.
LEMMA OwnerStep ==
  ASSUME IInv, Owner \/ CloseRoot \/ OwnerDies \/ BrokerDies
  PROVE  IInv'
<1>1. CASE RootReply
  <2>1. UNCHANGED <<bpc, todo, join, jobOrder, job, ret, osVars>>
    BY <1>1 DEF RootReply, brokerVars
  <2> QED BY <2>1, FrameStep
<1>2. CASE CloseRoot
  <2>1. UNCHANGED <<bpc, todo, join, jobOrder, job, ret, osVars>>
    BY <1>2 DEF CloseRoot, brokerVars
  <2> QED BY <2>1, FrameStep
<1>3. CASE OwnerDies
  <2>1. UNCHANGED <<bpc, todo, join, jobOrder, job, ret, osVars>>
    BY <1>3 DEF OwnerDies, brokerVars
  <2> QED BY <2>1, FrameStep
<1>4. CASE BrokerDies
  BY <1>4, GoneStep DEF BrokerDies
<1>5. CASE RootExit
  <2>1. CASE BrokerGone
    BY <1>5, <2>1, GoneStep DEF RootExit
  <2>2. CASE ~BrokerGone
    <3>1. UNCHANGED <<bpc, todo, join, jobOrder, job, ret, osVars>>
      BY <1>5, <2>2 DEF RootExit, brokerVars, osVars
    <3> QED BY <3>1, FrameStep
  <2> QED BY <2>1, <2>2
<1> QED BY <1>1, <1>2, <1>3, <1>4, <1>5 DEF Owner

\* Steps that only move a goroutine of the broker on.
LEMMA DeskStep ==
  ASSUME IInv,
         \/ ServeChild \/ NewScope \/ RootChannelEnds
         \/ \E c \in Channels : Report(c)
         \/ \E c \in Workers : ServeAttach(c) \/ ServeRun(c) \/ DispatchFails(c)
  PROVE  IInv'
<1>0. {"read", "child", "register", "over"} \subseteq PCs \ {"launch", "retire"}
  BY DEF PCs
<1>1. UNCHANGED <<todo, jobOrder, job, ret, osVars>>
  BY DEF ServeChild, NewScope, RootChannelEnds, Report, ServeAttach, ServeRun, DispatchFails
<1>j. JoinKept
  <2>1. CASE UNCHANGED join
    BY <2>1 DEF JoinKept, IInv, Shape
  <2>2. ASSUME NEW c \in Channels, join' = [join EXCEPT ![c] = "none"],
               bpc' = [bpc EXCEPT ![c] = "over"] \/ bpc' = [bpc EXCEPT ![c] = "read"]
        PROVE  JoinKept
    <3>1. join' \in [Executors -> Joins]
      BY <2>2 DEF IInv, Shape, Joins
    <3>2. ASSUME NEW k \in Workers, bpc'[k] = "retire" PROVE join'[k] = join[k]
      <4>1. k # c
        BY <2>2, <3>2 DEF IInv, Shape, Executors, Channels
      <4> QED BY <2>2, <4>1 DEF IInv, Shape, Executors, Channels
    <3> QED BY <3>1, <3>2 DEF JoinKept
  <2> QED BY <2>1, <2>2 DEF ServeChild, NewScope, RootChannelEnds, Report, ServeAttach,
                            ServeRun, DispatchFails, Goto, Channels
<1>2. CASE UNCHANGED bpc
  <2>1. bpc' \in [Executors -> PCs] /\ todo' \in [Executors -> Seq(Workers)]
    BY <1>1, <1>2 DEF IInv, Shape
  <2> QED BY <1>1, <1>2, <1>j, <2>1, BookStep
<1>3. CASE ServeChild \/ RootChannelEnds
  <2>1. UNCHANGED bpc \/ bpc' = [bpc EXCEPT ![Root] = "child"] \/ bpc' = [bpc EXCEPT ![Root] = "over"]
    BY <1>3 DEF ServeChild, RootChannelEnds, Goto
  <2> QED BY <1>0, <1>1, <1>2, <1>j, <2>1, MoveStep
<1>4. CASE NewScope
  <2> DEFINE s == Head(req[Root]).of
  <2>1. bpc' = [bpc EXCEPT ![Root] = "read", ![s] = "read"]
    BY <1>4 DEF NewScope
  <2>2. bpc \in [Executors -> PCs] /\ todo' \in [Executors -> Seq(Workers)]
    BY <1>1 DEF IInv, Shape
  <2> HIDE DEF s
  <2>3. bpc' \in [Executors -> PCs]
    BY <1>0, <2>1, <2>2
  <2>4. ASSUME NEW k \in Workers, bpc'[k] \in {"launch", "retire"}
        PROVE  bpc'[k] = bpc[k] /\ todo'[k] = todo[k]
    BY <1>1, <2>1, <2>2, <2>4 DEF Executors, Channels
  <2> QED BY <1>1, <2>2, <2>3, <2>4, <1>j, BookStep
<1>5. ASSUME NEW c \in Channels, Report(c) PROVE IInv'
  <2>1. bpc' = [bpc EXCEPT ![c] = "over"] \/ bpc' = [bpc EXCEPT ![c] = "read"]
    BY <1>5 DEF Report, Goto
  <2> QED BY <1>0, <1>1, <1>j, <2>1, MoveStep
<1>6. ASSUME NEW c \in Workers, ServeAttach(c) \/ ServeRun(c) \/ DispatchFails(c) PROVE IInv'
  <2>1. UNCHANGED bpc \/ bpc' = [bpc EXCEPT ![c] = "register"] \/ bpc' = [bpc EXCEPT ![c] = "read"]
    BY <1>6 DEF ServeAttach, ServeRun, DispatchFails, Goto
  <2> QED BY <1>0, <1>1, <1>2, <1>j, <2>1, MoveStep
<1> QED BY <1>3, <1>4, <1>5, <1>6

\* A close of a child scope has the scope's job to retire, if it has one.
LEMMA CloseStep ==
  ASSUME IInv, Shutdown \/ \E c \in Channels : ServeClose(c)
  PROVE  IInv'
<1>1. UNCHANGED <<jobOrder, job, ret, join, osVars>>
  BY DEF Shutdown, ServeClose
<1>j. JoinKept
  BY <1>1, JoinStays
<1>2. bpc \in [Executors -> PCs] /\ todo \in [Executors -> Seq(Workers)] /\ jobOrder \in Seq(Workers)
  BY DEF IInv, Shape
<1>3. ASSUME NEW e \in {Root, Main}, bpc' = [bpc EXCEPT ![e] = "retire"],
             todo' = [todo EXCEPT ![e] = jobOrder]
      PROVE  IInv'
  <2>1. bpc' \in [Executors -> PCs] /\ todo' \in [Executors -> Seq(Workers)]
    BY <1>2, <1>3 DEF PCs
  <2>2. ASSUME NEW k \in Workers PROVE bpc'[k] = bpc[k] /\ todo'[k] = todo[k]
    BY <1>2, <1>3, NamesAssumption DEF Executors, Channels
  <2> QED BY <1>1, <1>j, <2>1, <2>2, BookStep
<1>4. ASSUME NEW c \in Workers, ServeClose(c) PROVE IInv'
  <2>1. /\ broker /\ bpc' = [bpc EXCEPT ![c] = "retire"]
        /\ todo' = [todo EXCEPT ![c] = IF Registered(c) THEN <<c>> ELSE <<>>]
    BY <1>4, NamesAssumption DEF ServeClose, Receives, Goto, JobsIn
  <2>2. bpc' \in [Executors -> PCs] /\ todo' \in [Executors -> Seq(Workers)]
    <3>1. bpc' \in [Executors -> PCs]
      BY <1>2, <2>1 DEF PCs
    <3>2. <<c>> \in Seq(Workers) /\ <<>> \in Seq(Workers)
      OBVIOUS
    <3> QED BY <1>2, <2>1, <3>1, <3>2
  <2>3. Shape'
    BY <1>1, <2>2 DEF IInv, Shape, osVars
  <2>4. ASSUME NEW k \in Workers PROVE Owned(k)'
    <3>1. /\ Owned(k) /\ (Registered(k)' <=> Registered(k)) /\ (Drained(k) => Drained(k)')
          /\ c \in Executors /\ k \in Executors
      BY <1>1, <2>1 DEF IInv, Registered, Drained, osVars, Executors, Channels
    <3>2. CASE k # c
      <4>1. bpc'[k] = bpc[k] /\ todo'[k] = todo[k]
        BY <1>2, <2>1, <3>1, <3>2
      <4> QED BY <1>1, <3>1, <4>1, OwnedKept DEF osVars, JoinKept
    <3>3. CASE k = c
      <4>1. bpc'[k] = "retire" /\ todo'[k] = IF Registered(k) THEN <<k>> ELSE <<>>
        BY <1>2, <2>1, <3>1, <3>3
      <4>2. <<k>> # <<>>
        OBVIOUS
      <4> QED BY <1>1, <3>1, <4>1, <4>2 DEF Owned, osVars
    <3> QED BY <3>2, <3>3
  <2> QED BY <1>1, <2>1, <2>3, <2>4 DEF IInv, osVars
<1> QED BY <1>3, <1>4 DEF Shutdown, ServeClose, Goto, JobsIn, Channels

\* A job is registered once and stays registered: its launch is the first.
LEMMA RegisterStep ==
  ASSUME IInv, NEW c \in Workers, Register(c)
  PROVE  IInv'
<1>1. /\ jobOrder' = Append(jobOrder, c) /\ bpc' = [bpc EXCEPT ![c] = "launch"]
      /\ broker /\ ~Registered(c)
      /\ UNCHANGED <<todo, join, job, ret, osVars>>
  BY DEF Register, Goto
<1>2. jobOrder' \in Seq(Workers)
  BY <1>1 DEF IInv, Shape
<1>3. bpc' \in [Executors -> PCs]
  BY <1>1 DEF IInv, Shape, PCs
<1>4. Shape'
  BY <1>1, <1>2, <1>3 DEF IInv, Shape, osVars
<1>5. ASSUME NEW k \in Workers PROVE Owned(k)'
  <2>1. Owned(k)
    BY <1>1 DEF IInv
  <2>2. Registered(k) => Registered(k)'
    <3> SUFFICES ASSUME NEW i \in DOMAIN jobOrder, jobOrder[i] = k PROVE Registered(k)'
      BY DEF Registered
    <3>1. i \in DOMAIN jobOrder' /\ jobOrder'[i] = k
      BY <1>1 DEF IInv, Shape
    <3> QED BY <3>1 DEF Registered
  <2>3. Drained(k) => Drained(k)'
    BY <1>1 DEF Drained, osVars
  <2>4. CASE k # c
    <3>1. bpc'[k] = bpc[k]
      BY <1>1, <2>4 DEF IInv, Shape, Executors, Channels
    <3>2. Registered(k)' => Registered(k)
      <4> SUFFICES ASSUME NEW i \in DOMAIN jobOrder', jobOrder'[i] = k PROVE Registered(k)
        BY DEF Registered
      <4>1. i \in DOMAIN jobOrder /\ jobOrder[i] = k
        BY <1>1, <2>4 DEF IInv, Shape
      <4> QED BY <4>1 DEF Registered
    <3> QED BY <1>1, <2>1, <2>2, <2>3, <3>1, <3>2, OwnedKept DEF osVars, JoinKept
  <2>5. CASE k = c
    <3>1. Registered(k)'
      <4>1. Len(jobOrder) + 1 \in DOMAIN jobOrder' /\ jobOrder'[Len(jobOrder) + 1] = c
        BY <1>1 DEF IInv, Shape
      <4> QED BY <4>1, <2>5 DEF Registered
    <3>2. guardian[k] = "none"
      BY <1>1, <2>1, <2>5 DEF Owned
    <3>3. bpc'[k] = "launch"
      BY <1>1, <2>5 DEF IInv, Shape, Executors, Channels
    <3> QED BY <1>1, <2>1, <2>3, <3>1, <3>2, <3>3 DEF Owned, osVars
  <2> QED BY <2>4, <2>5
<1> QED BY <1>1, <1>4, <1>5 DEF IInv, osVars

\* A guardian is launched for a registered job that had none, or the job is
\* settled without one.
LEMMA LaunchStep ==
  ASSUME IInv, NEW c \in Workers, Launch(c)
  PROVE  IInv'
<1>1. /\ broker /\ bpc[c] = "launch" /\ Owned(c)
      /\ UNCHANGED <<todo, join, jobOrder, broker, gq, target, strays>>
  BY DEF Launch, IInv
<1>2. Registered(c) /\ guardian[c] = "none" /\ c \in Executors
  BY <1>1 DEF Owned, Executors, Channels
<1>3. CASE /\ guardian' = [guardian EXCEPT ![c] = "boot"]
           /\ bpc' = [bpc EXCEPT ![c] = "dispatch"]
           /\ UNCHANGED <<job, ret>>
  <2>1. Shape'
    BY <1>1, <1>3 DEF IInv, Shape, PCs, GuardianUp
  <2>2. ASSUME NEW k \in Workers PROVE Owned(k)'
    <3>1. Owned(k) /\ (Registered(k)' <=> Registered(k)) /\ (Drained(k) => Drained(k)')
      BY <1>1 DEF IInv, Registered, Drained
    <3>2. CASE k # c
      <4>1. guardian'[k] = guardian[k] /\ bpc'[k] = bpc[k]
        BY <1>3, <3>2 DEF IInv, Shape, Executors, Channels
      <4> QED BY <1>1, <1>3, <3>1, <4>1, OwnedKept DEF JoinKept
    <3>3. CASE k = c
      <4>1. guardian'[k] = "boot" /\ bpc'[k] = "dispatch"
        BY <1>2, <1>3, <3>3 DEF IInv, Shape
      <4> QED BY <1>2, <1>3, <3>1, <3>3, <4>1 DEF Owned
    <3> QED BY <3>2, <3>3
  <2> QED BY <1>1, <2>1, <2>2 DEF IInv
<1>4. CASE /\ job' = [job EXCEPT ![c].retired = TRUE]
           /\ ret' = IF job[c].retired THEN ret ELSE [ret EXCEPT ![c] = "over"]
           /\ bpc' = [bpc EXCEPT ![c] = "read"]
           /\ UNCHANGED guardian
  <2>1. job' \in [Workers -> JobRecords]
    <3>1. [job[c] EXCEPT !.retired = TRUE] \in JobRecords
      BY DEF IInv, Shape, JobRecords
    <3>2. job' = [job EXCEPT ![c] = [job[c] EXCEPT !.retired = TRUE]]
      BY <1>4
    <3> QED BY <3>1, <3>2 DEF IInv, Shape
  <2>2. Shape'
    BY <1>1, <1>4, <2>1 DEF IInv, Shape, PCs, Retirements
  <2>3. ASSUME NEW k \in Workers PROVE Owned(k)'
    <3>1. Owned(k) /\ (Registered(k)' <=> Registered(k)) /\ (Drained(k) => Drained(k)')
      BY <1>1 DEF IInv, Registered, Drained
    <3>2. CASE k # c
      <4>1. job'[k] = job[k] /\ ret'[k] = ret[k] /\ bpc'[k] = bpc[k]
        BY <1>4, <3>2 DEF IInv, Shape, Executors, Channels
      <4> QED BY <1>1, <1>4, <3>1, <4>1, OwnedKept DEF JoinKept
    <3>3. CASE k = c
      <4>1. bpc'[k] = "read" /\ ret'[k] \in {ret[k], "over"}
        BY <1>2, <1>4, <3>3 DEF IInv, Shape
      <4>2. /\ job'[k].retired /\ job'[k].terminated = job[k].terminated
            /\ job'[k].reaped = job[k].reaped
        BY <1>4, <3>3 DEF IInv, Shape, JobRecords
      <4> QED BY <1>2, <1>4, <3>1, <3>3, <4>1, <4>2 DEF Owned
    <3> QED BY <3>2, <3>3
  <2> QED BY <1>1, <2>2, <2>3 DEF IInv
<1> QED BY <1>3, <1>4 DEF Launch, Goto

\* A step about one job leaves what is known of the others alone.
LEMMA OneJob ==
  ASSUME IInv, JoinKept, NEW j \in Workers, Shape', broker => Owned(j)',
         UNCHANGED <<broker, jobOrder>>, ~broker => ret' = ret,
         \A k \in Workers \ {j} :
            /\ job'[k] = job[k] /\ ret'[k] = ret[k] /\ bpc'[k] = bpc[k] /\ todo'[k] = todo[k]
            /\ guardian'[k] = guardian[k] /\ target'[k] = target[k] /\ strays'[k] = strays[k]
  PROVE  IInv'
<1>1. ASSUME NEW k \in Workers \ {j}, broker PROVE Owned(k)'
  <2>1. Owned(k)
    BY <1>1 DEF IInv
  <2>2. (Registered(k)' <=> Registered(k)) /\ (Drained(k) => Drained(k)')
    BY DEF Registered, Drained
  <2> QED BY <2>1, <2>2, OwnedKept DEF JoinKept
<1>2. broker' => \A k \in Workers : Owned(k)'
  BY <1>1
<1>3. ~broker' => \A k \in Workers : ret'[k] = "none"
  BY DEF IInv
<1> QED BY <1>2, <1>3 DEF IInv

\* The record of a job changes without its end being claimed, or is claimed
\* by the one retirement it will have.
LEMMA RecordStep ==
  ASSUME IInv, JoinKept, broker, NEW j \in Workers, NEW r \in JobRecords,
         r.terminated = job[j].terminated, r.reaped = job[j].reaped,
         job' = [job EXCEPT ![j] = r],
         \/ ret' = ret /\ (job[j].retired => r.retired)
         \/ ret' = [ret EXCEPT ![j] = "term"] /\ ~job[j].retired /\ r.retired,
         \/ UNCHANGED <<bpc, todo>>
         \/ bpc' = [bpc EXCEPT ![j] = "failing"] /\ todo' = [todo EXCEPT ![j] = <<j>>],
         gq' \in [Workers -> Seq(Frames)],
         UNCHANGED <<jobOrder, broker, guardian, target, strays>>
  PROVE  IInv'
<1>1. Shape'
  <2>1. job' \in [Workers -> JobRecords] /\ bpc' \in [Executors -> PCs]
    BY DEF IInv, Shape, PCs
  <2>2. ret' \in [Workers -> Retirements]
    BY DEF IInv, Shape, Retirements
  <2>3. todo' \in [Executors -> Seq(Workers)]
    <3>1. <<j>> \in Seq(Workers)
      OBVIOUS
    <3> QED BY <3>1 DEF IInv, Shape
  <2> QED BY <2>1, <2>2, <2>3 DEF IInv, Shape, JoinKept
<1>2. Owned(j)'
  <2>1. Owned(j) /\ (Registered(j)' <=> Registered(j)) /\ (Drained(j) => Drained(j)')
    BY DEF IInv, Registered, Drained
  <2>2. /\ job'[j] = r
        /\ bpc'[j] \in {"launch", "retire"} => bpc'[j] = bpc[j] /\ todo'[j] = todo[j]
    BY DEF IInv, Shape, Executors, Channels
  <2>3. CASE ret' = ret /\ (job[j].retired => r.retired)
    BY <2>1, <2>2, <2>3, OwnedKept DEF JoinKept
  <2>4. CASE ret' = [ret EXCEPT ![j] = "term"] /\ ~job[j].retired /\ r.retired
    <3>1. ret'[j] = "term" /\ guardian[j] # "reaped" /\ ret[j] = "none"
      BY <2>1, <2>4 DEF IInv, Shape, Owned
    <3> QED BY <2>1, <2>2, <2>4, <3>1 DEF Owned, JoinKept
  <2> QED BY <2>3, <2>4
<1>3. \A k \in Workers \ {j} :
         job'[k] = job[k] /\ ret'[k] = ret[k] /\ bpc'[k] = bpc[k] /\ todo'[k] = todo[k]
  BY DEF IInv, Shape, Executors, Channels
<1> QED BY <1>1, <1>2, <1>3, OneJob

\* Recording a reason and claiming a job touch no other field.
LEMMA RecordFields ==
  ASSUME IInv, NEW j \in Workers, NEW code \in Codes, NEW exit \in Exits
  PROVE  /\ job[j] \in JobRecords
         /\ Once(j, code) \in JobRecords
         /\ Once(j, code).retired = job[j].retired
         /\ Once(j, code).terminated = job[j].terminated
         /\ Once(j, code).reaped = job[j].reaped
         /\ \A r \in JobRecords :
               /\ Claimed(r) \in JobRecords
               /\ Claimed(r).retired
               /\ Claimed(r).terminated = r.terminated /\ Claimed(r).reaped = r.reaped
               /\ [r EXCEPT !.exit = exit] \in JobRecords
               /\ [r EXCEPT !.exit = exit].retired = r.retired
               /\ [r EXCEPT !.exit = exit].terminated = r.terminated
               /\ [r EXCEPT !.exit = exit].reaped = r.reaped
<1>1. job[j] \in JobRecords
  BY DEF IInv, Shape
<1>2. /\ Once(j, code) \in JobRecords
      /\ Once(j, code).retired = job[j].retired
      /\ Once(j, code).terminated = job[j].terminated
      /\ Once(j, code).reaped = job[j].reaped
  BY <1>1 DEF Once, JobRecords
<1>3. ASSUME NEW r \in JobRecords
      PROVE  /\ Claimed(r) \in JobRecords
             /\ Claimed(r).retired
             /\ Claimed(r).terminated = r.terminated /\ Claimed(r).reaped = r.reaped
             /\ [r EXCEPT !.exit = exit] \in JobRecords
             /\ [r EXCEPT !.exit = exit].retired = r.retired
             /\ [r EXCEPT !.exit = exit].terminated = r.terminated
             /\ [r EXCEPT !.exit = exit].reaped = r.reaped
  BY <1>3 DEF Claimed, JobRecords
<1> QED BY <1>1, <1>2, <1>3

\* A job is sent to its guardian, or recorded as undeliverable.
LEMMA DispatchStep ==
  ASSUME IInv, NEW c \in Workers, Dispatch(c)
  PROVE  IInv'
<1>1. broker /\ UNCHANGED <<join, jobOrder, ret, osVars>>
  BY DEF Dispatch
<1>j. JoinKept
  BY <1>1, JoinStays
<1>2. CASE UNCHANGED <<job, todo>> /\ bpc' = [bpc EXCEPT ![c] = "read"]
  <2>1. "read" \in PCs \ {"launch", "retire"}
    BY DEF PCs
  <2> QED BY <1>1, <1>j, <1>2, <2>1, MoveStep
<1>3. CASE /\ job' = [job EXCEPT ![c] = Once(c, "INTERNAL_ERROR")]
           /\ bpc' = [bpc EXCEPT ![c] = "failing"] /\ todo' = [todo EXCEPT ![c] = <<c>>]
  <2>1. "INTERNAL_ERROR" \in Codes /\ "ok" \in Exits
    BY DEF Codes, Exits
  <2>2. gq' \in [Workers -> Seq(Frames)] /\ UNCHANGED <<broker, guardian, target, strays>>
    BY <1>1 DEF IInv, Shape, osVars
  <2> QED BY <1>1, <1>j, <1>3, <2>1, <2>2, RecordFields, RecordStep
<1> QED BY <1>2, <1>3 DEF Dispatch, Goto

\* A cancellation claims a job nobody has claimed.
LEMMA CancelStep ==
  ASSUME IInv, NEW c \in Workers, ServeCancel(c)
  PROVE  IInv'
<1>1. broker /\ UNCHANGED <<bpc, todo, join, jobOrder, osVars>>
  BY DEF ServeCancel, Receives, brokerVars
<1>2. CASE UNCHANGED <<job, ret>>
  BY <1>1, <1>2, FrameStep
<1>3. CASE /\ ~job[c].retired /\ ret' = [ret EXCEPT ![c] = "term"]
           /\ job' = [job EXCEPT ![c] = Claimed(Once(c, "CANCELED"))]
  <2>1. "CANCELED" \in Codes /\ "ok" \in Exits
    BY DEF Codes, Exits
  <2>2. gq' \in [Workers -> Seq(Frames)] /\ UNCHANGED <<broker, guardian, target, strays>>
    BY <1>1 DEF IInv, Shape, osVars
  <2>3. LET r == Claimed(Once(c, "CANCELED"))
        IN  /\ r \in JobRecords /\ r.retired
            /\ r.terminated = job[c].terminated /\ r.reaped = job[c].reaped
    <3>1. /\ Once(c, "CANCELED") \in JobRecords
          /\ Once(c, "CANCELED").terminated = job[c].terminated
          /\ Once(c, "CANCELED").reaped = job[c].reaped
      BY <2>1, RecordFields
    <3> QED BY <2>1, <3>1, RecordFields
  <2> QED BY <1>1, <1>3, <2>2, <2>3, JoinStays, RecordStep
<1> QED BY <1>2, <1>3 DEF ServeCancel, Claim

\* A close, a failed dispatch or the broker's end claims a job nobody has
\* claimed, or goes on: when the retirement has settled, or when its join has
\* run out.
LEMMA JoinStep ==
  ASSUME IInv, NEW e \in Executors, JoinRetirement(e) \/ JoinRunsOut(e)
  PROVE  IInv'
<1> DEFINE j == Head(todo[e])
<1>1. /\ broker /\ UNCHANGED <<bpc, jobOrder, osVars>>
      /\ todo \in [Executors -> Seq(Workers)] /\ todo[e] # <<>> /\ bpc[e] # "launch"
      /\ join \in [Executors -> Joins]
  BY DEF JoinRetirement, JoinRunsOut, IInv, Shape
<1>2. j \in Workers
  <2>1. todo[e] \in Seq(Workers) /\ todo[e] # <<>>
    BY <1>1
  <2> QED BY <2>1
<1>3. ASSUME UNCHANGED <<job, ret>>, todo' = [todo EXCEPT ![e] = Tail(todo[e])],
             NEW x \in Joins, join' = [join EXCEPT ![e] = x], ret[j] = "over" \/ x = "out"
      PROVE  IInv'
  <2> HIDE DEF j
  <2>1. todo' \in [Executors -> Seq(Workers)]
    <3>1. todo[e] \in Seq(Workers) /\ todo[e] # <<>>
      BY <1>1
    <3>2. Tail(todo[e]) \in Seq(Workers)
      BY <3>1
    <3> QED BY <1>1, <1>3, <3>2
  <2>2. Shape'
    BY <1>1, <1>3, <2>1 DEF IInv, Shape, osVars
  <2>3. ASSUME NEW k \in Workers PROVE Owned(k)'
    <3>1. /\ Owned(k) /\ (Registered(k)' <=> Registered(k)) /\ (Drained(k) => Drained(k)')
          /\ k \in Executors
      BY <1>1 DEF IInv, Registered, Drained, osVars, Executors, Channels
    <3>2. CASE k # e
      <4>1. todo'[k] = todo[k] /\ join'[k] = join[k]
        BY <1>1, <1>3, <3>1, <3>2
      <4> QED BY <1>1, <1>3, <3>1, <4>1, OwnedKept DEF osVars
    <3>3. CASE k = e /\ bpc[k] # "retire"
      BY <1>1, <1>3, <3>1, <3>3, OwnedKept DEF osVars
    <3>4. CASE k = e /\ bpc[k] = "retire"
      <4>1. todo[e] = <<k>>
        BY <1>1, <3>1, <3>4 DEF Owned
      <4>2. j = k /\ Tail(todo[e]) = <<>>
        BY <4>1 DEF j
      <4>3. todo'[k] = <<>> /\ (ret[k] = "over" \/ join'[k] = "out")
        BY <1>1, <1>3, <3>1, <3>4, <4>2
      <4> QED BY <1>1, <1>3, <3>1, <4>3 DEF Owned, osVars
    <3> QED BY <3>2, <3>3, <3>4
  <2> QED BY <1>1, <2>2, <2>3 DEF IInv, osVars
<1>4. ASSUME ~job[j].retired, ret' = [ret EXCEPT ![j] = "term"], UNCHANGED todo,
             job' = [job EXCEPT ![j] = Claimed(job[j])], join' = [join EXCEPT ![e] = "own"]
      PROVE  IInv'
  <2> HIDE DEF j
  <2>1. "CANCELED" \in Codes /\ "ok" \in Exits
    BY DEF Codes, Exits
  <2>2. gq' \in [Workers -> Seq(Frames)] /\ UNCHANGED <<broker, guardian, target, strays>>
    BY <1>1 DEF IInv, Shape, osVars
  <2>3. LET r == Claimed(job[j])
        IN  /\ r \in JobRecords /\ r.retired
            /\ r.terminated = job[j].terminated /\ r.reaped = job[j].reaped
    BY <1>2, <2>1, RecordFields
  <2>4. JoinKept
    <3>1. join' \in [Executors -> Joins]
      BY <1>1, <1>4 DEF Joins
    <3>2. ASSUME NEW k \in Workers, todo'[k] = <<>> PROVE join'[k] = join[k]
      <4>1. k # e /\ k \in Executors
        BY <1>1, <1>4, <3>2 DEF Executors, Channels
      <4> QED BY <1>1, <1>4, <4>1
    <3> QED BY <3>1, <3>2 DEF JoinKept
  <2> QED BY <1>1, <1>2, <1>4, <2>2, <2>3, <2>4, RecordStep
<1>5. CASE JoinRunsOut(e)
  <2>1. "out" \in Joins
    BY DEF Joins
  <2> QED BY <1>3, <1>5, <2>1 DEF JoinRunsOut
<1>6. CASE JoinRetirement(e)
  <2>1. "none" \in Joins /\ join[e] \in Joins
    BY <1>1 DEF Joins
  <2> QED BY <1>3, <1>4, <1>6, <2>1 DEF JoinRetirement, Claim
<1> QED BY <1>5, <1>6

\* The reader of a guardian records how its job ended; it claims a job whose
\* target did not start.
LEMMA ReaderStep ==
  ASSUME IInv, NEW j \in Workers, ReadEnd(j) \/ ReadFirst(j) \/ ReadExit(j)
  PROVE  IInv'
<1>1. broker /\ UNCHANGED <<bpc, todo, join, jobOrder, broker, guardian, target, strays>>
  BY DEF ReadEnd, ReadFirst, ReadExit, brokerVars, osVars
<1>2. {"CUSTODY_ERROR", "INVALID_COMMAND"} \subseteq Codes /\ "ok" \in Exits
  BY DEF Codes, Exits
<1>3. ASSUME gq[j] # <<>> PROVE Head(gq[j]).exit \in Exits
  <2>1. gq[j] \in Seq(Frames)
    BY DEF IInv, Shape
  <2>2. Head(gq[j]) \in Frames
    BY <1>3, <2>1
  <2> QED BY <2>2 DEF Frames
<1>4. gq' \in [Workers -> Seq(Frames)]
  <2>1. CASE UNCHANGED gq
    BY <2>1 DEF IInv, Shape
  <2>2. CASE gq[j] # <<>> /\ gq' = [gq EXCEPT ![j] = Tail(@)]
    <3>1. gq[j] \in Seq(Frames)
      BY DEF IInv, Shape
    <3>2. Tail(gq[j]) \in Seq(Frames)
      BY <2>2, <3>1
    <3> QED BY <2>2, <3>2 DEF IInv, Shape
  <2> QED BY <2>1, <2>2 DEF ReadEnd, ReadFirst, ReadExit, osVars
<1>5. CASE ReadEnd(j)
  <2>1. job' = [job EXCEPT ![j] = Once(j, "CUSTODY_ERROR")] /\ ret' = ret
    BY <1>5 DEF ReadEnd
  <2> QED BY <1>1, <1>2, <1>4, <2>1, RecordFields, JoinStays, RecordStep
<1>6. CASE ReadFirst(j)
  <2>1. CASE UNCHANGED <<job, ret>>
    <3>1. "ok" \in Exits /\ job[j] \in JobRecords /\ job' = [job EXCEPT ![j] = job[j]]
      BY <1>2, <2>1, RecordFields DEF IInv, Shape
    <3> QED BY <1>1, <1>4, <2>1, <3>1, JoinStays, RecordStep
  <2>2. CASE Claim(j) /\ job' = [job EXCEPT ![j] = Claimed(Once(j, "INVALID_COMMAND"))]
    <3>1. LET r == Claimed(Once(j, "INVALID_COMMAND"))
          IN  /\ r \in JobRecords /\ r.retired
              /\ r.terminated = job[j].terminated /\ r.reaped = job[j].reaped
      <4>1. /\ Once(j, "INVALID_COMMAND") \in JobRecords
            /\ Once(j, "INVALID_COMMAND").terminated = job[j].terminated
            /\ Once(j, "INVALID_COMMAND").reaped = job[j].reaped
        BY <1>2, RecordFields
      <4> QED BY <1>2, <4>1, RecordFields
    <3>2. \/ ret' = ret
          \/ ret' = [ret EXCEPT ![j] = "term"] /\ ~job[j].retired
      BY <2>2 DEF Claim
    <3> QED BY <1>1, <1>4, <2>2, <3>1, <3>2, JoinStays, RecordStep
  <2> QED BY <1>6, <2>1, <2>2 DEF ReadFirst
<1>7. CASE ReadExit(j)
  <2>1. /\ job' = [job EXCEPT ![j] = [job[j] EXCEPT !.exit = Head(gq[j]).exit]]
        /\ ret' = ret /\ gq[j] # <<>>
    BY <1>7 DEF ReadExit
  <2>2. LET r == [job[j] EXCEPT !.exit = Head(gq[j]).exit]
        IN  /\ r \in JobRecords /\ r.retired = job[j].retired
            /\ r.terminated = job[j].terminated /\ r.reaped = job[j].reaped
    BY <1>2, <1>3, <2>1, RecordFields
  <2> QED BY <1>1, <1>4, <2>1, <2>2, JoinStays, RecordStep
<1> QED BY <1>5, <1>6, <1>7

\* The guardian a retirement signals is not reaped, and the signal does not
\* reap it.
LEMMA TermStep ==
  ASSUME IInv, NEW j \in Workers, RetireTerm(j)
  PROVE  IInv'
<1>1. /\ broker /\ ret[j] = "term" /\ ret' = [ret EXCEPT ![j] = "kill"] /\ Owned(j)
      /\ UNCHANGED <<bpc, todo, join, jobOrder, job, broker, gq, target, strays>>
  BY DEF RetireTerm, brokerVars, IInv
<1>2. PICK next \in {"none", "zombie"} \cup GuardianUp :
         /\ guardian' = [guardian EXCEPT ![j] = next]
         /\ next = "none" <=> guardian[j] = "none"
  <2>1. guardian[j] \in {"none", "zombie"} \cup GuardianUp
    BY <1>1 DEF IInv, Shape, Owned
  <2>2. CASE guardian[j] = "none"
    <3>1. guardian' = [guardian EXCEPT ![j] = "none"]
      BY <2>2 DEF RetireTerm, IInv, Shape
    <3> QED BY <2>2, <3>1
  <2>3. CASE guardian[j] # "none"
    <3>1. PICK next \in Signalled(j) : guardian' = [guardian EXCEPT ![j] = next]
      BY <2>3 DEF RetireTerm
    <3>2. next \in ({"none", "zombie"} \cup GuardianUp) \ {"none"}
      BY <2>1, <2>3, <3>1 DEF Signalled, GuardianUp
    <3> QED BY <2>3, <3>1, <3>2
  <2> QED BY <2>2, <2>3
<1>3. Shape'
  BY <1>1, <1>2 DEF IInv, Shape, Retirements
<1>4. Owned(j)'
  <2>1. guardian'[j] = next /\ next # "reaped" /\ ret'[j] = "kill"
    BY <1>1, <1>2 DEF IInv, Shape, GuardianUp
  <2>2. (Registered(j)' <=> Registered(j)) /\ (Drained(j) => Drained(j)')
    BY <1>1 DEF Registered, Drained
  <2> QED BY <1>1, <1>2, <2>1, <2>2 DEF Owned
<1>5. \A k \in Workers \ {j} : ret'[k] = ret[k] /\ guardian'[k] = guardian[k]
  BY <1>1, <1>2 DEF IInv, Shape
<1> QED BY <1>1, <1>3, <1>4, <1>5, JoinStays, OneJob

\* The kill reaches a group that is still the job's own; without a launch it
\* reaches the broker.
LEMMA KillStep ==
  ASSUME IInv, NEW j \in Workers, RetireKill(j)
  PROVE  IInv'
<1>1. CASE guardian[j] = "none"
  BY <1>1, GoneStep DEF RetireKill
<1>2. CASE guardian[j] # "none"
  <2>1. /\ broker /\ ret[j] = "kill" /\ Owned(j)
        /\ UNCHANGED <<bpc, todo, join, jobOrder, broker, gq>>
        /\ guardian' = [guardian EXCEPT ![j] = IF @ \in GuardianUp THEN "zombie" ELSE @]
        /\ target' = [target EXCEPT ![j] = IF @ = "up" THEN "killed" ELSE @]
        /\ strays' = [strays EXCEPT ![j] =
              IF target[j] \in Alive \/ @ = "up" THEN "killed" ELSE @]
        /\ job' = [job EXCEPT ![j] = [job[j] EXCEPT !.terminated = TRUE]]
    BY <1>2 DEF RetireKill, brokerVars, IInv
  <2>2. ret' = [ret EXCEPT ![j] = "reap"] \/ ret' = [ret EXCEPT ![j] = "late"]
    BY <1>2 DEF RetireKill
  <2>3. LET r == [job[j] EXCEPT !.terminated = TRUE]
        IN  r \in JobRecords /\ r.retired = job[j].retired /\ r.reaped = job[j].reaped
    BY DEF IInv, Shape, JobRecords
  <2>4. Shape'
    <3>1. job' \in [Workers -> JobRecords]
      BY <2>1, <2>3 DEF IInv, Shape
    <3> QED BY <2>1, <2>2, <3>1 DEF IInv, Shape, Alive, Retirements
  <2>5. Owned(j)'
    <3>1. ret'[j] \in {"reap", "late"} /\ job'[j] = [job[j] EXCEPT !.terminated = TRUE]
      BY <2>1, <2>2 DEF IInv, Shape
    <3>2. guardian[j] # "reaped" /\ guardian'[j] \notin {"none", "reaped"}
      BY <1>2, <2>1 DEF IInv, Shape, Owned
    <3>3. Registered(j)' /\ Registered(j) /\ bpc'[j] # "launch"
      BY <1>2, <2>1 DEF Owned, Registered
    <3> QED BY <2>1, <2>3, <3>1, <3>2, <3>3 DEF Owned
  <2>6. \A k \in Workers \ {j} :
           /\ ret'[k] = ret[k] /\ guardian'[k] = guardian[k] /\ job'[k] = job[k]
           /\ target'[k] = target[k] /\ strays'[k] = strays[k]
    BY <2>1, <2>2 DEF IInv, Shape
  <2> QED BY <2>1, <2>4, <2>5, <2>6, JoinStays, OneJob
<1> QED BY <1>1, <1>2

\* The flag that says so is set when the guardian is reaped.
LEMMA ReapStep ==
  ASSUME IInv, NEW j \in Workers, RetireReap(j)
  PROVE  IInv'
<1> DEFINE r == [job[j] EXCEPT !.reaped = guardian[j] = "zombie",
                               !.terminated = guardian[j] = "zombie"]
<1>1. /\ broker /\ ret[j] \in {"reap", "late"} /\ Owned(j)
      /\ UNCHANGED <<bpc, todo, join, jobOrder, broker, gq, target, strays>>
      /\ guardian' = [guardian EXCEPT ![j] = IF @ = "zombie" THEN "reaped" ELSE @]
      /\ ret' = [ret EXCEPT ![j] = IF ret[j] = "reap" THEN "drain" ELSE "overdue"]
      /\ job' = [job EXCEPT ![j] = r]
  BY DEF RetireReap, brokerVars, IInv
<1>2. r \in JobRecords /\ r.retired = job[j].retired /\ (r.reaped <=> guardian[j] = "zombie")
  BY DEF IInv, Shape, JobRecords
<1> HIDE DEF r
<1>3. Shape'
  BY <1>1, <1>2 DEF IInv, Shape, Retirements
<1>4. Owned(j)'
  <2>1. ret'[j] \in {"drain", "overdue"} /\ job'[j] = r /\ job[j].retired
    BY <1>1 DEF IInv, Shape, Owned
  <2>2. guardian'[j] = IF guardian[j] = "zombie" THEN "reaped" ELSE guardian[j]
    BY <1>1 DEF IInv, Shape
  <2>3. Registered(j)' <=> Registered(j)
    BY <1>1 DEF Registered
  <2> QED BY <1>1, <1>2, <2>1, <2>2, <2>3 DEF Owned
<1>5. \A k \in Workers \ {j} : job'[k] = job[k] /\ ret'[k] = ret[k] /\ guardian'[k] = guardian[k]
  BY <1>1 DEF IInv, Shape
<1> QED BY <1>1, <1>3, <1>4, <1>5, JoinStays, OneJob

\* A retirement settles with the job terminated only when its group has been
\* seen empty.
LEMMA DrainStep ==
  ASSUME IInv, NEW j \in Workers, RetireDrain(j)
  PROVE  IInv'
<1>1. /\ broker /\ ret[j] \in {"drain", "overdue"} /\ ret' = [ret EXCEPT ![j] = "over"] /\ Owned(j)
      /\ UNCHANGED <<bpc, todo, join, jobOrder, broker, gq, guardian, target, strays>>
  BY DEF RetireDrain, brokerVars, osVars, IInv
<1>2. PICK late \in BOOLEAN : job' = [job EXCEPT ![j] = SettledJob(j, late)]
  BY DEF RetireDrain
<1>3. job[j] \in JobRecords
  BY DEF IInv, Shape
<1>4. /\ SettledJob(j, late) \in JobRecords
      /\ SettledJob(j, late).retired = job[j].retired
      /\ SettledJob(j, late).reaped = job[j].reaped
      /\ SettledJob(j, late).terminated => Drained(j)
  BY <1>2, <1>3 DEF SettledJob, JobRecords, Drained
<1>5. Shape'
  BY <1>1, <1>2, <1>4 DEF IInv, Shape, Retirements
<1>6. Owned(j)'
  <2>1. ret'[j] = "over" /\ job'[j] = SettledJob(j, late) /\ job[j].retired
    BY <1>1, <1>2 DEF IInv, Shape, Owned
  <2>2. (Registered(j)' <=> Registered(j)) /\ (Drained(j) => Drained(j)')
    BY <1>1 DEF Registered, Drained
  <2> QED BY <1>1, <1>4, <2>1, <2>2 DEF Owned
<1>7. \A k \in Workers \ {j} : job'[k] = job[k] /\ ret'[k] = ret[k]
  BY <1>1, <1>2 DEF IInv, Shape
<1> QED BY <1>1, <1>5, <1>6, <1>7, JoinStays, OneJob

\* Guardians and targets end, and a group that has drained stays so: only a
\* guardian that is not reaped starts a target.
LEMMA ProcessStep ==
  ASSUME IInv, NEW j \in Workers,
         Guardian(j) \/ TargetEnds(j) \/ TargetDies(j) \/ StraysEnd(j)
  PROVE  IInv'
<1>1. UNCHANGED <<bpc, todo, join, jobOrder, job, ret, broker>>
  BY DEF Guardian, GuardianStart, GuardianReport, GuardianLoses, GuardianDrain, GuardianExit,
         TargetEnds, TargetDies, StraysEnd, GuardianUnchanged, brokerVars
<1>2. gq' \in [Workers -> Seq(Frames)]
  <2>0. gq \in [Workers -> Seq(Frames)] /\ target[j] \in {"none", "ok", "failed"} \cup Alive
    BY DEF IInv, Shape
  <2>1. ASSUME NEW t \in {"gstarted", "gstartfail", "gexit", "gterminal"}, NEW x \in Exits,
               Tell(j, t, x)
        PROVE  gq' \in [Workers -> Seq(Frames)]
    <3>1. [t |-> t, exit |-> x] \in Frames
      BY DEF Frames
    <3>2. Append(gq[j], [t |-> t, exit |-> x]) \in Seq(Frames)
      BY <2>0, <3>1
    <3> QED BY <2>0, <2>1, <3>2 DEF Tell
  <2>2. "none" \in Exits /\ (target[j] \notin Alive => target[j] \in Exits)
    BY <2>0 DEF Exits
  <2>3. CASE GuardianStart(j) BY <2>0, <2>1, <2>2, <2>3 DEF GuardianStart
  <2>4. CASE GuardianReport(j) BY <2>1, <2>2, <2>4 DEF GuardianReport
  <2>5. CASE GuardianLoses(j) BY <2>0, <2>5 DEF GuardianLoses
  <2>6. CASE GuardianDrain(j) BY <2>0, <2>1, <2>2, <2>6 DEF GuardianDrain
  <2>7. CASE GuardianExit(j) BY <2>0, <2>7 DEF GuardianExit
  <2>8. CASE TargetEnds(j) \/ TargetDies(j) \/ StraysEnd(j)
    BY <2>0, <2>8 DEF TargetEnds, TargetDies, StraysEnd
  <2> QED BY <2>3, <2>4, <2>5, <2>6, <2>7, <2>8 DEF Guardian
<1>3. PICK g \in {"none", "zombie", "reaped"} \cup GuardianUp :
         /\ guardian' = [guardian EXCEPT ![j] = g]
         /\ (g = "none" <=> guardian[j] = "none") /\ (g = "reaped" <=> guardian[j] = "reaped")
  <2>1. CASE UNCHANGED guardian
    <3>1. guardian' = [guardian EXCEPT ![j] = guardian[j]]
      BY <2>1 DEF IInv, Shape
    <3> QED BY <3>1 DEF IInv, Shape
  <2>2. CASE Guardian(j) /\ guardian' # guardian
    <3>1. /\ guardian[j] \in GuardianUp
          /\ \/ Becomes(j, "up") \/ Becomes(j, "drain") \/ Becomes(j, "startfail")
             \/ Becomes(j, "zombie") \/ Becomes(j, "reported")
      BY <2>2 DEF Guardian, GuardianStart, GuardianReport, GuardianLoses, GuardianDrain,
                  GuardianExit, GuardianUp
    <3> QED BY <3>1 DEF Becomes, GuardianUp
  <2> QED BY <2>1, <2>2 DEF TargetEnds, TargetDies, StraysEnd
<1>4. /\ target' \in [Workers -> {"none", "ok", "failed"} \cup Alive]
      /\ strays' \in [Workers -> {"none"} \cup Alive]
      /\ \A k \in Workers \ {j} : target'[k] = target[k] /\ strays'[k] = strays[k]
      /\ guardian[j] = "reaped" /\ Drained(j) => Drained(j)'
  <2>0. /\ target \in [Workers -> {"none", "ok", "failed"} \cup Alive]
        /\ strays \in [Workers -> {"none"} \cup Alive]
    BY DEF IInv, Shape
  <2>1. CASE UNCHANGED <<target, strays>>
    BY <2>0, <2>1 DEF Drained
  <2>2. CASE GuardianStart(j) BY <2>0, <2>2 DEF GuardianStart, Alive
  <2>3. CASE GuardianDrain(j) BY <2>0, <2>3 DEF GuardianDrain, Alive
  <2>4. CASE TargetEnds(j) BY <2>0, <2>4 DEF TargetEnds, Alive, Drained
  <2>5. CASE TargetDies(j) BY <2>0, <2>5 DEF TargetDies, Alive, Drained
  <2>6. CASE StraysEnd(j) BY <2>0, <2>6 DEF StraysEnd, Alive, Drained
  <2> QED BY <2>1, <2>2, <2>3, <2>4, <2>5, <2>6
          DEF Guardian, GuardianReport, GuardianLoses, GuardianExit
<1>5. Shape'
  BY <1>1, <1>2, <1>3, <1>4 DEF IInv, Shape
<1>6. ASSUME broker PROVE Owned(j)'
  <2>1. Owned(j) /\ guardian'[j] = g
    BY <1>3, <1>6 DEF IInv, Shape
  <2>2. Registered(j)' <=> Registered(j)
    BY <1>1 DEF Registered
  <2> QED BY <1>1, <1>3, <1>4, <2>1, <2>2 DEF Owned
<1>7. \A k \in Workers \ {j} : guardian'[k] = guardian[k]
  BY <1>3 DEF IInv, Shape
<1> QED BY <1>1, <1>4, <1>5, <1>6, <1>7, JoinStays, OneJob

\* Every step keeps the invariant.
LEMMA NextInvariant == IInv /\ [Next]_vars => IInv'
<1> SUFFICES ASSUME IInv, [Next]_vars PROVE IInv'
  OBVIOUS
<1>1. CASE UNCHANGED vars
  BY <1>1, FrameStep DEF vars, brokerVars
<1>2. ASSUME NEW w \in Workers, Worker(w) PROVE IInv'
  BY <1>2, ClientStep
<1>3. ASSUME NEW w \in Workers, Serve(w) PROVE IInv'
  BY <1>3, DeskStep, RegisterStep, LaunchStep, DispatchStep, CancelStep DEF Serve
<1>4. ASSUME NEW w \in Workers, Custodian(w) PROVE IInv'
  BY <1>4, TermStep, KillStep, ReapStep, DrainStep, ReaderStep DEF Custodian
<1>5. ASSUME NEW w \in Workers, Guardian(w) \/ TargetEnds(w) \/ TargetDies(w) \/ StraysEnd(w)
      PROVE  IInv'
  BY <1>5, ProcessStep
<1>6. ASSUME NEW c \in Channels, Closing(c) PROVE IInv'
  BY <1>6, DeskStep, CloseStep DEF Closing
<1>7. ASSUME NEW e \in Executors, Retiring(e) PROVE IInv'
  BY <1>7, JoinStep DEF Retiring
<1>8. CASE Broker
  BY <1>8, DeskStep, CloseStep, GoneStep DEF Broker, BrokerExits
<1>9. CASE Owner \/ CloseRoot \/ OwnerDies \/ BrokerDies
  BY <1>9, OwnerStep
<1> QED BY <1>1, <1>2, <1>3, <1>4, <1>5, <1>6, <1>7, <1>8, <1>9 DEF Next

\* The argument about who owns a job's fate holds in every state.
THEOREM Invariance == Spec => []IInv
  BY InitInvariant, NextInvariant, PTL DEF Spec

\* The broker sends SIGTERM and SIGKILL only to a process group whose guardian
\* it has not reaped, so the group's number cannot have been given away.
THEOREM SignalsAreOwn == Spec => []SignalsOwnGroup
<1>1. IInv => SignalsOwnGroup
  <2> SUFFICES ASSUME IInv, NEW j \in Workers, ret[j] \in {"term", "kill"}
               PROVE  guardian[j] # "reaped"
    BY DEF SignalsOwnGroup
  <2>1. broker
    BY DEF IInv
  <2> QED BY <2>1 DEF IInv, Owned
<1> QED BY <1>1, Invariance, PTL

\* A report is only ever given by the step that answers a close.
LEMMA ReportChanges ==
  ASSUME Next, report' # report
  PROVE  \E d \in Channels : Report(d)
<1>1. ASSUME NEW w \in Workers, Worker(w) PROVE FALSE
  BY <1>1 DEF Worker, Child, ChildReply, AttachReply, RunReply, RequestFails, Cancel,
                    RunEnds, CloseReply, brokerVars
<1>2. ASSUME NEW w \in Workers, Serve(w) PROVE FALSE
  BY <1>2 DEF Serve, ServeAttach, ServeRun, Register, Launch, Dispatch, DispatchFails,
                    ServeCancel, brokerVars
<1>3. ASSUME NEW w \in Workers, Custodian(w) PROVE FALSE
  BY <1>3 DEF Custodian, RetireTerm, RetireKill, RetireReap, RetireDrain, ReadEnd,
                    ReadFirst, ReadExit, BrokerGone, brokerVars
<1>4. ASSUME NEW w \in Workers, Guardian(w) \/ TargetEnds(w) \/ TargetDies(w) \/ StraysEnd(w)
      PROVE  FALSE
  BY <1>4 DEF Guardian, GuardianStart, GuardianReport, GuardianLoses, GuardianDrain,
                    GuardianExit, TargetEnds, TargetDies, StraysEnd, GuardianUnchanged,
                    brokerVars
<1>5. ASSUME NEW e \in Executors, Retiring(e) PROVE FALSE
  BY <1>5 DEF Retiring, JoinRetirement, JoinRunsOut
<1>6. ASSUME Broker \/ Owner \/ CloseRoot \/ OwnerDies \/ BrokerDies PROVE FALSE
  BY <1>6 DEF Broker, ServeChild, NewScope, RootChannelEnds, Shutdown, BrokerExits, Owner,
                    RootReply, RootExit, CloseRoot, OwnerDies, BrokerDies, BrokerGone,
                    brokerVars
<1>7. ASSUME NEW d \in Channels, ServeClose(d) PROVE FALSE
  BY <1>7 DEF ServeClose
<1> QED BY <1>1, <1>2, <1>3, <1>4, <1>5, <1>6, <1>7 DEF Next, Closing

\* Every scope has at most a report.
LEMMA ReportShape == Spec => [](report \in [Channels -> {"none"} \cup Statuses])
<1> DEFINE R == report \in [Channels -> {"none"} \cup Statuses]
<1>1. Init => R
  BY DEF Init
<1>2. R /\ [Next]_vars => R'
  <2> SUFFICES ASSUME R, [Next]_vars PROVE R'
    OBVIOUS
  <2>1. CASE report' = report
    BY <2>1
  <2>2. CASE report' # report
    <3>1. PICK d \in Channels : Report(d)
      BY <2>2, ReportChanges DEF vars, brokerVars
    <3>2. report' = [report EXCEPT ![d] = StatusOf(d)] /\ StatusOf(d) \in Statuses
      BY <3>1 DEF Report, StatusOf, Statuses
    <3> QED BY <3>2
  <2> QED BY <2>1, <2>2
<1> QED BY <1>1, <1>2, PTL DEF Spec

\* Whoever closes a scope and is told "cleaned" has every guardian of its
\* registered jobs reaped, whatever else the broker is doing, and a child scope
\* no process of its job left unless its join ran out (broker.go:882).
THEOREM CleanedMeansGone == Spec => CleanedIsGone
<1> DEFINE Told ==
      \A c \in Channels, j \in Workers :
         /\ report[c] # "cleaned" /\ report'[c] = "cleaned"
         /\ j \in Subtree(c) /\ Registered(j)
         => guardian[j] = "reaped" /\ (c \in Workers /\ join[c] # "out" => Drained(j))
<1>1. IInv /\ report \in [Channels -> {"none"} \cup Statuses] /\ [Next]_vars => [Told]_vars
  <2> SUFFICES ASSUME IInv, report \in [Channels -> {"none"} \cup Statuses], Next,
                      NEW c \in Channels, NEW j \in Workers,
                      report[c] # "cleaned", report'[c] = "cleaned",
                      j \in Subtree(c), Registered(j)
               PROVE  guardian[j] = "reaped" /\ (c \in Workers /\ join[c] # "out" => Drained(j))
    OBVIOUS
  <2>1. PICK d \in Channels : Report(d)
    BY ReportChanges
  <2>2. /\ broker /\ report' = [report EXCEPT ![d] = StatusOf(d)]
        /\ bpc[d] = "retire" /\ todo[d] = <<>>
    BY <2>1 DEF Report
  <2>3. c = d /\ StatusOf(c) = "cleaned"
    BY <2>2
  <2>4. Settled(j)
    BY <2>3 DEF StatusOf
  <2>5. guardian[j] = "reaped" /\ Owned(j)
    BY <2>2, <2>4 DEF IInv, Owned, Settled
  <2>6. ASSUME c \in Workers, join[c] # "out" PROVE Drained(j)
    <3>1. j = c
      BY <2>6 DEF Subtree
    <3> QED BY <2>2, <2>3, <2>4, <2>5, <2>6, <3>1 DEF Owned, Settled
  <2> QED BY <2>5, <2>6
<1> QED BY <1>1, Invariance, ReportShape, PTL DEF Spec, CleanedIsGone

\* What a child scope is told is told of a retirement that has settled, or of
\* one its close has joined for the whole bound of broker.go:882.
THEOREM ReportsAreSettled == Spec => ReportIsSettled
<1> DEFINE Told ==
      \A c \in Workers :
         report[c] = "none" /\ report'[c] # "none" /\ Registered(c) =>
             ret[c] = "over" \/ join[c] = "out"
<1>1. IInv /\ report \in [Channels -> {"none"} \cup Statuses] /\ [Next]_vars => [Told]_vars
  <2> SUFFICES ASSUME IInv, report \in [Channels -> {"none"} \cup Statuses], Next,
                      NEW c \in Workers, report[c] = "none", report'[c] # "none", Registered(c)
               PROVE  ret[c] = "over" \/ join[c] = "out"
    OBVIOUS
  <2>1. PICK d \in Channels : Report(d)
    BY ReportChanges
  <2>2. /\ broker /\ report' = [report EXCEPT ![d] = StatusOf(d)]
        /\ bpc[d] = "retire" /\ todo[d] = <<>>
    BY <2>1 DEF Report
  <2>3. c = d
    BY <2>2 DEF Channels
  <2>4. Owned(c)
    BY <2>2 DEF IInv
  <2> QED BY <2>2, <2>3, <2>4 DEF Owned
<1> QED BY <1>1, Invariance, ReportShape, PTL DEF Spec, ReportIsSettled

=============================================================================
