--------------------------- MODULE LifecycleProofs ---------------------------
(***************************************************************************)
(* What Lifecycle keeps for every number of tickets, every batch size and  *)
(* any number of requests, edits, failed calls and restarts: the types,    *)
(* and that a document never says an event is over before the chain does,  *)
(* or an admin.                                                            *)
(*                                                                         *)
(* The second is not inductive by itself.  A document is written from      *)
(* three sources, and each has to be as good as the chain: the status a    *)
(* job carries from a mined transaction to its write, the transaction a    *)
(* job is about to send, and every Fund log a pass may replay.             *)
(***************************************************************************)
EXTENDS Lifecycle, TLAPS

LogNames == {"FundingFinalized", "EventCancelled", "TicketingStarted", "Completed"}
Reasons == {"funding_goal_not_met", "organizer_cancelled", "ticket_sales_not_met"}
LogType == [name: LogNames, arg: Statuses \cup Reasons \cup {"none"}]

Goals == Statuses \cup {"none"}
Calls == {"none", "finalizeFunding", "setCompleted", "organizer_cancelled",
          "ticket_sales_not_met"}
JobType ==
  [at: JobAts, goal: Goals, call: Calls, doc: {"none", "funded", "other"},
   write: Statuses \cup {"none"}, asked: Nat, total: Nat, left: Nat]

Over == {"completed", "cancelled", "failed"}

\* What a status of the document may rest on.
Behind == [status |-> chain.status, typed |-> typed]

\* The chain says of the event what s says; writing s is safe then, or when an
\* admin has.
Proven(c, s) ==
  /\ s = "completed" => c.status = "completed"
  /\ s \in {"cancelled", "failed"} => c.status = "cancelled"
Backed(c, s) == Proven(c, s) \/ s \in c.typed

\* What mining the call makes safe to write.
Promises(call, s) ==
  \/ call = "setCompleted" /\ s = "completed"
  \/ /\ call \in {"finalizeFunding", "organizer_cancelled", "ticket_sales_not_met"}
     /\ s \in {"cancelled", "failed"}

JobSafe(c, job) ==
  /\ job.at = "read" => /\ job.goal \in Statuses
                        /\ job.call \in {"none", "ticket_sales_not_met"}
  /\ job.at = "send" => Promises(job.call, job.write)
  /\ job.at = "write" => job.write \in Statuses /\ Backed(c, job.write)

JobsSafe(c, js) == \A p \in Processes : JobSafe(c, js[p])

LogSafe(c, log) == Proven(c, StatusOf(log)) /\ StatusOf(log) \in Statuses

LogsSafe(c, ls) == \A i \in 1..Len(ls) : LogSafe(c, ls[i])

ChainType == [status: Statuses, minted: 0..MaxTickets]
JobsType == [Processes -> JobType]

ProcType ==
  /\ settled \in 0..Len(logs)
  /\ proc \in [at: Nat, end: 0..Len(logs)] /\ proc.at <= proc.end
  /\ proc # Asleep => proc.at > 0

Types ==
  /\ clock \in 0..3
  /\ chain \in ChainType
  /\ logs \in Seq(LogType)
  /\ status \in Statuses /\ supply \in Nat \ {0} /\ typed \subseteq Endings
  /\ jobs \in JobsType
  /\ ProcType

Safe ==
  /\ Backed(Behind, status)
  /\ JobsSafe(Behind, jobs)
  /\ LogsSafe(Behind, logs)

IInv == Types /\ Safe

LEMMA ConstantsType ==
  MaxTickets \in Nat \ {0} /\ MintBatchSize \in Nat \ {0} /\ Quantities \subseteq Nat \ {0}
  BY LifecycleAssumption DEF LifecycleAssumption

\* A chain that ended stays as it ended and what was typed stays typed, so what
\* was safe stays safe.
Onward ==
  /\ chain.status \in Over => chain'.status = chain.status
  /\ typed \subseteq typed'

LEMMA StillSafe ==
  ASSUME Onward
  PROVE  /\ \A s : Proven(Behind, s) => Proven(Behind', s)
         /\ \A s : Backed(Behind, s) => Backed(Behind', s)
         /\ JobsSafe(Behind, jobs) => JobsSafe(Behind', jobs)
         /\ LogsSafe(Behind, logs) => LogsSafe(Behind', logs)
<1>1. /\ \A s : Proven(Behind, s) => Proven(Behind', s)
      /\ \A s : Backed(Behind, s) => Backed(Behind', s)
  BY DEF Onward, Proven, Backed, Over, Behind
<1>2. \A job : JobSafe(Behind, job) => JobSafe(Behind', job)
  BY <1>1 DEF JobSafe
<1> QED
  BY <1>1, <1>2 DEF JobsSafe, LogsSafe, LogSafe

\* A sequence of safe logs grows by safe logs.
LEMMA Grown ==
  ASSUME NEW c, NEW old \in Seq(LogType), NEW new \in Seq(LogType),
         LogsSafe(c, old), LogsSafe(c, new)
  PROVE  /\ old \o new \in Seq(LogType)
         /\ Len(old \o new) >= Len(old)
         /\ LogsSafe(c, old \o new)
<1>1. \A i \in 1..Len(old \o new) :
        (old \o new)[i] = IF i <= Len(old) THEN old[i] ELSE new[i - Len(old)]
  OBVIOUS
<1>2. Len(old \o new) = Len(old) + Len(new) /\ Len(old) \in Nat /\ Len(new) \in Nat
  OBVIOUS
<1>3. ASSUME NEW i \in 1..Len(old \o new) PROVE LogSafe(c, (old \o new)[i])
  <2>1. CASE i <= Len(old)
    BY <1>1, <2>1 DEF LogsSafe
  <2>2. CASE ~(i <= Len(old))
    <3>1. i - Len(old) \in 1..Len(new)
      BY <1>2, <2>2
    <3> QED
      BY <1>1, <2>2, <3>1 DEF LogsSafe
  <2> QED
    BY <2>1, <2>2
<1> QED
  BY <1>2, <1>3 DEF LogsSafe

\* The logs a transaction may add, one or two of them.
LEMMA OneLog ==
  ASSUME NEW c, NEW log \in LogType, LogSafe(c, log)
  PROVE  <<log>> \in Seq(LogType) /\ LogsSafe(c, <<log>>)
  BY DEF LogsSafe

LEMMA TwoLogs ==
  ASSUME NEW c, NEW a \in LogType, NEW b \in LogType, LogSafe(c, a), LogSafe(c, b)
  PROVE  <<a, b>> \in Seq(LogType) /\ LogsSafe(c, <<a, b>>)
<1>1. <<a, b>> \in Seq(LogType) /\ Len(<<a, b>>) = 2
  OBVIOUS
<1>2. \A i \in 1..2 : <<a, b>>[i] = a \/ <<a, b>>[i] = b
  OBVIOUS
<1> QED
  BY <1>1, <1>2 DEF LogsSafe

\* One process takes up a safe job.
LEMMA Became ==
  ASSUME NEW c, NEW p \in Processes, NEW job \in JobType,
         jobs \in JobsType, JobsSafe(c, jobs), JobSafe(c, job), Becomes(p, job)
  PROVE  jobs' \in JobsType /\ JobsSafe(c, jobs')
  BY DEF JobsType, JobsSafe, Becomes

\* The pass in hand stays within logs that only grow.
LEMMA ProcKept ==
  ASSUME ProcType, UNCHANGED procVars, logs \in Seq(LogType), logs' \in Seq(LogType),
         Len(logs') >= Len(logs)
  PROVE  ProcType'
<1>1. Len(logs) \in Nat /\ Len(logs') \in Nat
  OBVIOUS
<1> QED
  BY <1>1 DEF ProcType, procVars, Asleep

LEMMA IdleSafe == Idle \in JobType /\ \A c : JobSafe(c, Idle)
  BY ConstantsType DEF Idle, JobType, JobAts, Goals, Calls, JobSafe

JobsGood(c) == jobs' \in JobsType /\ JobsSafe(c, jobs')

\* What a process may turn to, and what makes it safe.
LEMMA Turns ==
  ASSUME NEW c, NEW p \in Processes, jobs \in JobsType, JobsSafe(c, jobs)
  PROVE  /\ Ends(p) => JobsGood(c)
         /\ \A s \in Statuses : Backed(c, s) /\ Writes(p, s) => JobsGood(c)
         /\ \A call, s : Promises(call, s) /\ Sends(p, call, s) => JobsGood(c)
         /\ \A goal \in Statuses, reason \in {"none", "ticket_sales_not_met"} :
              Asks(p, goal, reason) => JobsGood(c)
         /\ \A n \in Nat :
              Becomes(p, [Idle EXCEPT !.at = "read", !.goal = "ticketing", !.asked = n])
                => JobsGood(c)
<1>1. Idle \in JobType /\ JobSafe(c, Idle)
  BY IdleSafe
<1>2. Ends(p) => JobsGood(c)
  BY <1>1, Became DEF Ends, JobsGood
<1>3. ASSUME NEW s \in Statuses, Backed(c, s), Writes(p, s) PROVE JobsGood(c)
  <2> DEFINE job == [Idle EXCEPT !.at = "write", !.write = s]
  <2>1. job \in JobType /\ JobSafe(c, job)
    BY <1>1, <1>3 DEF Idle, JobType, JobAts, JobSafe
  <2>2. Becomes(p, job)
    BY <1>3 DEF Writes
  <2> QED
    BY <2>1, <2>2, Became DEF JobsGood
<1>4. ASSUME NEW call, NEW s, Promises(call, s), Sends(p, call, s) PROVE JobsGood(c)
  <2> DEFINE job == [Idle EXCEPT !.at = "send", !.call = call, !.write = s]
  <2>1. call \in Calls /\ s \in Statuses
    BY <1>4 DEF Promises, Calls, Statuses
  <2>2. job \in JobType /\ JobSafe(c, job)
    BY <1>1, <1>4, <2>1 DEF Idle, JobType, JobAts, JobSafe
  <2>3. Becomes(p, job)
    BY <1>4 DEF Sends
  <2> QED
    BY <2>2, <2>3, Became DEF JobsGood
<1>5. ASSUME NEW goal \in Statuses, NEW reason \in {"none", "ticket_sales_not_met"},
             Asks(p, goal, reason)
      PROVE  JobsGood(c)
  <2> DEFINE job == [Idle EXCEPT !.at = "read", !.goal = goal, !.call = reason]
  <2>1. job \in JobType /\ JobSafe(c, job)
    BY <1>1 DEF Idle, JobType, JobAts, Goals, Calls, JobSafe
  <2>2. Becomes(p, job)
    BY <1>5 DEF Asks
  <2> QED
    BY <2>1, <2>2, Became DEF JobsGood
<1>6. ASSUME NEW n \in Nat,
             Becomes(p, [Idle EXCEPT !.at = "read", !.goal = "ticketing", !.asked = n])
      PROVE  JobsGood(c)
  <2> DEFINE job == [Idle EXCEPT !.at = "read", !.goal = "ticketing", !.asked = n]
  <2>1. job \in JobType /\ JobSafe(c, job)
    BY <1>1 DEF Idle, JobType, JobAts, Goals, JobSafe, Statuses
  <2> QED
    BY <1>6, <2>1, Became DEF JobsGood
<1> QED
  BY <1>2, <1>3, <1>4, <1>5, <1>6

\* A transaction ends an event that was open, and its logs say so.
LEMMA Transacted ==
  ASSUME IInv, NEW call \in Calls \ {"none"}, Transact(call), UNCHANGED typed
  PROVE  /\ Onward /\ chain' \in ChainType
         /\ logs' \in Seq(LogType) /\ Len(logs') >= Len(logs) /\ LogsSafe(Behind', logs')
         /\ \A s : Promises(call, s) => Proven(Behind', s) /\ Backed(Behind', s)
<1>1. /\ chain.status \notin {"completed", "cancelled", "failed"}
      /\ chain' = [chain EXCEPT !.status = IF call = "setCompleted" THEN "completed"
                                                                  ELSE "cancelled"]
      /\ chain \in ChainType
  BY DEF Transact, Accepts, Calls, IInv, Types
<1>2. Onward /\ chain' \in ChainType
  BY <1>1 DEF Onward, Over, ChainType, Statuses
<1>3. \A s : Promises(call, s) => Proven(Behind', s) /\ Backed(Behind', s)
  BY <1>1 DEF Promises, Proven, Backed, Behind, ChainType
<1>4. logs \in Seq(LogType) /\ LogsSafe(Behind', logs)
  BY <1>2, StillSafe DEF IInv, Types, Safe
<1>5. CASE call = "setCompleted"
  <2>1. logs' = logs \o <<Log("Completed")>>
    BY <1>5 DEF Transact
  <2>2. Log("Completed") \in LogType /\ LogSafe(Behind', Log("Completed"))
    BY <1>1, <1>5 DEF Log, LogType, LogNames, LogSafe, StatusOf, Proven, Backed, Behind, Statuses, ChainType
  <2>3. <<Log("Completed")>> \in Seq(LogType) /\ LogsSafe(Behind', <<Log("Completed")>>)
    BY <2>2, OneLog
  <2> QED
    BY <1>2, <1>3, <1>4, <2>1, <2>3, Grown
<1>6. CASE call = "finalizeFunding"
  <2> DEFINE a == EventCancelled("funding_goal_not_met")
             b == FundingFinalized("cancelled")
  <2>1. logs' = logs \o <<a, b>>
    BY <1>6 DEF Transact
  <2>2. /\ a \in LogType /\ LogSafe(Behind', a)
        /\ b \in LogType /\ LogSafe(Behind', b)
    BY <1>1, <1>6 DEF EventCancelled, FundingFinalized, LogType, LogNames, Reasons, LogSafe,
         StatusOf, Proven, Backed, Behind, Statuses, ChainType
  <2>3. <<a, b>> \in Seq(LogType) /\ LogsSafe(Behind', <<a, b>>)
    BY <2>2, TwoLogs
  <2> QED
    BY <1>2, <1>3, <1>4, <2>1, <2>3, Grown
<1>7. CASE call \in {"organizer_cancelled", "ticket_sales_not_met"}
  <2>1. logs' = logs \o <<EventCancelled(call)>>
    BY <1>7 DEF Transact
  <2>2. EventCancelled(call) \in LogType /\ LogSafe(Behind', EventCancelled(call))
    BY <1>1, <1>7 DEF EventCancelled, LogType, LogNames, Reasons, LogSafe,
         StatusOf, Proven, Backed, Behind, Statuses, ChainType
  <2>3. /\ <<EventCancelled(call)>> \in Seq(LogType)
        /\ LogsSafe(Behind', <<EventCancelled(call)>>)
    BY <2>2, OneLog
  <2> QED
    BY <1>2, <1>3, <1>4, <2>1, <2>3, Grown
<1> QED
  BY <1>5, <1>6, <1>7 DEF Calls

\* Steps other than the processor's: what each of them has to show.
LEMMA Recombined ==
  ASSUME IInv, Onward, chain' \in ChainType, clock' \in 0..3,
         logs' \in Seq(LogType), Len(logs') >= Len(logs), LogsSafe(Behind', logs'),
         JobsGood(Behind'), status' \in Statuses, Backed(Behind', status'),
         supply' \in Nat \ {0}, typed' \subseteq Endings, UNCHANGED procVars
  PROVE  IInv'
<1>1. ProcType'
  BY ProcKept DEF IInv, Types
<1>2. Types'
  BY <1>1 DEF Types, JobsGood
<1>3. Safe'
  BY DEF Safe, JobsGood
<1> QED
  BY <1>2, <1>3 DEF IInv

\* The same for a step of a process that leaves the chain alone.
LEMMA OffChain ==
  ASSUME IInv, UNCHANGED chainVars, UNCHANGED procVars, UNCHANGED <<supply, typed>>,
         JobsGood(Behind), status' \in Statuses, Backed(Behind, status')
  PROVE  IInv'
<1>1. /\ chain' = chain /\ clock' = clock /\ logs' = logs /\ Onward
      /\ chain \in ChainType /\ clock \in 0..3
      /\ logs \in Seq(LogType) /\ LogsSafe(Behind, logs)
      /\ supply' \in Nat \ {0} /\ typed' \subseteq Endings /\ Behind' = Behind
  BY DEF chainVars, IInv, Types, Safe, Onward, Behind
<1>2. Len(logs') >= Len(logs)
  BY <1>1
<1> QED
  BY <1>1, <1>2, Recombined

-----------------------------------------------------------------------------
(* The actions.                                                            *)

\* A process waits at a place that promises nothing.
LEMMA Waiting ==
  ASSUME NEW c, NEW p \in Processes, NEW job \in JobType, Becomes(p, job),
         job.at \in {"look", "mark", "mint"}, jobs \in JobsType, JobsSafe(c, jobs)
  PROVE  JobsGood(c)
<1>1. JobSafe(c, job)
  BY DEF JobSafe
<1> QED
  BY <1>1, Became DEF JobsGood

LEMMA UpdateStatusSafe ==
  ASSUME IInv, NEW p \in Processes, NEW goal \in Statuses,
         NEW reason \in FailureReasons, NEW asked \in Nat,
         ReadByUpdateStatus(p, goal, reason, asked)
  PROVE  JobsGood(Behind)
<1>1. jobs \in JobsType /\ JobsSafe(Behind, jobs)
  BY DEF IInv, Types, Safe
<1>2. CASE status = goal \/ status = "completed" \/ goal \in {"draft", "funding"}
  BY <1>1, <1>2, Turns DEF ReadByUpdateStatus
<1>3. CASE ~(status = goal \/ status = "completed" \/ goal \in {"draft", "funding"})
  <2>1. CASE goal = "funded"
    <3>1. Sends(p, "finalizeFunding", "failed")
      BY <1>3, <2>1 DEF ReadByUpdateStatus
    <3> QED
      BY <1>1, <3>1, Turns DEF Promises
  <2>2. CASE goal = "completed"
    <3>1. Sends(p, "setCompleted", "completed")
      BY <1>3, <2>2 DEF ReadByUpdateStatus
    <3> QED
      BY <1>1, <3>1, Turns DEF Promises
  <2>3. CASE goal = "cancelled"
    <3>1. Sends(p, "organizer_cancelled", "cancelled")
      BY <1>3, <2>3 DEF ReadByUpdateStatus
    <3> QED
      BY <1>1, <3>1, Turns DEF Promises
  <2>4. CASE goal = "failed"
    <3>1. \/ Sends(p, "ticket_sales_not_met", "failed")
          \/ Sends(p, "finalizeFunding", "failed")
      BY <1>3, <2>4 DEF ReadByUpdateStatus, FailureReasons
    <3> QED
      BY <1>1, <3>1, Turns DEF Promises
  <2>5. CASE goal = "ongoing"
    <3>1. Writes(p, "ongoing") \/ Ends(p)
      BY <1>3, <2>5 DEF ReadByUpdateStatus
    <3>2. "ongoing" \in Statuses /\ Backed(Behind, "ongoing")
      BY DEF Statuses, Proven, Backed
    <3> QED
      BY <1>1, <3>1, <3>2, Turns
  <2>6. CASE goal = "ticketing"
    <3> DEFINE job(d) == [Idle EXCEPT !.at = "look", !.asked = asked, !.total = supply, !.doc = d]
    <3>1. Becomes(p, job("funded")) \/ Becomes(p, job("other")) \/ Ends(p)
      BY <1>3, <2>6 DEF ReadByUpdateStatus
    <3>2. ASSUME NEW d \in {"funded", "other"}
          PROVE  job(d) \in JobType /\ job(d).at = "look"
      <4>1. supply \in Nat
        BY DEF IInv, Types
      <4> QED
        BY <4>1, IdleSafe DEF JobType, JobAts, Idle
    <3>3. Ends(p) => JobsGood(Behind)
      BY <1>1, Turns
    <3> QED
      BY <1>1, <3>1, <3>2, <3>3, Waiting
  <2> QED
    BY <1>3, <2>1, <2>2, <2>3, <2>4, <2>5, <2>6 DEF Statuses
<1> QED
  BY <1>2, <1>3

\* A log the owner's receipt shows is as good as the chain.
LEMMA SeenSafe ==
  ASSUME IInv, NEW p \in Processes
  PROVE  /\ Logged("EventCancelled") /\ Writes(p, "cancelled") => JobsGood(Behind)
         /\ Logged("Completed") /\ Writes(p, "completed") => JobsGood(Behind)
<1>1. jobs \in JobsType /\ JobsSafe(Behind, jobs) /\ logs \in Seq(LogType)
  BY DEF IInv, Types, Safe
<1>2. \A i \in 1..Len(logs) : Proven(Behind, StatusOf(logs[i]))
  BY DEF IInv, Safe, LogsSafe, LogSafe
<1>3. ASSUME Logged("EventCancelled"), Writes(p, "cancelled") PROVE JobsGood(Behind)
  <2>1. PICK i \in 1..Len(logs) : logs[i].name = "EventCancelled"
    BY <1>1, <1>3 DEF Logged, Range
  <2>2. StatusOf(logs[i]) \in {"cancelled", "failed"}
    BY <2>1 DEF StatusOf
  <2>3. "cancelled" \in Statuses /\ Backed(Behind, "cancelled")
    BY <1>2, <2>2 DEF Proven, Backed, Statuses
  <2> QED
    BY <1>1, <1>3, <2>3, Turns
<1>4. ASSUME Logged("Completed"), Writes(p, "completed") PROVE JobsGood(Behind)
  <2>1. PICK i \in 1..Len(logs) : logs[i].name = "Completed"
    BY <1>1, <1>4 DEF Logged, Range
  <2>2. StatusOf(logs[i]) = "completed"
    BY <2>1 DEF StatusOf
  <2>3. "completed" \in Statuses /\ Backed(Behind, "completed")
    BY <1>2, <2>2 DEF Proven, Backed, Statuses
  <2> QED
    BY <1>1, <1>4, <2>3, Turns
<1> QED
  BY <1>3, <1>4

LEMMA CompleteByOwnerSafe ==
  ASSUME IInv, NEW p \in Processes, NEW sent, CompleteByOwner(p, sent)
  PROVE  JobsGood(Behind)
<1>1. jobs \in JobsType /\ JobsSafe(Behind, jobs)
  BY DEF IInv, Types, Safe
<1>2. CASE Ends(p) \/ Sends(p, "setCompleted", "completed")
  BY <1>1, <1>2, Turns DEF Promises
<1>3. CASE Logged("Completed") /\ Writes(p, "completed")
  BY <1>3, SeenSafe
<1> QED
  BY <1>2, <1>3 DEF CompleteByOwner

LEMMA OwnerSafe ==
  ASSUME IInv, NEW p \in Processes, NEW goal \in Statuses, NEW sent \in BOOLEAN,
         ReadByOwner(p, goal, sent)
  PROVE  JobsGood(Behind)
<1>1. jobs \in JobsType /\ JobsSafe(Behind, jobs)
  BY DEF IInv, Types, Safe
<1>2. CASE Ends(p)
  BY <1>1, <1>2, Turns
<1>3. CASE goal = "cancelled" /\ CancelByOwner(p, sent)
  <2>1. CASE Ends(p) \/ Sends(p, "organizer_cancelled", "cancelled")
    BY <1>1, <2>1, Turns DEF Promises
  <2>2. CASE Logged("EventCancelled") /\ Writes(p, "cancelled")
    BY <2>2, SeenSafe
  <2> QED
    BY <1>3, <2>1, <2>2 DEF CancelByOwner
<1>4. CASE goal = "completed" /\ CompleteByOwner(p, sent)
  BY <1>4, CompleteByOwnerSafe
<1>5. CASE /\ goal \in OwnerTransitions[status] \union {status}
           /\ goal \notin {"cancelled", "completed"} /\ Writes(p, goal)
  <2>1. status \in Statuses /\ Backed(Behind, status)
    BY DEF IInv, Types, Safe
  <2>2. goal = status \/ goal \in {"ticketing", "ongoing"}
    BY <1>5, <2>1 DEF OwnerTransitions, Statuses
  <2>3. Backed(Behind, goal)
    BY <2>1, <2>2 DEF Proven, Backed
  <2> QED
    BY <1>1, <1>5, <2>3, Turns
<1> QED
  BY <1>2, <1>3, <1>4, <1>5 DEF ReadByOwner

\* The confirmation writes what it read, or a status that ends nothing.
LEMMA ConfirmSafe ==
  ASSUME IInv, NEW p \in Processes, ConfirmByInvestor(p)
  PROVE  JobsGood(Behind)
<1>1. /\ jobs \in JobsType /\ JobsSafe(Behind, jobs)
      /\ status \in Statuses /\ Backed(Behind, status)
  BY DEF IInv, Types, Safe
<1>2. "funded" \in Statuses /\ Backed(Behind, "funded")
  BY DEF Statuses, Proven, Backed
<1> QED
  BY <1>1, <1>2, Turns DEF ConfirmByInvestor

\* What a job's step leaves alone.
LEMMA JobFrame ==
  ASSUME IInv, ByJob, UNCHANGED <<chain, logs>>
  PROVE  /\ UNCHANGED chainVars /\ UNCHANGED procVars /\ UNCHANGED <<supply, typed>>
         /\ status \in Statuses /\ Backed(Behind, status)
  BY DEF ByJob, chainVars, IInv, Types, Safe

LEMMA PickDueSafe ==
  ASSUME IInv, NEW kind \in Kinds, PickDue(kind)
  PROVE  IInv'
<1>1. /\ UNCHANGED <<chain, logs, status>> /\ ByJob
      /\ jobs \in JobsType /\ JobsSafe(Behind, jobs) /\ "worker" \in Processes
  BY DEF PickDue, IInv, Types, Safe, Processes
<1>2. \/ \E goal \in Statuses, reason \in {"none", "ticket_sales_not_met"} :
           Asks("worker", goal, reason)
      \/ Writes("worker", "ongoing")
      \/ AutoStartTicketing
  BY DEF PickDue, Kinds, Statuses, AutoFinalizeFundingDeadline, AutoStartTicketing,
         AutoResolveTicketingOutcome, AutoResolveEndedEvent
<1>3. "ongoing" \in Statuses /\ Backed(Behind, "ongoing")
  BY DEF Statuses, Proven, Backed
<1>4. supply \in Nat
  BY DEF IInv, Types
<1>5. AutoStartTicketing => JobsGood(Behind)
  BY <1>1, <1>4, Turns DEF AutoStartTicketing
<1>6. JobsGood(Behind)
  BY <1>1, <1>2, <1>3, <1>5, Turns
<1> QED
  BY <1>1, <1>6, JobFrame, OffChain

LEMMA RequestStatusSafe ==
  ASSUME IInv, RequestStatus
  PROVE  IInv'
<1>1. UNCHANGED <<chain, logs, status>> /\ ByJob /\ "api" \in Processes
  BY DEF RequestStatus, Processes
<1>2. CASE \E goal \in Statuses, reason \in FailureReasons, asked \in Quantities \union {0} :
            ReadByUpdateStatus("api", goal, reason, asked)
  <2>1. Quantities \union {0} \subseteq Nat
    BY ConstantsType
  <2> QED
    BY <1>1, <1>2, <2>1, UpdateStatusSafe, JobFrame, OffChain
<1>3. CASE \E goal \in Statuses, sent \in BOOLEAN : ReadByOwner("api", goal, sent)
  BY <1>1, <1>3, OwnerSafe, JobFrame, OffChain
<1>4. CASE \E sent \in BOOLEAN : MarkCompletedByOwner("api", sent)
  <2>1. jobs \in JobsType /\ JobsSafe(Behind, jobs)
    BY DEF IInv, Types, Safe
  <2>2. Ends("api") => JobsGood(Behind)
    BY <1>1, <2>1, Turns
  <2>3. JobsGood(Behind)
    BY <1>1, <1>4, <2>2, CompleteByOwnerSafe DEF MarkCompletedByOwner
  <2> QED
    BY <1>1, <2>3, JobFrame, OffChain
<1>5. CASE ConfirmByInvestor("api")
  BY <1>1, <1>5, ConfirmSafe, JobFrame, OffChain
<1> QED
  BY <1>2, <1>3, <1>4, <1>5 DEF RequestStatus

\* Whatever an admin types is typed from then on.
LEMMA EditEventSafe ==
  ASSUME IInv, EditEvent
  PROVE  IInv'
<1>1. /\ UNCHANGED <<clock, chain, logs, jobs>> /\ UNCHANGED procVars
      /\ status \in Statuses /\ Backed(Behind, status) /\ clock \in 0..3 /\ chain \in ChainType
      /\ jobs \in JobsType /\ JobsSafe(Behind, jobs)
      /\ logs \in Seq(LogType) /\ LogsSafe(Behind, logs) /\ typed \subseteq Endings
  BY DEF EditEvent, chainVars, IInv, Types, Safe
<1>2. supply' \in Nat \ {0}
  <2>1. supply \in Nat \ {0} /\ Quantities \subseteq Nat \ {0}
    BY ConstantsType DEF IInv, Types
  <2>2. supply' = supply \/ supply' \in Quantities
    BY DEF EditEvent
  <2> QED
    BY <2>1, <2>2
<1>3. /\ typed' \subseteq Endings /\ typed \subseteq typed' /\ status' \in Statuses
      /\ status' = status \/ (status' \in Endings => status' \in typed')
  BY <1>1 DEF EditEvent, SetStatus
<1>4. Onward /\ Len(logs') >= Len(logs)
  BY <1>1, <1>3 DEF Onward
<1>5. /\ JobsGood(Behind') /\ LogsSafe(Behind', logs') /\ Backed(Behind', status)
  BY <1>1, <1>4, StillSafe DEF JobsGood
<1>6. Backed(Behind', status')
  BY <1>3, <1>5 DEF Backed, Proven, Endings, Behind
<1> QED
  BY <1>1, <1>2, <1>3, <1>4, <1>5, <1>6, Recombined

LEMMA ReadEventSafe ==
  ASSUME IInv, NEW p \in Processes, ReadEvent(p)
  PROVE  IInv'
<1>1. UNCHANGED <<chain, logs, status>> /\ ByJob
  BY DEF ReadEvent
<1>2. jobs[p].goal \in Statuses /\ jobs[p].call \in {"none", "ticket_sales_not_met"}
  BY DEF ReadEvent, At, IInv, Safe, JobsSafe, JobSafe
<1>3. jobs[p].asked \in Nat
  BY DEF IInv, Types, JobsType, JobType
<1>4. JobsGood(Behind)
  BY <1>2, <1>3, UpdateStatusSafe DEF ReadEvent, FailureReasons
<1> QED
  BY <1>1, <1>4, JobFrame, OffChain

LEMMA SendTransactionSafe ==
  ASSUME IInv, NEW p \in Processes, SendTransaction(p)
  PROVE  IInv'
<1>1. /\ jobs \in JobsType /\ JobsSafe(Behind, jobs) /\ Backed(Behind, status)
      /\ status \in Statuses /\ clock \in 0..3
      /\ UNCHANGED status /\ UNCHANGED clock /\ UNCHANGED procVars /\ ByJob
      /\ UNCHANGED typed /\ supply' \in Nat \ {0} /\ typed' \subseteq Endings
  BY DEF SendTransaction, ByJob, IInv, Types, Safe
<1>2. Promises(jobs[p].call, jobs[p].write)
  BY DEF SendTransaction, At, IInv, Safe, JobsSafe, JobSafe
<1>3. jobs[p].call \in Calls \ {"none"} /\ jobs[p].write \in Statuses
  BY <1>2 DEF Promises, Calls, Statuses
<1>4. CASE Transact(jobs[p].call) /\ Writes(p, jobs[p].write)
  <2>1. /\ Onward /\ chain' \in ChainType
        /\ logs' \in Seq(LogType) /\ Len(logs') >= Len(logs) /\ LogsSafe(Behind', logs')
        /\ Backed(Behind', jobs[p].write)
    BY <1>1, <1>2, <1>3, <1>4, Transacted
  <2>2. JobsSafe(Behind', jobs) /\ Backed(Behind', status)
    BY <1>1, <2>1, StillSafe
  <2>3. JobsGood(Behind')
    BY <1>1, <1>3, <1>4, <2>1, <2>2, Turns
  <2> QED
    BY <1>1, <2>1, <2>2, <2>3, Recombined
<1>5. CASE Ends(p) /\ UNCHANGED <<chain, logs>>
  <2>1. JobsGood(Behind)
    BY <1>1, <1>5, Turns
  <2> QED
    BY <1>1, <1>5, <2>1, JobFrame, OffChain
<1> QED
  BY <1>4, <1>5 DEF SendTransaction

\* A job that starts to mint holds a number of tickets and promises nothing.
LEMMA StartsSafe ==
  ASSUME NEW c, NEW p \in Processes, NEW total \in Nat, jobs \in JobsType, JobsSafe(c, jobs),
         Starts(p, total)
  PROVE  JobsGood(c)
<1>1. Plans(p, total) \subseteq Nat
  BY DEF Plans, JobsType, JobType
<1>2. PICK n \in Nat : Becomes(p, [Idle EXCEPT !.at = "mint", !.left = n])
  BY <1>1 DEF Starts
<1>3. /\ [Idle EXCEPT !.at = "mint", !.left = n] \in JobType
      /\ [Idle EXCEPT !.at = "mint", !.left = n].at = "mint"
  BY IdleSafe DEF JobType, JobAts, Idle
<1> QED
  BY <1>2, <1>3, Waiting

LEMMA LookAtChainSafe ==
  ASSUME IInv, NEW p \in Processes, LookAtChain(p)
  PROVE  IInv'
<1>1. /\ UNCHANGED <<chain, logs, status>> /\ ByJob
      /\ jobs \in JobsType /\ JobsSafe(Behind, jobs)
  BY DEF LookAtChain, IInv, Types, Safe
<1>2. CASE Writes(p, "ticketing")
  <2>1. "ticketing" \in Statuses /\ Backed(Behind, "ticketing")
    BY DEF Statuses, Proven, Backed
  <2> QED
    BY <1>1, <1>2, <2>1, Turns, JobFrame, OffChain
<1>3. CASE Sends(p, "finalizeFunding", "cancelled")
  <2>1. Promises("finalizeFunding", "cancelled")
    BY DEF Promises
  <2> QED
    BY <1>1, <1>3, <2>1, Turns, JobFrame, OffChain
<1>4. CASE Starts(p, jobs[p].total)
  <2>1. jobs[p].total \in Nat
    BY <1>1 DEF JobsType, JobType
  <2> QED
    BY <1>1, <1>4, <2>1, StartsSafe, JobFrame, OffChain
<1>5. CASE Becomes(p, [jobs[p] EXCEPT !.at = "mark"])
  <2>1. /\ [jobs[p] EXCEPT !.at = "mark"] \in JobType
        /\ [jobs[p] EXCEPT !.at = "mark"].at = "mark"
    BY <1>1 DEF JobsType, JobType, JobAts
  <2> QED
    BY <1>1, <1>5, <2>1, Waiting, JobFrame, OffChain
<1> QED
  BY <1>2, <1>3, <1>4, <1>5 DEF LookAtChain

LEMMA MarkFundedSafe ==
  ASSUME IInv, NEW p \in Processes, MarkFunded(p)
  PROVE  IInv'
<1>1. /\ UNCHANGED chainVars /\ UNCHANGED procVars /\ UNCHANGED <<supply, typed>>
      /\ jobs \in JobsType /\ JobsSafe(Behind, jobs) /\ supply \in Nat
  BY DEF MarkFunded, ByJob, chainVars, IInv, Types, Safe
<1>2. status' = "funded" /\ status' \in Statuses /\ Backed(Behind, status')
  BY DEF MarkFunded, SetStatus, Statuses, Proven, Backed
<1>3. JobsGood(Behind)
  BY <1>1, StartsSafe DEF MarkFunded
<1> QED
  BY <1>1, <1>2, <1>3, OffChain

LEMMA WriteStatusSafe ==
  ASSUME IInv, NEW p \in Processes, WriteStatus(p)
  PROVE  IInv'
<1>1. /\ UNCHANGED chainVars /\ UNCHANGED procVars /\ UNCHANGED <<supply, typed>>
      /\ jobs \in JobsType /\ JobsSafe(Behind, jobs)
  BY DEF WriteStatus, ByJob, chainVars, IInv, Types, Safe
<1>2. status' \in Statuses /\ Backed(Behind, status')
  BY DEF WriteStatus, At, SetStatus, IInv, Safe, JobsSafe, JobSafe
<1>3. JobsGood(Behind)
  BY <1>1, Turns DEF WriteStatus
<1> QED
  BY <1>1, <1>2, <1>3, OffChain

\* Tickets are minted within the event's number, and the log says the sale is on.
LEMMA MintsSafe ==
  ASSUME IInv, NEW n \in Nat, Mintable(n), Mints(n), UNCHANGED typed
  PROVE  /\ Onward /\ chain' \in ChainType
         /\ logs' \in Seq(LogType) /\ Len(logs') >= Len(logs) /\ LogsSafe(Behind', logs')
<1>1. chain \in ChainType /\ logs \in Seq(LogType)
  BY DEF IInv, Types
<1>2. /\ chain' = [chain EXCEPT !.status = "ticketing", !.minted = @ + n]
      /\ logs' = Append(logs, Log("TicketingStarted"))
      /\ chain.status \in {"funded", "ticketing"} /\ chain.minted + n <= MaxTickets
  BY DEF Mintable, Mints
<1>3. chain.minted + n \in 0..MaxTickets
  BY <1>1, <1>2, ConstantsType DEF ChainType
<1>4. chain' \in ChainType /\ Onward
  BY <1>1, <1>2, <1>3 DEF ChainType, Statuses, Onward, Over
<1>5. LogsSafe(Behind', logs)
  BY <1>4, StillSafe DEF IInv, Safe
<1>6. /\ Log("TicketingStarted") \in LogType
      /\ LogSafe(Behind', Log("TicketingStarted"))
  BY DEF Log, LogType, LogNames, LogSafe, StatusOf, Proven, Statuses
<1>7. /\ <<Log("TicketingStarted")>> \in Seq(LogType)
      /\ LogsSafe(Behind', <<Log("TicketingStarted")>>)
  BY <1>6, OneLog
<1>8. logs' = logs \o <<Log("TicketingStarted")>>
  BY <1>1, <1>2, <1>6
<1> QED
  BY <1>1, <1>4, <1>5, <1>7, <1>8, Grown

LEMMA MintBatchSafe ==
  ASSUME IInv, NEW p \in Processes, MintBatch(p)
  PROVE  IInv'
<1> DEFINE left == jobs[p].left
           n == Smaller(left, MintBatchSize)
<1>1. /\ jobs \in JobsType /\ JobsSafe(Behind, jobs) /\ Backed(Behind, status)
      /\ status \in Statuses /\ clock \in 0..3
      /\ UNCHANGED status /\ UNCHANGED clock /\ UNCHANGED procVars /\ ByJob
      /\ UNCHANGED typed /\ supply' \in Nat \ {0} /\ typed' \subseteq Endings
  BY DEF MintBatch, ByJob, IInv, Types, Safe
<1>2. left \in Nat /\ n \in Nat /\ left - n \in Nat
  BY <1>1, ConstantsType DEF JobsType, JobType, Smaller
<1>3. CASE Mintable(n) /\ Mints(n) /\ AfterBatch(p, n)
  <2>1. /\ Onward /\ chain' \in ChainType
        /\ logs' \in Seq(LogType) /\ Len(logs') >= Len(logs) /\ LogsSafe(Behind', logs')
    <3> HIDE DEF left, n
    <3> QED
      BY <1>1, <1>2, <1>3, MintsSafe
  <2>2. JobsSafe(Behind', jobs) /\ Backed(Behind', status)
    BY <1>1, <2>1, StillSafe
  <2>3. "ticketing" \in Statuses /\ Backed(Behind', "ticketing")
    BY DEF Statuses, Proven, Backed
  <2>4. \/ Writes(p, "ticketing")
        \/ Becomes(p, [jobs[p] EXCEPT !.left = left - n])
    BY <1>3 DEF AfterBatch
  <2>5. /\ [jobs[p] EXCEPT !.left = left - n] \in JobType
        /\ [jobs[p] EXCEPT !.left = left - n].at = "mint"
    <3>1. jobs[p] \in JobType /\ jobs[p].at = "mint"
      BY <1>1 DEF JobsType, MintBatch, At
    <3> HIDE DEF left, n
    <3> QED
      BY <1>2, <3>1 DEF JobType
  <2>6. JobsGood(Behind')
    BY <1>1, <2>2, <2>3, <2>4, <2>5, Turns, Waiting
  <2> QED
    BY <1>1, <2>1, <2>2, <2>6, Recombined
<1>4. CASE Ends(p) /\ UNCHANGED <<chain, logs>>
  <2>1. JobsGood(Behind)
    BY <1>1, <1>4, Turns
  <2> QED
    BY <1>1, <1>4, <2>1, JobFrame, OffChain
<1> QED
  BY <1>3, <1>4 DEF MintBatch

\* The pass in hand writes what a safe log says.
LEMMA HandleLogSafe ==
  ASSUME IInv, HandleLog
  PROVE  IInv'
<1>1. /\ chain' = chain /\ clock' = clock /\ logs' = logs /\ jobs' = jobs
      /\ UNCHANGED <<supply, typed>> /\ Behind' = Behind
      /\ Len(logs) \in Nat /\ ProcType
  BY DEF Behind, HandleLog, ByProcessor, chainVars, IInv, Types
<1>2. proc.at \in 1..Len(logs)
  BY <1>1 DEF HandleLog, ProcType, Asleep
<1>3. status' \in Statuses /\ Backed(Behind, status')
  BY <1>2 DEF HandleLog, IInv, Safe, LogsSafe, LogSafe, Backed
<1>4. ProcType'
  <2>1. CASE proc.at < proc.end /\ proc' = [proc EXCEPT !.at = @ + 1] /\ UNCHANGED settled
    BY <1>1, <1>2, <2>1 DEF ProcType, Asleep
  <2>2. CASE proc' = Asleep /\ settled' \in settled..proc.end
    BY <1>1, <1>2, <2>2 DEF ProcType, Asleep
  <2> QED
    BY <2>1, <2>2 DEF HandleLog
<1>5. Types'
  BY <1>1, <1>3, <1>4 DEF IInv, Types
<1>6. Safe'
  BY <1>1, <1>3 DEF IInv, Safe
<1> QED
  BY <1>5, <1>6 DEF IInv

\* Planning, or giving up, a pass moves nothing but the processor's place.
LEMMA PassSafe ==
  ASSUME IInv, PlanPass \/ ProcessorFails
  PROVE  IInv'
<1>1. /\ UNCHANGED <<clock, chain, logs, status, jobs, settled>>
      /\ UNCHANGED <<supply, typed>> /\ Behind' = Behind
      /\ Len(logs) \in Nat /\ ProcType
  BY DEF Behind, PlanPass, ProcessorFails, ByProcessor, chainVars, IInv, Types
<1>2. \/ proc' = [at |-> settled + 1, end |-> Len(logs)] /\ settled < Len(logs)
      \/ proc' = Asleep
  BY DEF PlanPass, ProcessorFails
<1>3. ProcType'
  BY <1>1, <1>2 DEF ProcType, Asleep
<1>4. Types'
  BY <1>1, <1>3 DEF IInv, Types
<1>5. Safe'
  BY <1>1 DEF IInv, Safe
<1> QED
  BY <1>4, <1>5 DEF IInv

\* The contract's own steps.
LEMMA ChainSafe ==
  ASSUME IInv, Tick \/ GoalReached \/ OrganizerTransacts
  PROVE  IInv'
<1>1. /\ UNCHANGED <<status, jobs>> /\ UNCHANGED procVars
      /\ status \in Statuses /\ Backed(Behind, status) /\ clock \in 0..3 /\ chain \in ChainType
      /\ jobs \in JobsType /\ JobsSafe(Behind, jobs)
      /\ logs \in Seq(LogType) /\ LogsSafe(Behind, logs)
      /\ UNCHANGED typed /\ supply' \in Nat \ {0} /\ typed' \subseteq Endings
  BY DEF Tick, GoalReached, OrganizerTransacts, ByChain, IInv, Types, Safe
<1>2. /\ clock' \in 0..3
      /\ Onward /\ chain' \in ChainType
      /\ logs' \in Seq(LogType) /\ Len(logs') >= Len(logs) /\ LogsSafe(Behind', logs')
  <2>1. CASE Tick
    <3>1. clock' \in 0..3 /\ chain' = chain /\ logs' = logs /\ Len(logs') >= Len(logs)
      BY <1>1, <2>1 DEF Tick
    <3>2. Behind' = Behind
      BY <1>1, <3>1 DEF Behind
    <3> QED
      BY <1>1, <3>1, <3>2 DEF Onward
  <2>2. CASE GoalReached
    <3>1. /\ clock' = clock /\ chain.status = "funding"
          /\ chain' = [chain EXCEPT !.status = "funded"]
          /\ logs' = Append(logs, FundingFinalized("funded"))
      BY <2>2 DEF GoalReached
    <3>2. chain' \in ChainType /\ Onward
      BY <1>1, <3>1 DEF ChainType, Statuses, Onward, Over
    <3>3. LogsSafe(Behind', logs)
      BY <1>1, <3>2, StillSafe
    <3>4. /\ FundingFinalized("funded") \in LogType
          /\ LogSafe(Behind', FundingFinalized("funded"))
      BY DEF FundingFinalized, LogType, LogNames, LogSafe, StatusOf, Proven, Backed, Statuses
    <3>5. /\ <<FundingFinalized("funded")>> \in Seq(LogType)
          /\ LogsSafe(Behind', <<FundingFinalized("funded")>>)
      BY <3>4, OneLog
    <3>6. logs' = logs \o <<FundingFinalized("funded")>>
      BY <1>1, <3>1, <3>4
    <3>7. logs' \in Seq(LogType) /\ Len(logs') >= Len(logs) /\ LogsSafe(Behind', logs')
      BY <1>1, <3>3, <3>5, <3>6, Grown
    <3>8. clock' \in 0..3
      BY <1>1, <3>1
    <3> QED
      BY <3>2, <3>7, <3>8
  <2>3. CASE OrganizerTransacts
    <3>1. clock' \in 0..3
      BY <1>1, <2>3 DEF OrganizerTransacts
    <3>2. CASE \E call \in {"organizer_cancelled", "setCompleted"} : Transact(call)
      <4>1. \A call \in {"organizer_cancelled", "setCompleted"} : call \in Calls \ {"none"}
        BY DEF Calls
      <4> QED
        BY <1>1, <3>1, <3>2, <4>1, Transacted
    <3>3. CASE \E n \in Quantities : Mintable(n) /\ Mints(n)
      <4>1. Quantities \subseteq Nat
        BY ConstantsType
      <4> QED
        BY <1>1, <3>1, <3>3, <4>1, MintsSafe
    <3> QED
      BY <2>3, <3>2, <3>3 DEF OrganizerTransacts
  <2> QED
    BY <2>1, <2>2, <2>3
<1>3. JobsSafe(Behind', jobs) /\ Backed(Behind', status)
  BY <1>1, <1>2, StillSafe
<1>4. JobsGood(Behind')
  BY <1>1, <1>3 DEF JobsGood
<1> QED
  BY <1>1, <1>2, <1>3, <1>4, Recombined

LEMMA JobFailsSafe ==
  ASSUME IInv, NEW p \in Processes, JobFails(p)
  PROVE  IInv'
<1>1. /\ UNCHANGED chainVars /\ UNCHANGED procVars /\ status' = status
      /\ UNCHANGED <<supply, typed>>
      /\ status \in Statuses /\ Backed(Behind, status)
      /\ jobs \in JobsType /\ JobsSafe(Behind, jobs)
  BY DEF JobFails, IInv, Types, Safe
<1>2. JobsGood(Behind)
  BY <1>1, Turns DEF JobFails
<1> QED
  BY <1>1, <1>2, OffChain

-----------------------------------------------------------------------------
(* The theorems.                                                           *)

LEMMA Initially == Init => IInv
<1> SUFFICES ASSUME Init PROVE IInv
  OBVIOUS
<1>1. chain \in ChainType /\ status = chain.status /\ chain.status \in {"funding", "funded"}
  BY ConstantsType DEF Init, ChainType, Statuses
<1>2. logs = <<>> /\ logs \in Seq(LogType) /\ Len(logs) = 0
  BY DEF Init
<1>3. Idle \in JobType /\ JobSafe(Behind, Idle)
  BY IdleSafe
<1>4. jobs \in JobsType /\ JobsSafe(Behind, jobs)
  BY <1>3 DEF Init, JobsType, JobsSafe
<1>5. ProcType
  BY <1>2 DEF Init, ProcType, Asleep
<1>6. Types
  BY <1>1, <1>2, <1>4, <1>5, ConstantsType DEF Init, Types, Statuses
<1>7. Safe
  BY <1>1, <1>2, <1>4 DEF Safe, LogsSafe, Proven, Backed
<1> QED
  BY <1>6, <1>7 DEF IInv

LEMMA Inductive == IInv /\ [Next]_vars => IInv'
<1> SUFFICES ASSUME IInv, [Next]_vars PROVE IInv'
  OBVIOUS
<1>1. CASE Tick \/ GoalReached \/ OrganizerTransacts
  BY <1>1, ChainSafe
<1>2. CASE \E kind \in Kinds : PickDue(kind)
  BY <1>2, PickDueSafe
<1>3. CASE RequestStatus \/ EditEvent
  BY <1>3, RequestStatusSafe, EditEventSafe
<1>4. CASE \E p \in Processes : Step(p)
  BY <1>4, ReadEventSafe, SendTransactionSafe, LookAtChainSafe, MarkFundedSafe,
     MintBatchSafe, WriteStatusSafe DEF Step
<1>5. CASE \E p \in Processes : JobFails(p)
  BY <1>5, JobFailsSafe
<1>6. CASE PlanPass \/ ProcessorFails
  BY <1>6, PassSafe
<1>7. CASE HandleLog
  BY <1>7, HandleLogSafe
<1>8. CASE UNCHANGED vars
  BY <1>8 DEF vars, chainVars, procVars, history, IInv, Types, Safe, ProcType, Behind
<1> QED
  BY <1>1, <1>2, <1>3, <1>4, <1>5, <1>6, <1>7, <1>8 DEF Next, Process

LEMMA Invariant == Spec => []IInv
  BY Initially, Inductive, PTL DEF Spec

\* The types hold in every behaviour; among them, that the chain never holds
\* more tickets than the event has, however many processes mint at once.
THEOREM LifecycleTypes == Spec => []TypeOK
<1>1. IInv => TypeOK
  BY DEF IInv, Types, ProcType, ChainType, JobsType, JobType, TypeOK
<1> QED
  BY <1>1, Invariant, PTL

\* A document never says an event is over before the chain does unless an admin
\* has typed that very status, for any number of requests, edits, failures and
\* replays.
THEOREM EndedNeedsChain == Spec => []EndedOnlyWithChain
<1>1. IInv => EndedOnlyWithChain
  BY DEF IInv, Safe, Proven, Backed, Behind, EndedOnlyWithChain
<1> QED
  BY <1>1, Invariant, PTL
=============================================================================
