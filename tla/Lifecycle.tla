------------------------------ MODULE Lifecycle ------------------------------
(***************************************************************************)
(* The status of one published event in the database, and who moves it:    *)
(* the worker's lifecycle ticks, requests of the admin and of the owner,   *)
(* and the fund processor, which replays the newest Fund logs on every     *)
(* pass.  Worker and API are processes of their own; each job reads the    *)
(* document, sends a transaction, awaits it and writes the document.  The  *)
(* API process ticks too: a tick of a second process does what the request *)
(* for the same status does, so requests stand for it.  An edit of the     *)
(* admin writes what was typed, with no look at the chain.                 *)
(*                                                                         *)
(* The contract is what module Fund says of one event, reduced to its      *)
(* status, what was minted and the logs that move the document; a finalize *)
(* that has nothing to do is no revert but carries no FundingFinalized.    *)
(***************************************************************************)
EXTENDS Naturals, SequencesExt

CONSTANTS
  MaxTickets,     \* of the event on the chain
  Quantities,     \* other numbers of tickets somebody may ask for
  MintBatchSize,  \* getTicketingMintBatchSize
  MaxRequests,    \* bound: requests to the API, ticks of its process, edits
                  \* and the organizer's own mints
  MaxFaults,      \* bound: failed calls and restarts
  MaxUpsets       \* bound: both together

ASSUME LifecycleAssumption ==
  /\ {MaxTickets, MintBatchSize} \union Quantities \subseteq Nat \ {0}
  /\ {MaxRequests, MaxFaults, MaxUpsets} \subseteq Nat

VARIABLES
  clock,     \* 0 funding, 1 ticketing window, 2 until the end, 3 afterwards
  chain,     \* the event in Fund: its status and the tickets minted
  logs,      \* its Fund logs, oldest first
  attended,  \* whether enough tickets will be used (external)
  status,    \* the event document's status
  supply,    \* its total number of tickets
  jobs,      \* what the worker and the API are doing with the event
  requests, faults,   \* so far
  proc,      \* the fund processor: its place in a pass, and the pass's end
  settled,   \* logs behind the rescan window, never handled again
  outrun,    \* history: a job wrote a status that disagrees with the chain
             \* when no log was left to be handled
  typed,     \* history: of the ended statuses, those an admin typed in
  short      \* history: somebody asked for another number of tickets than the
             \* event has, or a failure stopped a job that was minting

chainVars == <<clock, chain, logs, attended>>
procVars == <<proc, settled>>
history == <<outrun, typed, short>>
vars == <<chainVars, status, supply, jobs, requests, faults, procVars, history>>

Processes == {"worker", "api"}
Statuses == {"draft", "funding", "funded", "ticketing", "ongoing",
             "completed", "cancelled", "failed"}
Endings == {"completed", "cancelled", "failed"}
Idle == [at |-> "idle", goal |-> "none", call |-> "none", doc |-> "none",
         write |-> "none", asked |-> 0, total |-> 0, left |-> 0]

----------------------------------------------------------------------------
\* The contract (external; module Fund), which answers with its logs

FundingFinalized(s) == [name |-> "FundingFinalized", arg |-> s]
EventCancelled(reason) == [name |-> "EventCancelled", arg |-> reason]
Log(name) == [name |-> name, arg |-> "none"]

Accepts(call) ==
  CASE call = "finalizeFunding"     -> chain.status = "funding" /\ clock >= 1
    [] call = "organizer_cancelled" -> chain.status \in {"funding", "funded", "ticketing"}
    [] call = "ticket_sales_not_met" -> chain.status = "ticketing"
    [] call = "setCompleted"        -> chain.status = "ticketing" /\ attended

Transact(call) ==
  LET s == IF call = "setCompleted" THEN "completed" ELSE "cancelled" IN
  /\ Accepts(call)
  /\ chain' = [chain EXCEPT !.status = s]
  /\ logs' = logs \o
       CASE call = "setCompleted" -> <<Log("Completed")>>
         [] call = "finalizeFunding" ->
              <<EventCancelled("funding_goal_not_met"), FundingFinalized("cancelled")>>
         [] OTHER -> <<EventCancelled(call)>>

Logged(name) == \E log \in Range(logs) : log.name = name

ByChain == UNCHANGED <<status, supply, jobs, faults, procVars, outrun, typed>>

Tick ==
  /\ clock < 3
  /\ clock' = clock + 1
  /\ UNCHANGED <<chain, logs, attended, requests, short>>
  /\ ByChain

\* FundingSuccessful comes with it, whose handler writes the same.
GoalReached ==
  /\ chain.status = "funding" /\ clock = 0
  /\ chain' = [chain EXCEPT !.status = "funded"]
  /\ logs' = Append(logs, FundingFinalized("funded"))
  /\ UNCHANGED <<clock, attended, requests, short>>
  /\ ByChain

\* Mutant: the total is not checked.
MintableUncapped(n) == chain.status \in {"funded", "ticketing"}

\* startTicketing of n tickets: refused outside the sale or beyond the number.
Mintable(n) == chain.status \in {"funded", "ticketing"} /\ chain.minted + n <= MaxTickets
Mints(n) ==
  /\ chain' = [chain EXCEPT !.status = "ticketing", !.minted = @ + n]
  /\ logs' = Append(logs, Log("TicketingStarted"))

MayRequest == requests < MaxRequests /\ requests + faults < MaxUpsets

\* The organizer's own wallet.
OrganizerTransacts ==
  /\ \/ /\ \E call \in {"organizer_cancelled", "setCompleted"} : Transact(call)
        /\ UNCHANGED <<requests, short>>
     \/ /\ MayRequest
        /\ \E n \in Quantities : Mintable(n) /\ Mints(n)
        /\ requests' = requests + 1 /\ short' = TRUE
  /\ UNCHANGED <<clock, attended>>
  /\ ByChain

----------------------------------------------------------------------------
\* Jobs

At(p, where) == jobs[p].at = where
Becomes(p, job) == jobs' = [jobs EXCEPT ![p] = job]
Ends(p) == Becomes(p, Idle)
Asks(p, goal, reason) == Becomes(p, [Idle EXCEPT !.at = "read", !.goal = goal, !.call = reason])
\* Once the transaction is mined, the job writes status s.
Sends(p, call, s) == Becomes(p, [Idle EXCEPT !.at = "send", !.call = call, !.write = s])
Writes(p, s) == Becomes(p, [Idle EXCEPT !.at = "write", !.write = s])

ChainStatusAgrees(s) ==
  s \in CASE chain.status = "ticketing" -> {"ticketing", "ongoing"}
          [] chain.status = "cancelled" -> {"cancelled", "failed"}
          [] OTHER -> {chain.status}

SetStatus(s) ==
  /\ status' = s
  /\ outrun' = (settled = Len(logs) /\ ~ChainStatusAgrees(s))

ByJob == UNCHANGED <<clock, attended, supply, faults, procVars, typed>>

\* Mutant: what was missed in its own period is not due later.
DueInPeriod(kind) ==
  CASE kind = "funding"    -> status = "funding" /\ clock = 1
    [] kind = "ticketing"  -> status \in {"funding", "funded"} /\ clock = 1
    [] kind = "resolution" -> status = "ticketing" /\ clock = 2
    [] kind = "settlement" -> status = "ongoing" /\ clock >= 3

\* The four queries of a tick.  An event all of whose tickets are minted is
\* left out of the second once their documents are there, which may take time.
Due(kind) ==
  CASE kind = "funding"    -> status = "funding" /\ clock >= 1
    [] kind = "ticketing"  -> status \in {"funding", "funded"} /\ clock = 1
    [] kind = "resolution" -> status = "ticketing" /\ clock >= 2
    [] kind = "settlement" -> status = "ongoing" /\ clock >= 3
Kinds == {"funding", "ticketing", "resolution", "settlement"}

AutoFinalizeFundingDeadline == Asks("worker", "funded", "none")
\* It asks for what the candidate still lacks: all of it, or the look at the
\* chain finds the sale open.
AutoStartTicketing ==
  Becomes("worker", [Idle EXCEPT !.at = "read", !.goal = "ticketing", !.asked = supply])

\* Sales are counted in documents that may lag, so the threshold may be found
\* unmet; when it is met the status is written without another look.
AutoResolveTicketingOutcome ==
  Writes("worker", "ongoing") \/ Asks("worker", "failed", "ticket_sales_not_met")

AutoResolveEndedEvent ==
  IF attended THEN Asks("worker", "completed", "none")
              ELSE Asks("worker", "failed", "ticket_sales_not_met")

\* One candidate of runAutoEventLifecycleTick.
PickDue(kind) ==
  /\ At("worker", "idle")
  /\ Due(kind)
  /\ CASE kind = "funding"    -> AutoFinalizeFundingDeadline
       [] kind = "ticketing"  -> AutoStartTicketing
       [] kind = "resolution" -> AutoResolveTicketingOutcome
       [] kind = "settlement" -> AutoResolveEndedEvent
  /\ UNCHANGED <<chain, logs, status, requests, outrun, short>>
  /\ ByJob

\* updateEventStatus up to its first transaction.  A failure without a reason
\* takes the one its status suggests.
ReadByUpdateStatus(p, goal, reason, asked) ==
  IF status = goal \/ status = "completed" \/ goal \in {"draft", "funding"} THEN Ends(p)
  ELSE CASE goal = "funded" -> Sends(p, "finalizeFunding", "failed")
         [] goal = "completed" -> Sends(p, "setCompleted", "completed")
         [] goal = "cancelled" -> Sends(p, "organizer_cancelled", "cancelled")
         [] goal = "failed" ->
              Sends(p, IF reason # "none" THEN reason
                       ELSE IF status = "ticketing" THEN "ticket_sales_not_met"
                       ELSE "finalizeFunding", "failed")
         [] goal = "ongoing" -> IF status = "ticketing" THEN Writes(p, "ongoing") ELSE Ends(p)
         [] goal = "ticketing" ->
              IF clock # 1 THEN Ends(p)
              ELSE Becomes(p, [Idle EXCEPT !.at = "look", !.asked = asked, !.total = supply,
                                           !.doc = IF status = "funded" THEN "funded" ELSE "other"])

\* updateEvent with a status.  The owner's wallet may have sent the
\* transaction already: then only its receipt is looked at.
CancelByOwner(p, sent) ==
  IF ~sent THEN Sends(p, "organizer_cancelled", "cancelled")
  ELSE IF Logged("EventCancelled") THEN Writes(p, "cancelled")
  ELSE Ends(p)

CompleteByOwner(p, sent) ==
  IF ~sent THEN Sends(p, "setCompleted", "completed")
  ELSE IF Logged("Completed") THEN Writes(p, "completed")
  ELSE Ends(p)

OwnerTransitions ==
  [draft |-> {"cancelled"}, funding |-> {"cancelled"}, funded |-> {"cancelled", "ticketing"},
   ticketing |-> {"cancelled", "ongoing", "completed"}, ongoing |-> {"completed"},
   completed |-> {}, cancelled |-> {}, failed |-> {}]

\* The status the document has is asked for as any other, and written back.
ReadByOwner(p, goal, sent) ==
  CASE goal \notin OwnerTransitions[status] \union {status} -> Ends(p)
    [] goal = "cancelled" -> CancelByOwner(p, sent)
    [] goal = "completed" -> CompleteByOwner(p, sent)
    [] OTHER -> Writes(p, goal)

\* markEventAsCompleted, from which "completed" itself is excluded.
MarkCompletedByOwner(p, sent) ==
  IF status \in {"ticketing", "ongoing"} THEN CompleteByOwner(p, sent) ELSE Ends(p)

\* The confirmation of an investment writes the status it read, or "funded"
\* when the contributions reach the goal.
ConfirmByInvestor(p) ==
  \/ Writes(p, status)
  \/ /\ status = "funding" /\ FundingFinalized("funded") \in Range(logs)
     /\ Writes(p, "funded")

ReadEvent(p) ==
  /\ At(p, "read")
  /\ ReadByUpdateStatus(p, jobs[p].goal, jobs[p].call, jobs[p].asked)
  /\ UNCHANGED <<chain, logs, status, requests, outrun, short>>
  /\ ByJob

\* What normalizeFailureReason is given, by the call it leads to.
FailureReasons == {"none", "ticket_sales_not_met", "finalizeFunding"}

\* A request begins by reading the document.
RequestStatus ==
  /\ At("api", "idle") /\ MayRequest
  /\ requests' = requests + 1
  /\ \/ \E goal \in Statuses, reason \in FailureReasons, asked \in Quantities \union {0} :
          ReadByUpdateStatus("api", goal, reason, asked)
     \/ \E goal \in Statuses, sent \in BOOLEAN : ReadByOwner("api", goal, sent)
     \/ \E sent \in BOOLEAN : MarkCompletedByOwner("api", sent)
     \/ ConfirmByInvestor("api")
  /\ UNCHANGED <<chain, logs, status, outrun, short>>
  /\ ByJob

\* updateEvent of the admin, and what it has of the owner's: one write of any
\* status, of another number of tickets, or both.
EditEvent ==
  /\ MayRequest
  /\ requests' = requests + 1
  /\ supply' \in Quantities \union {supply}
  /\ \/ UNCHANGED <<status, outrun, typed>>
     \/ \E s \in Statuses : SetStatus(s) /\ typed' = typed \union ({s} \intersect Endings)
  /\ UNCHANGED <<chainVars, jobs, faults, procVars, short>>

\* Mutant: a reverted transaction is taken for a mined one.
SendTransactionUnchecked(p) ==
  /\ At(p, "send")
  /\ IF Accepts(jobs[p].call) THEN Transact(jobs[p].call) ELSE UNCHANGED <<chain, logs>>
  /\ Writes(p, jobs[p].write)
  /\ UNCHANGED <<status, requests, outrun, short>>
  /\ ByJob

\* A revert, or a receipt without the log looked for, ends the job.  After
\* setCompleted the revenue is released too, whose log moves no status further.
SendTransaction(p) ==
  /\ At(p, "send")
  /\ \/ Transact(jobs[p].call) /\ Writes(p, jobs[p].write)
     \/ ~Accepts(jobs[p].call) /\ Ends(p) /\ UNCHANGED <<chain, logs>>
  /\ UNCHANGED <<status, requests, outrun, short>>
  /\ ByJob

\* buildTicketMintPlan: the number asked for, or the document's when none is or
\* when the event has ticket tiers, whose total it is.
Plans(p, total) == IF jobs[p].asked = 0 THEN {total} ELSE {jobs[p].asked, total}
Starts(p, total) ==
  \E n \in Plans(p, total) :
    /\ Becomes(p, [Idle EXCEPT !.at = "mint", !.left = n])
    /\ short' = (short \/ n # MaxTickets)

\* getEventStatus.  Whatever is neither ticketing nor funding is taken for
\* funded.
LookAtChain(p) ==
  /\ At(p, "look")
  /\ CASE chain.status = "ticketing" -> Writes(p, "ticketing") /\ UNCHANGED short
       [] chain.status = "funding" -> Sends(p, "finalizeFunding", "cancelled") /\ UNCHANGED short
       [] chain.status \notin {"ticketing", "funding"} /\ jobs[p].doc = "funded" ->
            Starts(p, jobs[p].total)
       [] OTHER -> Becomes(p, [jobs[p] EXCEPT !.at = "mark"]) /\ UNCHANGED short
  /\ UNCHANGED <<chain, logs, status, requests, outrun>>
  /\ ByJob

\* The update returns the document as it is now.
MarkFunded(p) ==
  /\ At(p, "mark")
  /\ SetStatus("funded")
  /\ Starts(p, supply)
  /\ UNCHANGED <<chain, logs, requests>>
  /\ ByJob

Smaller(a, b) == IF a < b THEN a ELSE b

AfterBatch(p, n) ==
  IF jobs[p].left = n THEN Writes(p, "ticketing")
  ELSE Becomes(p, [jobs[p] EXCEPT !.left = @ - n])

\* Mutant: the loop looks at the chain again before each batch.
MintBatchOnce(p) ==
  LET n == Smaller(jobs[p].left, MintBatchSize) IN
  /\ At(p, "mint")
  /\ \/ chain.status = "funded" /\ Mintable(n) /\ Mints(n) /\ AfterBatch(p, n)
     \/ ~(chain.status = "funded" /\ Mintable(n)) /\ Ends(p) /\ UNCHANGED <<chain, logs>>
  /\ UNCHANGED <<status, requests, outrun, short>>
  /\ ByJob

\* startTicketingWithPrice for the next batch; after the last one the status.
\* The tickets' own documents are module TicketSync's.
MintBatch(p) ==
  LET n == Smaller(jobs[p].left, MintBatchSize) IN
  /\ At(p, "mint")
  /\ \/ Mintable(n) /\ Mints(n) /\ AfterBatch(p, n)
     \/ ~Mintable(n) /\ Ends(p) /\ UNCHANGED <<chain, logs>>
  /\ UNCHANGED <<status, requests, outrun, short>>
  /\ ByJob

WriteStatus(p) ==
  /\ At(p, "write")
  /\ SetStatus(jobs[p].write)
  /\ Ends(p)
  /\ UNCHANGED <<chain, logs, requests, short>>
  /\ ByJob

Step(p) ==
  \/ ReadEvent(p) \/ SendTransaction(p) \/ LookAtChain(p)
  \/ MarkFunded(p) \/ MintBatch(p) \/ WriteStatus(p)

\* A call throws or the process restarts; nothing remembers the job.
JobFails(p) ==
  /\ ~At(p, "idle") /\ faults < MaxFaults /\ requests + faults < MaxUpsets
  /\ faults' = faults + 1
  /\ short' = (short \/ (At(p, "mint") /\ chain.minted > 0))
  /\ Ends(p)
  /\ UNCHANGED <<chainVars, status, supply, requests, procVars, outrun, typed>>

----------------------------------------------------------------------------
\* The fund processor

\* What each handler writes.
StatusOf(log) ==
  CASE log.name = "FundingFinalized" -> log.arg
    [] log.name = "EventCancelled" ->
         IF log.arg = "organizer_cancelled" THEN "cancelled" ELSE "failed"
    [] log.name = "TicketingStarted" -> "ticketing"
    [] log.name = "Completed" -> "completed"

Asleep == [at |-> 0, end |-> 0]
ByProcessor == UNCHANGED <<chainVars, supply, jobs, requests, typed, short>>

\* Mutant: progress is saved before the logs are handled.
PlanPassSavesFirst ==
  /\ proc = Asleep /\ settled < Len(logs)
  /\ proc' = [at |-> settled + 1, end |-> Len(logs)]
  /\ settled' = Len(logs)
  /\ UNCHANGED <<status, faults, outrun>>
  /\ ByProcessor

\* Every pass starts a window behind the cursor, handled before or not.
PlanPass ==
  /\ proc = Asleep /\ settled < Len(logs)
  /\ proc' = [at |-> settled + 1, end |-> Len(logs)]
  /\ UNCHANGED <<status, settled, faults, outrun>>
  /\ ByProcessor

\* At its end the cursor has moved, and logs may be behind the window now.
HandleLog ==
  /\ proc # Asleep
  /\ status' = StatusOf(logs[proc.at])
  /\ outrun' = FALSE
  /\ IF proc.at < proc.end THEN proc' = [proc EXCEPT !.at = @ + 1] /\ UNCHANGED settled
     ELSE proc' = Asleep /\ settled' \in settled..proc.end
  /\ UNCHANGED faults
  /\ ByProcessor

\* The cursor stays where it was, so the next pass starts no later.
ProcessorFails ==
  /\ proc # Asleep /\ faults < MaxFaults /\ requests + faults < MaxUpsets
  /\ faults' = faults + 1
  /\ proc' = Asleep
  /\ UNCHANGED <<status, settled, outrun>>
  /\ ByProcessor

Process == PlanPass \/ HandleLog

----------------------------------------------------------------------------
\* An event whose funding is open, or one that needs no investment; the logs
\* of its creation have left the window.
Init ==
  /\ clock = 0
  /\ \E invest \in BOOLEAN :
       /\ chain = [status |-> IF invest THEN "funding" ELSE "funded", minted |-> 0]
       /\ status = chain.status
  /\ supply = MaxTickets
  /\ attended \in BOOLEAN
  /\ logs = <<>>
  /\ jobs = [p \in Processes |-> Idle]
  /\ requests = 0 /\ faults = 0
  /\ proc = Asleep /\ settled = 0
  /\ outrun = FALSE /\ typed = {} /\ short = FALSE

Next ==
  \/ Tick \/ GoalReached \/ OrganizerTransacts
  \/ \E kind \in Kinds : PickDue(kind)
  \/ RequestStatus \/ EditEvent
  \/ \E p \in Processes : Step(p) \/ JobFails(p)
  \/ Process \/ ProcessorFails

\* Calls return or throw, ticks come every 30 seconds and the processor polls;
\* time passes, and passes move the window over every log.  Users owe nothing.
Fairness ==
  /\ \A kind \in Kinds :
       WF_vars((kind = "ticketing" => chain.minted < supply) /\ PickDue(kind))
  /\ \A p \in Processes : WF_vars(Step(p))
  /\ WF_vars(Process) /\ WF_vars(Tick)
  /\ SF_vars(HandleLog /\ settled' > settled)

Spec == Init /\ [][Next]_vars
FairSpec == Spec /\ Fairness

----------------------------------------------------------------------------
\* Properties

JobAts == {"idle", "read", "send", "look", "mark", "mint", "write"}

\* Types; the processor never plans past the logs, nothing settles that no pass
\* has handled, and the chain never holds more tickets than the event has,
\* however many processes mint at once.
TypeOK ==
  /\ clock \in 0..3
  /\ chain \in [status: Statuses, minted: 0..MaxTickets]
  /\ status \in Statuses /\ supply \in Nat \ {0} /\ typed \subseteq Endings
  /\ \A p \in Processes : jobs[p].at \in JobAts /\ jobs[p].left \in Nat
  /\ settled <= Len(logs) /\ proc.at <= proc.end /\ proc.end <= Len(logs)

ChainEnded == chain.status \in {"completed", "cancelled"}

\* A document that says the event is over has the chain behind it, whichever
\* process wrote it, whatever it had read, and however often logs are replayed;
\* otherwise that very status has been typed in by an admin.
EndedOnlyWithChain ==
  /\ status = "completed" => chain.status = "completed" \/ status \in typed
  /\ status \in {"cancelled", "failed"} => chain.status = "cancelled" \/ status \in typed

\* Once the event is over on the chain, the document says so in the end and for
\* ever, though every rescan writes the older statuses again and a job may
\* write what it read long ago: only a write that no replay of the event's last
\* log follows can spoil it.
StatusSettles == <>[](ChainEnded => ChainStatusAgrees(status) \/ outrun)

\* An event that sold tickets is ended by the ticks once its time is over,
\* through lagging counts, replays that undo "ongoing", failures and requests
\* in between.  One whose sale nobody opened in its window stays funded.
EventResolves ==
  []<>(clock = 3 => ChainEnded \/ chain.status = "funded" \/ outrun)

\* Opening the sale mints every ticket although the status is ticketing from
\* the first batch and jobs compete, unless the event is over meanwhile, a
\* failure stopped a job that was minting, or somebody asked for another number:
\* the organizer's wallet, a request, or an edit of the document.
WholeSupplyMinted ==
  []<>(chain.status = "ticketing" => chain.minted = MaxTickets \/ short)
=============================================================================
