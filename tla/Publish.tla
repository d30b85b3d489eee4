------------------------------- MODULE Publish -------------------------------
(***************************************************************************)
(* How an event gets on the chain and its document an identity.  Four      *)
(* writers meet in one collection: an organizer who signs the transaction  *)
(* of a draft and confirms it, the relayer that creates document and event *)
(* in one request, an admin who publishes a draft through the relayer, and *)
(* the fund processor, which gives each EventCreated log to the latest     *)
(* draft of that organizer with the same parameters, or to a new document. *)
(* The drafts are those of one organizer, who has two addresses and made   *)
(* them for one, but may sign with either and confirm with any document.   *)
(*                                                                         *)
(* A unique index keeps two documents from the same identity; a write that *)
(* breaks it throws.                                                       *)
(***************************************************************************)
EXTENDS Naturals, Sequences, FiniteSets

CONSTANTS
  Drafts,        \* documents requests create
  Params,        \* the goal, stake, price, tickets and threshold of each
  Edits,         \* what its owner may change them to
  Invest,        \* those of them with a funding goal
  Second,        \* those of them the organizer may sign with the other address
  None,          \* no draft, no document
  Requests,      \* requests that may run at a time
  MaxRequests    \* bound: requests to confirm, publish, edit or delete, and failures

ASSUME PublishAssumption ==
  /\ Drafts \intersect Nat = {} /\ None \notin Drafts \union Nat
  /\ IsFiniteSet(Drafts) /\ IsFiniteSet(Requests)
  /\ DOMAIN Params = Drafts /\ DOMAIN Edits = Drafts /\ Invest \subseteq Drafts /\ Second \subseteq Drafts
  /\ MaxRequests \in Nat

VARIABLES
  made,       \* drafts in the order of creation
  params,     \* the parameters the document of each draft has now
  unsigned,   \* drafts whose own transaction, built when they were made, the
              \* organizer has yet to sign
  chain,      \* created events, in order: the draft and the sender
  docs,       \* the documents
  reqs,       \* the requests under way
  floor,      \* events whose log the processor's window has left behind
  pass,       \* its pass: the log in hand, and the draft found for it
  count,      \* requests and failures so far
  confirmed,  \* history: events whose confirmation succeeded
  lost,       \* history: events that lost their document after the
              \* processor had read their log
  discarded,  \* history: drafts that were deleted, not merged
  crossed     \* history: drafts touched by a confirmation that named a document
              \* of another draft than the event's

processorVars == <<floor, pass>>
history == <<confirmed, lost, discarded, crossed>>
vars == <<made, params, unsigned, chain, docs, reqs, processorVars, count, history>>

Events == 1..Cardinality(Drafts) + MaxRequests
Ids == Drafts \union Events     \* a document made for event e alone has the id e
Absent == [status |-> "absent", event |-> 0, content |-> None]
Idle == [at |-> "idle", draft |-> None, event |-> 0, target |-> None, content |-> None]
LookingAt(e) == [at |-> e, found |-> "unread"]

Exists(i) == docs[i].status # "absent"
IsDraft(i) == docs[i].status = "draft"
Holders(e) == {i \in Ids : docs[i].event = e}
Counted == count < MaxRequests /\ count' = count + 1

\* Has the processor yet to look at the log of event e?
Unread(e) == e > pass.at \/ pass = LookingAt(e)

\* The documents become new; an identity that goes is restored by the
\* processor if it has yet to read the log.
Gone(new) == {e \in Events : Holders(e) # {} /\ \A i \in Ids : new[i].event # e}
Store(new) ==
  /\ docs' = new
  /\ lost' = lost \union {e \in Gone(new) : ~Unread(e)}
  /\ UNCHANGED discarded

\* Also lost is an event the processor has just given to the draft.
Delete(d) ==
  LET new == [docs EXCEPT ![d] = Absent] IN
  /\ docs' = new
  /\ lost' = lost \union {e \in Events : (e \in Gone(new) /\ ~Unread(e)) \/ pass = [at |-> e, found |-> d]}
Discard(d) == Delete(d) /\ discarded' = discarded \union {d}
Untouched == UNCHANGED <<docs, lost, discarded>>

\* Mutant: the index is not unique.
RefusedNever(i, e) == FALSE

\* The identity index.
Refused(i, e) == Holders(e) \ {i} # {}
Identified(i, e, content) ==
  [docs EXCEPT ![i] = IF Exists(i) THEN [status |-> "open", event |-> e, content |-> content] ELSE @]

\* Mutant: only the organizer counts.
MatchingOrganizer(e) ==
  IF chain[e].by # "organizer" THEN {} ELSE {d \in Drafts : IsDraft(d)}

\* findMatchingDraftForOnChainEvent: the latest draft of the organizer with the
\* parameters of the event.  Neither the relayer nor the other address has any.
Matching(e) ==
  IF chain[e].by # "organizer" THEN {}
  ELSE {d \in Drafts : IsDraft(d) /\ params[d] = Params[chain[e].draft]}
Position(d) == CHOOSE k \in DOMAIN made : made[k] = d
Latest(ds) ==
  IF ds = {} THEN None ELSE CHOOSE d \in ds : \A c \in ds : Position(c) <= Position(d)

----------------------------------------------------------------------------
\* Requests

At(r, where) == reqs[r].at = where
Becomes(r, req) == reqs' = [reqs EXCEPT ![r] = req]
Ends(r) == Becomes(r, Idle)
Free(r) == At(r, "idle") /\ r = CHOOSE any \in Requests : At(any, "idle")
MayStart(r) == Free(r) /\ Counted

ByRequest == UNCHANGED processorVars

New(d, status) ==
  /\ \A k \in DOMAIN made : made[k] # d
  /\ made' = Append(made, d)
  /\ docs' = [docs EXCEPT ![d] = [status |-> status, event |-> 0, content |-> d]]
  /\ UNCHANGED <<params, chain, count, history>>
  /\ ByRequest

\* createCreateEventIntent.
CreateIntent(d) ==
  /\ New(d, "draft")
  /\ unsigned' = unsigned \union {d}
  /\ UNCHANGED reqs

\* createEvent, up to its document.
CreateDocument(r, d) ==
  /\ Free(r)
  /\ New(d, IF d \in Invest THEN "open" ELSE "draft")
  /\ Becomes(r, [Idle EXCEPT !.at = "create", !.draft = d])
  /\ UNCHANGED unsigned

Created(d, by) == chain' = Append(chain, [draft |-> d, by |-> by])

\* The organizer signs the transaction of the intent, perhaps with the other
\* address (external).
Sign(d) ==
  /\ d \in unsigned
  /\ unsigned' = unsigned \ {d}
  /\ Created(d, "organizer") \/ (d \in Second /\ Created(d, "second"))
  /\ UNCHANGED <<made, params, docs, reqs, count, history>>
  /\ ByRequest

\* updateEvent, of its owner or an admin, as far as drafts are found by it.
EditDraft(d) ==
  /\ IsDraft(d) /\ Counted
  /\ \E v \in Edits[d] : params' = [params EXCEPT ![d] = v]
  /\ UNCHANGED <<made, unsigned, chain, docs, reqs, history>>
  /\ ByRequest

\* updateEventStatus of an event without identity, up to
\* publishDraftEventOnChain.
StartPublish(r, d) ==
  /\ MayStart(r)
  /\ Exists(d) /\ d \notin Invest /\ docs[d].event = 0
  /\ Becomes(r, [Idle EXCEPT !.at = "publish", !.draft = d])
  /\ UNCHANGED <<made, params, unsigned, chain, docs, history>>
  /\ ByRequest

\* The relayer's transaction, mined.
RelayCreate(r) ==
  /\ At(r, "create") \/ At(r, "publish")
  /\ Len(chain) < Cardinality(Events)
  /\ Created(reqs[r].draft, "relayer")
  /\ Becomes(r, [reqs[r] EXCEPT !.at = IF @ = "create" THEN "created" ELSE "published",
                                !.event = Len(chain) + 1])
  /\ UNCHANGED <<made, params, unsigned, count, confirmed, crossed>>
  /\ Untouched /\ ByRequest

\* The identity is written.  createEvent deletes its document when that fails,
\* although the event exists.
RecordIdentity(r) ==
  LET d == reqs[r].draft  e == reqs[r].event IN
  /\ At(r, "created") \/ At(r, "published")
  /\ IF ~Refused(d, e) THEN Store(Identified(d, e, docs[d].content))
     ELSE IF At(r, "created") THEN Discard(d)
     ELSE Untouched
  /\ Ends(r)
  /\ UNCHANGED <<made, params, unsigned, chain, count, confirmed, crossed>>
  /\ ByRequest

\* A document is the organizer's unless the log of a relayer's event made it.
Owned == Drafts \union {e \in DOMAIN chain : chain[e].by # "relayer"}

\* Whom a confirmation of event e with document d may leave with another's
\* content or identity: nobody, if the event was created from that draft.
Crossing(e, d) ==
  IF docs[d].content = chain[e].draft /\ docs[d].event \in {0, e} THEN {}
  ELSE ({docs[d].content, chain[e].draft} \ {None})
         \union (IF docs[d].event = 0 THEN {} ELSE {chain[docs[d].event].draft})

\* confirmCreateEventTransaction with the document of the request, or a draft
\* that matches: nothing compares a named one with the log.  One that has the
\* identity already is done.
StartConfirm(r, e, d) ==
  /\ MayStart(r)
  /\ chain[e].by # "relayer"
  /\ d \in Owned /\ Exists(d)
  /\ IF docs[d].event = e
       THEN confirmed' = confirmed \union {e} /\ UNCHANGED reqs
       ELSE /\ Becomes(r, [Idle EXCEPT !.at = IF docs[d].event = 0 THEN "confirm" ELSE "confirm-again",
                                       !.draft = d, !.event = e, !.content = docs[d].content])
            /\ UNCHANGED confirmed
  /\ crossed' = crossed \union Crossing(e, d)
  /\ UNCHANGED <<made, params, unsigned, chain>>
  /\ Untouched /\ ByRequest

\* Mutant: ids are compared as objects, and a draft is another document.
FindHolderAnother(r) ==
  LET req == reqs[r]  others == Holders(req.event) IN
  /\ At(r, "confirm") \/ At(r, "confirm-again")
  /\ Becomes(r, IF others = {} THEN [req EXCEPT !.at = "write", !.target = req.draft]
                ELSE [req EXCEPT !.at = IF @ = "confirm" THEN "merge" ELSE "write",
                                 !.target = CHOOSE i \in others : TRUE])
  /\ UNCHANGED <<made, params, unsigned, chain, count, confirmed, crossed>>
  /\ Untouched /\ ByRequest

\* findByOnChainIdentity.  What the draft holds was read before.
FindHolder(r) ==
  LET req == reqs[r]  others == Holders(req.event) \ {req.draft} IN
  /\ At(r, "confirm") \/ At(r, "confirm-again")
  /\ Becomes(r, IF others = {} THEN [req EXCEPT !.at = "write", !.target = req.draft]
                ELSE [req EXCEPT !.at = IF @ = "confirm" THEN "merge" ELSE "write",
                                 !.target = CHOOSE i \in others : TRUE])
  /\ UNCHANGED <<made, params, unsigned, chain, count, confirmed, crossed>>
  /\ Untouched /\ ByRequest

\* buildConfirmedEventPatch, over the document that was found.
WriteConfirmed(r) ==
  LET req == reqs[r] IN
  /\ At(r, "write") \/ At(r, "merge")
  /\ IF Refused(req.target, req.event) THEN Untouched /\ UNCHANGED confirmed /\ Ends(r)
     ELSE /\ Store(Identified(req.target, req.event, req.content))
          /\ confirmed' = confirmed \union {req.event}
          /\ IF At(r, "merge") THEN Becomes(r, [req EXCEPT !.at = "drop"]) ELSE Ends(r)
  /\ UNCHANGED <<made, params, unsigned, chain, count, crossed>>
  /\ ByRequest

\* deleteEvent reads the status first.
StartDelete(r, d) ==
  /\ MayStart(r)
  /\ IsDraft(d)
  /\ Becomes(r, [Idle EXCEPT !.at = "delete", !.draft = d])
  /\ UNCHANGED <<made, params, unsigned, chain, confirmed, crossed>>
  /\ Untouched /\ ByRequest

\* Of a merged draft, and of a deleted one.
DeleteDocument(r) ==
  /\ \/ At(r, "drop") /\ Delete(reqs[r].draft) /\ UNCHANGED discarded
     \/ At(r, "delete") /\ Discard(reqs[r].draft)
  /\ Ends(r)
  /\ UNCHANGED <<made, params, unsigned, chain, count, confirmed, crossed>>
  /\ ByRequest

\* A call throws, which makes createEvent delete its document, or the process
\* restarts.
RequestFails(r) ==
  /\ ~At(r, "idle")
  /\ Counted
  /\ \/ Untouched
     \/ /\ At(r, "create") \/ At(r, "created")
        /\ Discard(reqs[r].draft)
  /\ Ends(r)
  /\ UNCHANGED <<made, params, unsigned, chain, confirmed, crossed>>
  /\ ByRequest

----------------------------------------------------------------------------
\* The fund processor

ByProcessor == UNCHANGED <<made, params, unsigned, chain, reqs, count, confirmed, crossed>>

MatchDraft ==
  /\ pass = LookingAt(pass.at) /\ pass.at <= Len(chain)
  /\ pass' = [pass EXCEPT !.found = Latest(Matching(pass.at))]
  /\ UNCHANGED floor
  /\ Untouched /\ ByProcessor

\* Mutant: the document of the event is updated only.
UpsertedNever(e) == docs

\* The rest of handleEventCreated: with no draft the document of the event is
\* updated, or inserted if none has the identity.
Upserted(e) ==
  IF Holders(e) # {} THEN docs
  ELSE [docs EXCEPT ![e] = [status |-> "open", event |-> e, content |-> None]]

\* The last log of a pass saves the progress; how far the window follows
\* depends on the head.
NextLog ==
  IF pass.at < Len(chain)
    THEN pass' = LookingAt(pass.at + 1) /\ UNCHANGED floor
    ELSE floor' \in floor..pass.at /\ pass' = LookingAt(floor' + 1)

\* A refused write throws and ends the pass; the next begins again.
\* Nothing is written to a draft deleted since it was found.
HandleEventCreated ==
  LET d == pass.found  e == pass.at IN
  /\ pass # LookingAt(e)
  /\ IF d = None THEN Store(Upserted(e)) /\ NextLog
     ELSE IF Refused(d, e) THEN Untouched /\ pass' = LookingAt(floor + 1) /\ UNCHANGED floor
     ELSE Store(Identified(d, e, docs[d].content)) /\ NextLog
  /\ ByProcessor

Processor == MatchDraft \/ HandleEventCreated

----------------------------------------------------------------------------
Init ==
  /\ made = <<>> /\ params = Params /\ unsigned = {} /\ chain = <<>>
  /\ docs = [i \in Ids |-> Absent]
  /\ reqs = [r \in Requests |-> Idle]
  /\ floor = 0 /\ pass = LookingAt(1)
  /\ count = 0
  /\ confirmed = {} /\ lost = {} /\ discarded = {} /\ crossed = {}

Handle(r) ==
  RelayCreate(r) \/ RecordIdentity(r) \/ FindHolder(r) \/ WriteConfirmed(r) \/ DeleteDocument(r)

Next ==
  \/ \E d \in Drafts : CreateIntent(d) \/ Sign(d) \/ EditDraft(d)
  \/ \E r \in Requests :
       \/ \E d \in Drafts : CreateDocument(r, d) \/ StartPublish(r, d) \/ StartDelete(r, d)
       \/ \E e \in DOMAIN chain, d \in Ids : StartConfirm(r, e, d)
       \/ Handle(r) \/ RequestFails(r)
  \/ Processor

\* The processor polls; every call of a request returns or throws.
Fairness == WF_vars(Processor) /\ \A r \in Requests : WF_vars(Handle(r))

Spec == Init /\ [][Next]_vars
FairSpec == Spec /\ Fairness
----------------------------------------------------------------------------
\* Properties

\* Types; no event has two documents; a draft has no event.
TypeOK ==
  /\ docs \in [Ids -> [status : {"absent", "draft", "open"}, event : Events \union {0},
                       content : Drafts \union {None}]]
  /\ \A e \in Events : Cardinality(Holders(e)) <= 1 /\ (Holders(e) # {} => e \in DOMAIN chain)
  /\ \A i \in Ids : ~Exists(i) \/ IsDraft(i) => docs[i].event = 0
  /\ \A r \in Requests : reqs[r].draft \in Ids \union {None} /\ reqs[r].target \in Ids \union {None}
  /\ floor \in 0..Len(chain) /\ pass.at \in floor + 1..Len(chain) + 1

\* The document of an event describes the draft the event was created from,
\* whichever of the writers joined the two, as long as no other draft comes to
\* have its parameters and no confirmation named that draft for another event, or
\* another document for the event of that draft.
RightDocument ==
  \A i \in Ids : docs[i].event # 0 /\ docs[i].content # None =>
    LET d == chain[docs[i].event].draft IN docs[i].content = d \/ d \in crossed

\* Does the log of event e end every pass that comes to it?  Its draft is still
\* there, and the identity belongs to another document.
Blocks(e) == Latest(Matching(e)) \in {d \in Drafts : Refused(d, e)}

\* Every event on the chain has a document in the end, with or without a
\* confirmation: what stays without one lost it to a request after the
\* processor had read its log, or lies behind a log that ends every pass since
\* its draft was not the document it was confirmed with.
EveryEventDocumented ==
  <>[](\A e \in DOMAIN chain :
         Holders(e) # {} \/ e \in lost
           \/ \E f \in floor + 1..e - 1 : Blocks(f) /\ chain[f].draft \in crossed)

\* Once a confirmation has answered, the event keeps showing what its
\* organizer entered, also if the processor had given it an empty document
\* before, unless the draft was deleted, published a second time or confirmed with
\* another event.
ConfirmedShown ==
  <>[](\A e \in confirmed :
         \/ \E i \in Holders(e) : docs[i].content = chain[e].draft
         \/ chain[e].draft \in discarded \union crossed
         \/ \E f \in DOMAIN chain \ {e} : chain[f].draft = chain[e].draft)
=============================================================================
