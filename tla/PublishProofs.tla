---------------------------- MODULE PublishProofs ----------------------------
(***************************************************************************)
(* What Publish keeps for any number of drafts and of requests at a time:  *)
(* an event never has two documents, no draft has an event, and, when no   *)
(* draft can have the parameters of another, the document of an event      *)
(* describes the draft it was created from, or that draft was named for    *)
(* another event.                                                          *)
(*                                                                         *)
(* A request and the processor write an event id and a content they read   *)
(* awaits ago, so the invariant says of these what the properties say of   *)
(* the documents.  That every created event is one the model has room for  *)
(* is a count: each is paid for by a draft or by a counted request.        *)
(***************************************************************************)
EXTENDS Publish, FiniteSetTheorems, WellFoundedInduction, TLAPS

Log == [draft : Drafts, by : {"organizer", "second", "relayer"}]

\* Requests that may still create an event.
Creating == {r \in Requests : reqs[r].at \in {"create", "publish"}}

Counts ==
  /\ made \in Seq(Drafts)
  /\ \A k, l \in DOMAIN made : made[k] = made[l] => k = l
  /\ unsigned \subseteq Drafts
  /\ chain \in Seq(Log)
  /\ count \in 0..MaxRequests
  /\ Len(chain) + Cardinality(unsigned) + Cardinality(Creating) <= Len(made) + count

Document ==
  [status : {"absent", "draft", "open"}, event : Events \union {0}, content : Drafts \union {None}]

\* The documents D after n created events.
DocsOK(D, n) ==
  /\ D \in [Ids -> Document]
  /\ \A i \in Ids : D[i].event \in 0..n
  /\ \A i, j \in Ids : D[i].event = D[j].event /\ D[i].event # 0 => i = j
  /\ \A i \in Ids : D[i].status # "open" => D[i].event = 0
  /\ \A i \in Ids \ Drafts : D[i].status # "absent" => D[i].event # 0

\* A draft with a document was made.
Known == \A d \in Drafts : Exists(d) => \E k \in DOMAIN made : made[k] = d

Confirming == {"confirm", "confirm-again", "write", "merge"}
Places == Confirming \union
  {"idle", "create", "created", "publish", "published", "drop", "delete"}

Request ==
  [at : Places, draft : Ids \union {None}, event : Events \union {0},
   target : Ids \union {None}, content : Drafts \union {None}]

\* The request q, with the chain at c.
ReqOK(q, c) ==
  /\ q \in Request
  /\ q.at # "idle" => q.draft \in Ids
  /\ q.at \notin {"idle", "confirm-again", "write"} => q.draft \in Drafts
  /\ q.at \in Confirming \union {"created", "published"} => q.event \in DOMAIN c
  /\ q.at \in {"created", "published"} => c[q.event].draft = q.draft
  /\ q.at \in {"write", "merge"} => q.target \in Ids

Pass == [at : Nat, found : Drafts \union {None, "unread"}]

ProcOK(f, p, n) ==
  /\ p \in Pass
  /\ f \in 0..n /\ p.at \in f + 1..n + 1
  /\ p.found # "unread" => p.at <= n

ReqsInv == reqs \in [Requests -> Request] /\ \A r \in Requests : ReqOK(reqs[r], chain)

IInv ==
  /\ Counts
  /\ DocsOK(docs, Len(chain))
  /\ Known
  /\ ReqsInv
  /\ ProcOK(floor, pass, Len(chain))

-----------------------------------------------------------------------------
\* No draft has, or can be edited to have, the parameters of another.
Apart == \A c, d \in Drafts : Params[d] \in {Params[c]} \union Edits[c] => c = d

ParamsRight ==
  DOMAIN params = Drafts /\ \A d \in Drafts : params[d] \in {Params[d]} \union Edits[d]

\* The documents D, the chain c and the drafts x that were crossed: another
\* draft's document describes the draft, and its event is one created from it;
\* the document of an event describes the draft of the event, or nothing.
DocsRight(D, c, x) ==
  /\ \A d \in Drafts \ x : /\ D[d].status # "absent" => D[d].content = d
                           /\ D[d].event # 0 => c[D[d].event].draft = d
  /\ \A i \in Ids : D[i].event # 0 =>
       D[i].content \in {None, c[D[i].event].draft} \/ c[D[i].event].draft \in x

\* What a confirmation is about to write.
ReqRight(q, c, x) ==
  /\ q.at \in Confirming =>
       /\ q.content = c[q.event].draft \/ c[q.event].draft \in x
       /\ q.draft \in Drafts \ x => c[q.event].draft = q.draft
  /\ q.at \in {"write", "merge"} => (q.target \in Drafts \ x => c[q.event].draft = q.target)

ProcRight(p, c) == p.found \notin {None, "unread"} => c[p.at].draft = p.found

RightInv ==
  /\ ParamsRight
  /\ DocsRight(docs, chain, crossed)
  /\ \A r \in Requests : ReqRight(reqs[r], chain, crossed)
  /\ ProcRight(pass, chain)

-----------------------------------------------------------------------------
(* Events are counted.                                                     *)

LEMMA ConstantsType ==
  /\ IsFiniteSet(Drafts) /\ IsFiniteSet(Requests)
  /\ Cardinality(Drafts) \in Nat /\ MaxRequests \in Nat
  /\ Events = 1..Cardinality(Drafts) + MaxRequests
  /\ Cardinality(Events) = Cardinality(Drafts) + MaxRequests
  /\ Drafts \intersect Nat = {} /\ None \notin Ids /\ Events \subseteq Nat /\ 0 \notin Events
<1>1. IsFiniteSet(Drafts) /\ MaxRequests \in Nat
  BY PublishAssumption DEF PublishAssumption
<1>2. Cardinality(Drafts) \in Nat
  BY <1>1, FS_CardinalityType
<1>3. Cardinality(Drafts) + MaxRequests \in Int /\ 1 \in Int
  BY <1>1, <1>2
<1>4. Cardinality(1..Cardinality(Drafts) + MaxRequests) = Cardinality(Drafts) + MaxRequests
  BY <1>1, <1>2, <1>3, FS_Interval
<1> QED
  BY <1>1, <1>2, <1>4, PublishAssumption DEF PublishAssumption, Events, Ids

LEMMA CreatingFinite ==
  /\ IsFiniteSet(Creating) /\ Cardinality(Creating) \in Nat
  /\ IsFiniteSet(Creating') /\ Cardinality(Creating') \in Nat
<1>1. Creating \in SUBSET Requests /\ Creating' \in SUBSET Requests
  BY DEF Creating
<1>2. IsFiniteSet(Creating) /\ IsFiniteSet(Creating')
  BY <1>1, ConstantsType, FS_Subset
<1> QED
  BY <1>2, FS_CardinalityType

LEMMA UnsignedFinite ==
  ASSUME Counts
  PROVE  IsFiniteSet(unsigned) /\ Cardinality(unsigned) \in Nat
<1>1. IsFiniteSet(unsigned)
  BY ConstantsType, FS_Subset DEF Counts
<1> QED
  BY <1>1, FS_CardinalityType

LEMMA MadeBound ==
  ASSUME Counts
  PROVE  Len(made) \in Nat /\ Len(made) <= Cardinality(Drafts)
<1>1. Len(made) \in Nat /\ made \in [1..Len(made) -> Drafts] /\ DOMAIN made = 1..Len(made)
  BY DEF Counts
<1>2. IsFiniteSet(1..Len(made)) /\ Cardinality(1..Len(made)) = Len(made)
  <2>1. Len(made) \in Int /\ 1 \in Int
    BY <1>1
  <2> QED
    BY <1>1, <2>1, FS_Interval
<1>3. ASSUME Cardinality(Drafts) < Len(made)
      PROVE  FALSE
  <2>1. \E k, l \in 1..Len(made) : k # l /\ made[k] = made[l]
    BY <1>1, <1>2, <1>3, ConstantsType, FS_PigeonHole
  <2> QED
    BY <1>1, <2>1 DEF Counts
<1> QED
  BY <1>1, <1>3, ConstantsType

\* There is an id for every created event.
Fits ==
  /\ Len(chain) \in Nat /\ Len(chain) <= Cardinality(Events)
  /\ DOMAIN chain = 1..Len(chain) /\ DOMAIN chain \subseteq Events
  /\ \A e \in DOMAIN chain : chain[e] \in Log

LEMMA ChainFits == Counts => Fits
<1> SUFFICES ASSUME Counts
             PROVE  Fits
  OBVIOUS
<1>1. /\ Len(chain) \in Nat /\ DOMAIN chain = 1..Len(chain)
      /\ \A e \in DOMAIN chain : chain[e] \in Log
  BY DEF Counts
<1>2. Len(chain) <= Cardinality(Drafts) + MaxRequests
  BY <1>1, ConstantsType, CreatingFinite, UnsignedFinite, MadeBound DEF Counts
<1> QED
  BY <1>1, <1>2, ConstantsType DEF Fits

LEMMA ChainFitsNext == Counts' => Fits'
BY ChainFits, PTL

\* A request that goes on to the place it may create an event from, and one
\* that does not.
LEMMA CreatingGrows ==
  ASSUME reqs \in [Requests -> Request], NEW r \in Requests, NEW q, Becomes(r, q)
  PROVE  Cardinality(Creating') <= Cardinality(Creating) + 1
<1>1. Creating' \in SUBSET (Creating \union {r})
  BY DEF Becomes, Creating
<1>2. /\ IsFiniteSet(Creating \union {r})
      /\ Cardinality(Creating \union {r}) = IF r \in Creating THEN Cardinality(Creating) ELSE Cardinality(Creating) + 1
  BY CreatingFinite, FS_AddElement
<1>3. Cardinality(Creating') <= Cardinality(Creating \union {r})
  BY <1>1, <1>2, FS_Subset
<1> QED
  BY <1>2, <1>3, CreatingFinite

LEMMA CreatingShrinks ==
  ASSUME reqs \in [Requests -> Request], NEW r \in Requests, NEW q, Becomes(r, q),
         q.at \notin {"create", "publish"}
  PROVE  Cardinality(Creating') = IF r \in Creating THEN Cardinality(Creating) - 1 ELSE Cardinality(Creating)
<1>1. Creating' = Creating \ {r}
  BY DEF Becomes, Creating
<1> QED
  BY <1>1, CreatingFinite, FS_RemoveElement

\* Nothing is made, signed or created.
LEMMA CountsFrame ==
  ASSUME Counts, UNCHANGED <<made, unsigned, chain>>, count' \in {count, count + 1}, count' <= MaxRequests,
         Cardinality(Creating') <= Cardinality(Creating)
  PROVE  Counts'
<1>1. count \in Nat /\ count' \in Nat /\ Len(made) \in Nat /\ Len(chain) \in Nat
  BY DEF Counts
<1>2. Len(chain) + Cardinality(unsigned) + Cardinality(Creating') <= Len(made) + count'
  BY <1>1, CreatingFinite, UnsignedFinite DEF Counts
<1> QED
  BY <1>1, <1>2, ConstantsType DEF Counts

LEMMA NewMade ==
  ASSUME Counts, NEW d \in Drafts, NEW status, New(d, status)
  PROVE  /\ made' \in Seq(Drafts) /\ Len(made') = Len(made) + 1
         /\ \A k, l \in DOMAIN made' : made'[k] = made'[l] => k = l
<1>1. /\ made \in Seq(Drafts) /\ made' = Append(made, d)
      /\ \A k, l \in DOMAIN made : made[k] = made[l] => k = l
      /\ \A k \in DOMAIN made : made[k] # d
  BY DEF Counts, New
<1>2. /\ made' \in Seq(Drafts) /\ Len(made') = Len(made) + 1 /\ made'[Len(made) + 1] = d
      /\ DOMAIN made' = 1..Len(made) + 1 /\ DOMAIN made = 1..Len(made) /\ Len(made) \in Nat
      /\ \A k \in 1..Len(made) : made'[k] = made[k]
  BY <1>1
<1>3. \A k \in DOMAIN made' : k \in DOMAIN made \/ k = Len(made) + 1
  BY <1>2
<1> QED
  BY <1>1, <1>2, <1>3

LEMMA CreateIntentCounts ==
  ASSUME Counts, NEW d \in Drafts, CreateIntent(d)
  PROVE  Counts'
<1>1. New(d, "draft") /\ unsigned' = unsigned \union {d} /\ UNCHANGED <<reqs, chain, count>>
  BY DEF CreateIntent, New
<1>2. Cardinality(unsigned') \in Nat /\ Cardinality(unsigned') <= Cardinality(unsigned) + 1
  <2>1. /\ IsFiniteSet(unsigned \union {d})
        /\ Cardinality(unsigned \union {d}) = IF d \in unsigned THEN Cardinality(unsigned) ELSE Cardinality(unsigned) + 1
    BY UnsignedFinite, FS_AddElement
  <2> QED
    BY <1>1, <2>1, UnsignedFinite
<1>3. made' \in Seq(Drafts) /\ Len(made') = Len(made) + 1 /\ \A k, l \in DOMAIN made' : made'[k] = made'[l] => k = l
  BY <1>1, NewMade
<1>4. Creating' = Creating
  BY <1>1 DEF Creating
<1>5. Len(chain) \in Nat /\ Len(made) \in Nat /\ count \in Nat /\ Cardinality(Creating) \in Nat
  BY CreatingFinite DEF Counts
<1>6. Len(chain) + Cardinality(unsigned') + Cardinality(Creating) <= Len(made') + count
  BY <1>2, <1>3, <1>5, UnsignedFinite DEF Counts
<1> QED
  BY <1>1, <1>3, <1>4, <1>6 DEF Counts

LEMMA CreateDocumentCounts ==
  ASSUME Counts, reqs \in [Requests -> Request], NEW r \in Requests, NEW d \in Drafts, CreateDocument(r, d)
  PROVE  Counts'
<1>1. PICK status : New(d, status) /\ UNCHANGED <<unsigned, chain, count>>
  BY DEF CreateDocument, New
<1>2. Cardinality(Creating') <= Cardinality(Creating) + 1
  BY CreatingGrows DEF CreateDocument
<1>3. made' \in Seq(Drafts) /\ Len(made') = Len(made) + 1 /\ \A k, l \in DOMAIN made' : made'[k] = made'[l] => k = l
  BY <1>1, NewMade
<1>4. Len(chain) \in Nat /\ Len(made) \in Nat /\ count \in Nat
  BY DEF Counts
<1>5. Len(chain) + Cardinality(unsigned) + Cardinality(Creating') <= Len(made') + count
  BY <1>2, <1>3, <1>4, CreatingFinite, UnsignedFinite DEF Counts
<1> QED
  BY <1>1, <1>3, <1>5 DEF Counts

\* The chain only grows.
Grows == DOMAIN chain \subseteq DOMAIN chain' /\ \A e \in DOMAIN chain : chain'[e] = chain[e]

LEMMA CreatedChain ==
  ASSUME Counts, NEW d \in Drafts, NEW by \in {"organizer", "second", "relayer"}, Created(d, by)
  PROVE  /\ chain' \in Seq(Log) /\ Len(chain') = Len(chain) + 1 /\ Len(chain) \in Nat
         /\ Len(chain) + 1 \in DOMAIN chain' /\ chain'[Len(chain) + 1] = [draft |-> d, by |-> by]
         /\ Grows
<1>1. chain \in Seq(Log) /\ [draft |-> d, by |-> by] \in Log
  BY DEF Counts, Log
<1>2. chain' = Append(chain, [draft |-> d, by |-> by])
  BY DEF Created
<1> QED
  BY <1>1, <1>2 DEF Grows

LEMMA SignCounts ==
  ASSUME Counts, NEW d \in Drafts, Sign(d)
  PROVE  Counts'
<1>1. /\ d \in unsigned /\ unsigned' = unsigned \ {d} /\ UNCHANGED <<made, reqs, count>>
      /\ Created(d, "organizer") \/ Created(d, "second")
  BY DEF Sign
<1>2. Cardinality(unsigned') = Cardinality(unsigned) - 1
  BY <1>1, UnsignedFinite, FS_RemoveElement
<1>3. chain' \in Seq(Log) /\ Len(chain') = Len(chain) + 1 /\ Len(chain) \in Nat
  BY <1>1, CreatedChain
<1>4. Creating' = Creating
  BY <1>1 DEF Creating
<1>5. Len(chain') + Cardinality(unsigned') + Cardinality(Creating) <= Len(made) + count
  BY <1>2, <1>3, CreatingFinite, UnsignedFinite DEF Counts
<1> QED
  BY <1>1, <1>3, <1>4, <1>5 DEF Counts

LEMMA StartPublishCounts ==
  ASSUME Counts, reqs \in [Requests -> Request], NEW r \in Requests, NEW d \in Drafts, StartPublish(r, d)
  PROVE  Counts'
<1>1. UNCHANGED <<made, unsigned, chain>> /\ count < MaxRequests /\ count' = count + 1
  BY DEF StartPublish, MayStart, Counted
<1>2. Cardinality(Creating') <= Cardinality(Creating) + 1
  BY CreatingGrows DEF StartPublish
<1>3. Len(chain) \in Nat /\ Len(made) \in Nat /\ count \in Nat /\ count' \in 0..MaxRequests
  BY <1>1, ConstantsType DEF Counts
<1>4. Len(chain) + Cardinality(unsigned) + Cardinality(Creating') <= Len(made) + count'
  BY <1>1, <1>2, <1>3, CreatingFinite, UnsignedFinite DEF Counts
<1> QED
  BY <1>1, <1>3, <1>4 DEF Counts

LEMMA RelayCreateCounts ==
  ASSUME Counts, reqs \in [Requests -> Request], NEW r \in Requests, reqs[r].draft \in Drafts, RelayCreate(r)
  PROVE  Counts'
<1>1. Created(reqs[r].draft, "relayer") /\ UNCHANGED <<made, unsigned, count>> /\ r \in Creating
  BY DEF RelayCreate, At, Creating
<1>2. PICK q : Becomes(r, q) /\ q.at \notin {"create", "publish"}
  <2> DEFINE q == [reqs[r] EXCEPT !.at = IF @ = "create" THEN "created" ELSE "published", !.event = Len(chain) + 1]
  <2>1. q.at \in {"created", "published"}
    BY DEF Request
  <2> QED
    BY <2>1 DEF RelayCreate
<1>3. Cardinality(Creating') = Cardinality(Creating) - 1
  BY <1>1, <1>2, CreatingShrinks
<1>4. chain' \in Seq(Log) /\ Len(chain') = Len(chain) + 1 /\ Len(chain) \in Nat
  BY <1>1, CreatedChain
<1>5. Len(chain') + Cardinality(unsigned) + Cardinality(Creating') <= Len(made) + count
  BY <1>3, <1>4, CreatingFinite, UnsignedFinite DEF Counts
<1> QED
  BY <1>1, <1>4, <1>5 DEF Counts


-----------------------------------------------------------------------------
(* What the writes do to the documents.                                    *)

LEMMA MoreEvents ==
  ASSUME NEW D, NEW n \in Nat, NEW m \in Nat, n <= m, DocsOK(D, n)
  PROVE  DocsOK(D, m)
BY DEF DocsOK

LEMMA IdentifiedOK ==
  ASSUME NEW n \in Nat, n <= Cardinality(Events), DocsOK(docs, n), NEW i \in Ids, NEW e \in 1..n,
         ~Refused(i, e), NEW content \in Drafts \union {None}
  PROVE  /\ DocsOK(Identified(i, e, content), n)
         /\ \A j \in Ids : Identified(i, e, content)[j].status # "absent" => Exists(j)
<1> DEFINE new == [status |-> "open", event |-> e, content |-> content]
           D == Identified(i, e, content)
<1>1. e \in Events /\ e # 0
  BY ConstantsType
<1>2. new \in Document
  BY <1>1 DEF Document
<1>3. docs \in [Ids -> Document]
  BY DEF DocsOK
<1>4. /\ D \in [Ids -> Document]
      /\ \A j \in Ids \ {i} : D[j] = docs[j]
      /\ D[i] = IF Exists(i) THEN new ELSE docs[i]
  BY <1>2, <1>3 DEF Identified
<1>5. new.status = "open" /\ new.event = e
  OBVIOUS
<1>6. \A j \in Ids \ {i} : docs[j].event # e
  BY DEF Refused, Holders
<1> HIDE DEF new, D
<1>7. DocsOK(D, n)
  BY <1>1, <1>4, <1>5, <1>6 DEF DocsOK
<1>8. \A j \in Ids : D[j].status # "absent" => Exists(j)
  BY <1>4 DEF Exists
<1> QED
  BY <1>7, <1>8 DEF D

LEMMA AbsentOK ==
  ASSUME NEW n \in Nat, DocsOK(docs, n), NEW d \in Drafts
  PROVE  /\ DocsOK([docs EXCEPT ![d] = Absent], n)
         /\ \A j \in Ids : [docs EXCEPT ![d] = Absent][j].status # "absent" => Exists(j)
<1> DEFINE D == [docs EXCEPT ![d] = Absent]
<1>1. d \in Ids /\ Absent \in Document /\ Absent.status = "absent" /\ Absent.event = 0
  BY DEF Ids, Document, Absent
<1>2. D \in [Ids -> Document] /\ D[d] = Absent /\ \A j \in Ids \ {d} : D[j] = docs[j]
  BY <1>1 DEF DocsOK
<1> HIDE DEF D
<1>3. DocsOK(D, n)
  BY <1>1, <1>2 DEF DocsOK
<1>4. \A j \in Ids : D[j].status # "absent" => Exists(j)
  BY <1>1, <1>2 DEF Exists
<1> QED
  BY <1>3, <1>4 DEF D

LEMMA NewOK ==
  ASSUME NEW n \in Nat, DocsOK(docs, n), NEW d \in Drafts, NEW status \in {"draft", "open"}
  PROVE  DocsOK([docs EXCEPT ![d] = [status |-> status, event |-> 0, content |-> d]], n)
<1> DEFINE new == [status |-> status, event |-> 0, content |-> d]
           D == [docs EXCEPT ![d] = new]
<1>1. d \in Ids /\ new \in Document /\ new.event = 0
  BY DEF Ids, Document
<1>2. D \in [Ids -> Document] /\ D[d] = new /\ \A j \in Ids \ {d} : D[j] = docs[j]
  BY <1>1 DEF DocsOK
<1> HIDE DEF new, D
<1>3. DocsOK(D, n)
  BY <1>1, <1>2 DEF DocsOK
<1> QED
  BY <1>3 DEF D, new

LEMMA UpsertedOK ==
  ASSUME NEW n \in Nat, n <= Cardinality(Events), DocsOK(docs, n), NEW e \in 1..n
  PROVE  /\ DocsOK(Upserted(e), n)
         /\ \A d \in Drafts : Upserted(e)[d] = docs[d]
<1> DEFINE new == [status |-> "open", event |-> e, content |-> None]
           D == [docs EXCEPT ![e] = new]
<1>1. e \in Events /\ e # 0 /\ e \in Ids /\ e \notin Drafts
  BY ConstantsType DEF Ids
<1>2. new \in Document /\ new.event = e /\ new.status = "open"
  BY <1>1 DEF Document
<1>3. D \in [Ids -> Document] /\ D[e] = new /\ \A j \in Ids \ {e} : D[j] = docs[j]
  BY <1>1, <1>2 DEF DocsOK
<1>4. CASE Holders(e) = {}
  <2>1. Upserted(e) = D
    BY <1>4 DEF Upserted
  <2>2. \A j \in Ids : docs[j].event # e
    BY <1>4 DEF Holders
  <2> HIDE DEF new, D
  <2>3. DocsOK(D, n)
    BY <1>1, <1>2, <1>3, <2>2 DEF DocsOK
  <2>4. \A d \in Drafts : D[d] = docs[d]
    BY <1>1, <1>3 DEF Ids
  <2> QED
    BY <2>1, <2>3, <2>4
<1>5. CASE Holders(e) # {}
  BY <1>5 DEF Upserted
<1> QED
  BY <1>4, <1>5

\* No draft got a document it had not.
LEMMA KnownFrame ==
  ASSUME Known, UNCHANGED made, \A d \in Drafts : docs'[d].status # "absent" => Exists(d)
  PROVE  Known'
BY DEF Known, Exists

-----------------------------------------------------------------------------
(* Requests and the processor while events are created.                    *)

LEMMA MoreChain ==
  ASSUME NEW q, NEW c, NEW d, ReqOK(q, c), DOMAIN c \subseteq DOMAIN d, \A e \in DOMAIN c : d[e] = c[e]
  PROVE  ReqOK(q, d)
BY DEF ReqOK

LEMMA ReqsKept ==
  ASSUME ReqsInv, Grows, NEW r \in Requests, NEW q, Becomes(r, q), ReqOK(q, chain')
  PROVE  ReqsInv'
<1>1. \A s \in Requests : ReqOK(reqs[s], chain')
  BY MoreChain DEF ReqsInv, Grows
<1>2. q \in Request
  BY DEF ReqOK
<1>3. reqs' \in [Requests -> Request] /\ \A s \in Requests : reqs'[s] = IF s = r THEN q ELSE reqs[s]
  BY <1>2 DEF ReqsInv, Becomes
<1> QED
  BY <1>1, <1>3 DEF ReqsInv

LEMMA ReqsFrame ==
  ASSUME ReqsInv, Grows, UNCHANGED reqs
  PROVE  ReqsInv'
BY MoreChain DEF ReqsInv, Grows

LEMMA IdleOK ==
  ASSUME NEW c
  PROVE  ReqOK(Idle, c)
BY DEF ReqOK, Idle, Request, Places, Confirming

LEMMA ProcFrame ==
  ASSUME NEW n \in Nat, NEW m \in Nat, n <= m, ProcOK(floor, pass, n), UNCHANGED processorVars
  PROVE  ProcOK(floor', pass', m)
BY DEF ProcOK, processorVars

\* The latest of several drafts is one of them.
LEMMA LatestIsOne ==
  ASSUME Counts, Known, NEW ds \in SUBSET {d \in Drafts : Exists(d)}, ds # {}
  PROVE  Latest(ds) \in ds
<1>1. \A d \in ds : Position(d) \in DOMAIN made /\ made[Position(d)] = d
  BY DEF Known, Position
<1>2. Len(made) \in Nat /\ DOMAIN made = 1..Len(made)
  BY DEF Counts
<1>3. \A d \in ds : Position(d) \in Nat /\ Position(d) <= Len(made)
  BY <1>1, <1>2
<1> DEFINE Behind(d) == Len(made) - Position(d)
           B == {Behind(d) : d \in ds}
<1>4. B \subseteq Nat /\ B # {}
  BY <1>2, <1>3
<1>5. PICK x \in B : \A y \in B : ~(<<y, x>> \in OpToRel(<, Nat))
  <2> HIDE DEF B
  <2> QED
    BY <1>4, NatLessThanWellFounded, WFMin, Zenon
<1>6. PICK d \in ds : x = Behind(d)
  OBVIOUS
<1>7. \A c \in ds : Position(c) <= Position(d)
  <2> SUFFICES ASSUME NEW c \in ds
               PROVE  Position(c) <= Position(d)
    OBVIOUS
  <2>1. Behind(c) \in B /\ Behind(c) \in Nat /\ x \in Nat
    BY <1>4
  <2>2. ~(Behind(c) < x)
    BY <1>5, <2>1 DEF OpToRel
  <2> QED
    BY <1>2, <1>3, <1>6, <2>2
<1> QED
  BY <1>7 DEF Latest


-----------------------------------------------------------------------------
(* The requests.                                                           *)

DocsKept ==
  /\ DocsOK(docs', Len(chain))
  /\ \A d \in Drafts : docs'[d].status # "absent" => Exists(d)

LEMMA UntouchedKept ==
  ASSUME IInv, Untouched
  PROVE  DocsKept
BY DEF IInv, DocsKept, Untouched, Exists

LEMMA AbsentKept ==
  ASSUME IInv, NEW d \in Drafts, docs' = [docs EXCEPT ![d] = Absent]
  PROVE  DocsKept
<1>1. Len(chain) \in Nat
  BY ChainFits DEF IInv, Fits
<1> QED
  BY <1>1, AbsentOK DEF IInv, DocsKept, Ids

LEMMA IdentifiedKept ==
  ASSUME IInv, NEW i \in Ids, NEW e \in DOMAIN chain, ~Refused(i, e), NEW content \in Drafts \union {None},
         docs' = Identified(i, e, content)
  PROVE  DocsKept
<1>1. Len(chain) \in Nat /\ Len(chain) <= Cardinality(Events) /\ DOMAIN chain = 1..Len(chain)
  BY ChainFits DEF IInv, Fits
<1> QED
  BY <1>1, IdentifiedOK DEF IInv, DocsKept, Ids

\* Drafts and chain stay, and one request goes on.
LEMMA RequestKept ==
  ASSUME IInv, Counts', UNCHANGED <<made, chain>>, ByRequest, DocsKept,
         NEW r \in Requests, NEW q, Becomes(r, q), ReqOK(q, chain)
  PROVE  IInv'
<1>1. Grows /\ Len(chain) \in Nat /\ Len(chain') = Len(chain)
  BY ChainFits DEF IInv, Fits, Grows
<1>2. ReqsInv'
  BY <1>1, ReqsKept DEF IInv
<1>3. Known'
  BY KnownFrame DEF IInv, DocsKept
<1>4. ProcOK(floor', pass', Len(chain))
  BY <1>1, ProcFrame DEF IInv, ByRequest
<1> QED
  BY <1>1, <1>2, <1>3, <1>4 DEF IInv, DocsKept

LEMMA FrameKept ==
  ASSUME IInv, Counts', UNCHANGED <<made, chain, reqs>>, ByRequest, DocsKept
  PROVE  IInv'
<1>1. Grows /\ Len(chain) \in Nat /\ Len(chain') = Len(chain)
  BY ChainFits DEF IInv, Fits, Grows
<1>2. ReqsInv'
  BY <1>1, ReqsFrame DEF IInv
<1>3. Known'
  BY KnownFrame DEF IInv, DocsKept
<1>4. ProcOK(floor', pass', Len(chain))
  BY <1>1, ProcFrame DEF IInv, ByRequest
<1> QED
  BY <1>1, <1>2, <1>3, <1>4 DEF IInv, DocsKept

\* The counts of a request that creates nothing.
LEMMA RequestCounts ==
  ASSUME IInv, UNCHANGED <<made, unsigned, chain>>, count' = count \/ Counted,
         NEW r \in Requests, NEW q, Becomes(r, q), q.at \notin {"create", "publish"}
  PROVE  Counts'
<1>1. Cardinality(Creating') <= Cardinality(Creating)
  BY CreatingShrinks, CreatingFinite DEF IInv, ReqsInv
<1>2. count' \in {count, count + 1} /\ count' <= MaxRequests
  BY ConstantsType DEF IInv, Counts, Counted
<1> QED
  BY <1>1, <1>2, CountsFrame DEF IInv

LEMMA NewKnown ==
  ASSUME IInv, NEW d \in Drafts, NEW status \in {"draft", "open"}, New(d, status)
  PROVE  DocsOK(docs', Len(chain)) /\ Known'
<1>1. Len(chain) \in Nat
  BY ChainFits DEF IInv, Fits
<1>2. DocsOK(docs', Len(chain))
  BY <1>1, NewOK DEF IInv, New
<1>3. /\ docs \in [Ids -> Document] /\ made \in Seq(Drafts) /\ made' = Append(made, d)
      /\ docs' = [docs EXCEPT ![d] = [status |-> status, event |-> 0, content |-> d]]
  BY DEF IInv, DocsOK, Counts, New
<1>4. /\ DOMAIN made \subseteq DOMAIN made' /\ \A k \in DOMAIN made : made'[k] = made[k]
      /\ Len(made) + 1 \in DOMAIN made' /\ made'[Len(made) + 1] = d
  BY <1>3
<1>5. \A c \in Drafts \ {d} : docs'[c] = docs[c]
  BY <1>3 DEF Ids
<1>6. Known'
  BY <1>4, <1>5 DEF IInv, Known, Exists
<1> QED
  BY <1>2, <1>6

LEMMA CreateIntentKept ==
  ASSUME IInv, NEW d \in Drafts, CreateIntent(d)
  PROVE  IInv'
<1>1. Counts'
  BY CreateIntentCounts DEF IInv
<1>2. New(d, "draft") /\ UNCHANGED <<chain, reqs>> /\ ByRequest
  BY DEF CreateIntent, New
<1>3. DocsOK(docs', Len(chain)) /\ Known'
  BY <1>2, NewKnown
<1>4. Grows /\ Len(chain) \in Nat /\ Len(chain') = Len(chain)
  BY <1>2, ChainFits DEF IInv, Fits, Grows
<1>5. ReqsInv'
  BY <1>2, <1>4, ReqsFrame DEF IInv
<1>6. ProcOK(floor', pass', Len(chain))
  BY <1>2, <1>4, ProcFrame DEF IInv, ByRequest
<1> QED
  BY <1>1, <1>3, <1>4, <1>5, <1>6 DEF IInv

LEMMA CreateDocumentKept ==
  ASSUME IInv, NEW r \in Requests, NEW d \in Drafts, CreateDocument(r, d)
  PROVE  IInv'
<1> DEFINE q == [Idle EXCEPT !.at = "create", !.draft = d]
<1>1. Counts'
  BY CreateDocumentCounts DEF IInv, ReqsInv
<1>2. PICK status \in {"draft", "open"} : New(d, status)
  BY DEF CreateDocument
<1>3. UNCHANGED chain /\ ByRequest /\ Becomes(r, q)
  BY <1>2 DEF CreateDocument, New
<1>4. DocsOK(docs', Len(chain)) /\ Known'
  BY <1>2, NewKnown
<1>5. Grows /\ Len(chain) \in Nat /\ Len(chain') = Len(chain)
  BY <1>3, ChainFits DEF IInv, Fits, Grows
<1>6. ReqOK(q, chain')
  BY DEF ReqOK, Idle, Request, Places, Confirming, Ids
<1> HIDE DEF q
<1>7. ReqsInv'
  BY <1>3, <1>5, <1>6, ReqsKept DEF IInv
<1>8. ProcOK(floor', pass', Len(chain))
  BY <1>3, <1>5, ProcFrame DEF IInv, ByRequest
<1> QED
  BY <1>1, <1>4, <1>5, <1>7, <1>8 DEF IInv

\* The chain grows by the event of a draft.
LEMMA CreatedKept ==
  ASSUME IInv, Counts', NEW d \in Drafts, NEW by \in {"organizer", "second", "relayer"}, Created(d, by),
         UNCHANGED made, Untouched, ByRequest, ReqsInv'
  PROVE  IInv'
<1>1. Len(chain') = Len(chain) + 1 /\ Len(chain) \in Nat
  BY CreatedChain DEF IInv
<1>2. DocsOK(docs', Len(chain'))
  BY <1>1, MoreEvents DEF IInv, Untouched
<1>3. ProcOK(floor', pass', Len(chain'))
  BY <1>1, ProcFrame DEF IInv, ByRequest
<1>4. Known'
  BY DEF IInv, Known, Exists, Untouched
<1> QED
  BY <1>2, <1>3, <1>4 DEF IInv

LEMMA SignKept ==
  ASSUME IInv, NEW d \in Drafts, Sign(d)
  PROVE  IInv'
<1>1. Counts'
  BY SignCounts DEF IInv
<1>2. PICK by \in {"organizer", "second"} :
        Created(d, by) /\ UNCHANGED <<made, reqs>> /\ Untouched /\ ByRequest
  BY DEF Sign, Untouched, history
<1>3. Grows
  BY <1>2, CreatedChain DEF IInv
<1>4. ReqsInv'
  BY <1>2, <1>3, ReqsFrame DEF IInv
<1> QED
  BY <1>1, <1>2, <1>4, CreatedKept

LEMMA EditDraftKept ==
  ASSUME IInv, NEW d \in Drafts, EditDraft(d)
  PROVE  IInv'
<1>1. UNCHANGED <<made, unsigned, chain, reqs>> /\ Counted /\ ByRequest /\ Untouched
  BY DEF EditDraft, Untouched, history
<1>2. Cardinality(Creating') = Cardinality(Creating)
  BY <1>1 DEF Creating
<1>3. count' \in {count, count + 1} /\ count' <= MaxRequests
  BY <1>1, ConstantsType DEF IInv, Counts, Counted
<1>4. Counts'
  BY <1>1, <1>2, <1>3, CreatingFinite, CountsFrame DEF IInv
<1> QED
  BY <1>1, <1>4, UntouchedKept, FrameKept

LEMMA StartPublishKept ==
  ASSUME IInv, NEW r \in Requests, NEW d \in Drafts, StartPublish(r, d)
  PROVE  IInv'
<1> DEFINE q == [Idle EXCEPT !.at = "publish", !.draft = d]
<1>1. Counts'
  BY StartPublishCounts DEF IInv, ReqsInv
<1>2. UNCHANGED <<made, chain>> /\ ByRequest /\ Becomes(r, q) /\ Untouched
  BY DEF StartPublish, Untouched, history
<1>3. ReqOK(q, chain)
  BY DEF ReqOK, Idle, Request, Places, Confirming, Ids
<1> QED
  BY <1>1, <1>2, <1>3, UntouchedKept, RequestKept

LEMMA RelayCreateKept ==
  ASSUME IInv, NEW r \in Requests, RelayCreate(r)
  PROVE  IInv'
<1> DEFINE d == reqs[r].draft
           p == [reqs[r] EXCEPT !.at = IF @ = "create" THEN "created" ELSE "published"]
           q == [p EXCEPT !.event = Len(chain) + 1]
<1>1. reqs[r] \in Request /\ d \in Drafts
  BY DEF IInv, ReqsInv, ReqOK, RelayCreate, At
<1>2. Counts'
  BY <1>1, RelayCreateCounts DEF IInv, ReqsInv
<1>3. Created(d, "relayer") /\ UNCHANGED made /\ Untouched /\ ByRequest
  BY DEF RelayCreate
<1>4. /\ Grows /\ Len(chain) + 1 \in DOMAIN chain' /\ chain'[Len(chain) + 1] = [draft |-> d, by |-> "relayer"]
  BY <1>1, <1>3, CreatedChain DEF IInv
<1>5. Len(chain) + 1 \in Events
  BY <1>2, <1>4, ChainFitsNext DEF Fits
<1>6. Becomes(r, q)
  BY <1>1 DEF RelayCreate, Becomes, Request
<1>7. p \in Request /\ p.at \in {"created", "published"} /\ p.draft = d
  BY <1>1 DEF Request, Places, Confirming
<1> HIDE DEF p
<1>8. q \in Request /\ q.at = p.at /\ q.draft = p.draft /\ q.event = Len(chain) + 1
  BY <1>5, <1>7 DEF Request
<1>9. ReqOK(q, chain')
  BY <1>1, <1>4, <1>7, <1>8 DEF ReqOK, Confirming, Ids
<1> HIDE DEF q
<1>10. ReqsInv'
  BY <1>4, <1>6, <1>9, ReqsKept DEF IInv
<1> QED
  BY <1>1, <1>2, <1>3, <1>10, CreatedKept


LEMMA IdleKept ==
  ASSUME IInv, UNCHANGED <<made, unsigned, chain>>, count' = count \/ Counted, ByRequest, DocsKept,
         NEW r \in Requests, Ends(r)
  PROVE  IInv'
<1>1. Idle.at = "idle" /\ Becomes(r, Idle)
  BY DEF Idle, Ends
<1>2. Counts'
  BY <1>1, RequestCounts
<1> QED
  BY <1>1, <1>2, IdleOK, RequestKept

LEMMA RecordIdentityKept ==
  ASSUME IInv, NEW r \in Requests, RecordIdentity(r)
  PROVE  IInv'
<1> DEFINE d == reqs[r].draft
           e == reqs[r].event
<1>1. d \in Drafts /\ e \in DOMAIN chain /\ d \in Ids
  BY DEF IInv, ReqsInv, ReqOK, RecordIdentity, At, Ids
<1>2. DocsKept
  <2>1. CASE ~Refused(d, e)
    <3>1. docs' = Identified(d, e, docs[d].content)
      BY <2>1 DEF RecordIdentity, Store
    <3>2. docs[d].content \in Drafts \union {None}
      BY <1>1 DEF IInv, DocsOK, Document
    <3> QED
      BY <1>1, <2>1, <3>1, <3>2, IdentifiedKept
  <2>2. CASE Refused(d, e) /\ At(r, "created")
    <3>1. docs' = [docs EXCEPT ![d] = Absent]
      BY <2>2 DEF RecordIdentity, Discard, Delete
    <3> QED
      BY <1>1, <3>1, AbsentKept
  <2>3. CASE Refused(d, e) /\ ~At(r, "created")
    <3>1. Untouched
      BY <2>3 DEF RecordIdentity
    <3> QED
      BY <3>1, UntouchedKept
  <2> QED
    BY <2>1, <2>2, <2>3
<1>3. UNCHANGED <<made, unsigned, chain, count>> /\ ByRequest /\ Ends(r)
  BY DEF RecordIdentity
<1> QED
  BY <1>2, <1>3, IdleKept

LEMMA StartConfirmKept ==
  ASSUME IInv, NEW r \in Requests, NEW e \in DOMAIN chain, NEW d \in Ids, StartConfirm(r, e, d)
  PROVE  IInv'
<1>1. /\ MayStart(r) /\ Exists(d)
      /\ IF docs[d].event = e THEN UNCHANGED reqs
         ELSE Becomes(r, [Idle EXCEPT !.at = IF docs[d].event = 0 THEN "confirm" ELSE "confirm-again",
                                      !.draft = d, !.event = e, !.content = docs[d].content])
  BY DEF StartConfirm
<1>2. UNCHANGED <<made, unsigned, chain>> /\ Counted /\ ByRequest /\ Untouched
  BY <1>1 DEF StartConfirm, MayStart
<1>3. DocsKept
  BY <1>2, UntouchedKept
<1>4. CASE UNCHANGED reqs
  <2>1. Creating' = Creating
    BY <1>4 DEF Creating
  <2>2. count' \in {count, count + 1} /\ count' <= MaxRequests
    BY <1>2, ConstantsType DEF IInv, Counts, Counted
  <2>3. Counts'
    BY <1>2, <2>1, <2>2, CreatingFinite, CountsFrame DEF IInv
  <2> QED
    BY <1>2, <1>3, <1>4, <2>3, FrameKept
<1>5. CASE reqs' # reqs
  <2>1. docs[d].event = 0 => d \in Drafts
    BY <1>1 DEF IInv, DocsOK, Exists, Ids
  <2>2. e \in Events
    BY ChainFits DEF IInv, Fits
  <2>3. PICK content \in Drafts \union {None} : content = docs[d].content
    BY DEF IInv, DocsOK, Document
  <2>4. PICK at \in {"confirm", "confirm-again"} :
          /\ Becomes(r, [Idle EXCEPT !.at = at, !.draft = d, !.event = e, !.content = content])
          /\ at = "confirm" => docs[d].event = 0
    BY <1>1, <1>5, <2>3
  <2> DEFINE p1 == [Idle EXCEPT !.at = at]
             p2 == [p1 EXCEPT !.draft = d]
             p3 == [p2 EXCEPT !.event = e]
             q == [p3 EXCEPT !.content = content]
  <2>5. Becomes(r, q)
    BY <2>4
  <2>6. p1 = [at |-> at, draft |-> None, event |-> 0, target |-> None, content |-> None]
    BY DEF Idle
  <2> HIDE DEF p1
  <2>7. p2 = [at |-> at, draft |-> d, event |-> 0, target |-> None, content |-> None]
    BY <2>6
  <2> HIDE DEF p2
  <2>8. p3 = [at |-> at, draft |-> d, event |-> e, target |-> None, content |-> None]
    BY <2>7
  <2> HIDE DEF p3
  <2>9. q = [at |-> at, draft |-> d, event |-> e, target |-> None, content |-> content]
    BY <2>8
  <2> HIDE DEF q
  <2>10. ReqOK(q, chain) /\ q.at \notin {"create", "publish"}
    BY <2>1, <2>2, <2>4, <2>9 DEF ReqOK, Request, Places, Confirming
  <2>11. Counts'
    BY <1>2, <2>5, <2>10, RequestCounts
  <2> QED
    BY <1>2, <1>3, <2>5, <2>10, <2>11, RequestKept
<1> QED
  BY <1>4, <1>5

LEMMA FindHolderKept ==
  ASSUME IInv, NEW r \in Requests, FindHolder(r)
  PROVE  IInv'
<1> DEFINE req == reqs[r]
           others == Holders(req.event) \ {req.draft}
<1>1. ReqOK(req, chain) /\ req.at \in {"confirm", "confirm-again"}
  BY DEF IInv, ReqsInv, FindHolder, At
<1>2. PICK at \in {"write", "merge"}, target \in Ids :
        /\ Becomes(r, [[req EXCEPT !.at = at] EXCEPT !.target = target])
        /\ at = "merge" => req.at = "confirm"
  <2>1. req.draft \in Ids
    BY <1>1 DEF ReqOK
  <2>2. CASE others = {}
    <3>1. Becomes(r, [[req EXCEPT !.at = "write"] EXCEPT !.target = req.draft])
      BY <1>1, <2>2 DEF FindHolder, Becomes, ReqOK, Request
    <3> QED
      BY <2>1, <3>1
  <2>3. CASE others # {}
    <3>1. (CHOOSE i \in others : TRUE) \in Ids
      BY <2>3 DEF Holders
    <3>2. Becomes(r, [[req EXCEPT !.at = IF @ = "confirm" THEN "merge" ELSE "write"]
                        EXCEPT !.target = CHOOSE i \in others : TRUE])
      BY <1>1, <2>3 DEF FindHolder, Becomes, ReqOK, Request
    <3> QED
      BY <3>1, <3>2
  <2> QED
    BY <2>2, <2>3
<1> DEFINE p == [req EXCEPT !.at = at]
           q == [p EXCEPT !.target = target]
<1>3. /\ p \in Request /\ p.at = at /\ p.draft = req.draft /\ p.event = req.event
  BY <1>1 DEF ReqOK, Request, Places, Confirming
<1>4. Becomes(r, q)
  BY <1>2
<1> HIDE DEF p
<1>5. /\ q \in Request /\ q.at = p.at /\ q.draft = p.draft /\ q.event = p.event /\ q.target = target
  BY <1>3 DEF Request
<1>6. ReqOK(q, chain) /\ q.at \notin {"create", "publish"}
  BY <1>1, <1>2, <1>3, <1>5 DEF ReqOK, Confirming
<1> HIDE DEF q
<1>7. UNCHANGED <<made, unsigned, chain, count>> /\ ByRequest /\ Untouched
  BY DEF FindHolder
<1>8. Counts'
  BY <1>4, <1>6, <1>7, RequestCounts
<1> QED
  BY <1>4, <1>6, <1>7, <1>8, UntouchedKept, RequestKept

LEMMA WriteConfirmedKept ==
  ASSUME IInv, NEW r \in Requests, WriteConfirmed(r)
  PROVE  IInv'
<1> DEFINE req == reqs[r]
           q == [req EXCEPT !.at = "drop"]
<1>1. ReqOK(req, chain) /\ req.at \in {"write", "merge"}
  BY DEF IInv, ReqsInv, WriteConfirmed, At
<1>2. /\ req \in Request /\ (At(r, "merge") => req.draft \in Drafts) /\ req.event \in DOMAIN chain
      /\ req.target \in Ids /\ req.content \in Drafts \union {None}
  BY <1>1 DEF ReqOK, Request, Confirming, At
<1>3. UNCHANGED <<made, unsigned, chain, count>> /\ ByRequest
  BY DEF WriteConfirmed
<1>4. DocsKept
  <2>1. CASE Refused(req.target, req.event)
    <3>1. Untouched
      BY <2>1 DEF WriteConfirmed
    <3> QED
      BY <3>1, UntouchedKept
  <2>2. CASE ~Refused(req.target, req.event)
    <3>1. docs' = Identified(req.target, req.event, req.content)
      BY <2>2 DEF WriteConfirmed, Store
    <3> QED
      BY <1>2, <2>2, <3>1, IdentifiedKept
  <2> QED
    BY <2>1, <2>2
<1>5. Ends(r) \/ (At(r, "merge") /\ Becomes(r, q))
  BY DEF WriteConfirmed
<1>6. CASE At(r, "merge") /\ Becomes(r, q)
  <2>1. q \in Request /\ q.at = "drop" /\ q.draft = req.draft /\ q.draft \in Drafts
    BY <1>2, <1>6 DEF Request, Places
  <2>2. ReqOK(q, chain) /\ q.at \notin {"create", "publish"}
    BY <1>2, <2>1 DEF ReqOK, Confirming, Ids
  <2> HIDE DEF q
  <2>3. Counts'
    BY <1>3, <1>6, <2>2, RequestCounts
  <2> QED
    BY <1>3, <1>4, <1>6, <2>2, <2>3, RequestKept
<1> QED
  BY <1>3, <1>4, <1>5, <1>6, IdleKept

LEMMA StartDeleteKept ==
  ASSUME IInv, NEW r \in Requests, NEW d \in Drafts, StartDelete(r, d)
  PROVE  IInv'
<1> DEFINE q == [Idle EXCEPT !.at = "delete", !.draft = d]
<1>1. UNCHANGED <<made, unsigned, chain>> /\ Counted /\ ByRequest /\ Becomes(r, q) /\ Untouched
  BY DEF StartDelete, MayStart
<1>2. ReqOK(q, chain) /\ q.at \notin {"create", "publish"}
  BY DEF ReqOK, Idle, Request, Places, Confirming, Ids
<1> HIDE DEF q
<1>3. Counts'
  BY <1>1, <1>2, RequestCounts
<1> QED
  BY <1>1, <1>2, <1>3, UntouchedKept, RequestKept

LEMMA DeleteDocumentKept ==
  ASSUME IInv, NEW r \in Requests, DeleteDocument(r)
  PROVE  IInv'
<1>1. reqs[r].draft \in Drafts
  BY DEF IInv, ReqsInv, ReqOK, DeleteDocument, At
<1>2. docs' = [docs EXCEPT ![reqs[r].draft] = Absent]
  BY DEF DeleteDocument, Discard, Delete
<1>3. UNCHANGED <<made, unsigned, chain, count>> /\ ByRequest /\ Ends(r)
  BY DEF DeleteDocument
<1> QED
  BY <1>1, <1>2, <1>3, AbsentKept, IdleKept

LEMMA RequestFailsKept ==
  ASSUME IInv, NEW r \in Requests, RequestFails(r)
  PROVE  IInv'
<1>2. DocsKept
  <2>1. CASE Untouched
    BY <2>1, UntouchedKept
  <2>2. CASE (At(r, "create") \/ At(r, "created")) /\ Discard(reqs[r].draft)
    <3>1. reqs[r].draft \in Drafts
      BY <2>2 DEF IInv, ReqsInv, ReqOK, At
    <3>2. docs' = [docs EXCEPT ![reqs[r].draft] = Absent]
      BY <2>2 DEF Discard, Delete
    <3> QED
      BY <3>1, <3>2, AbsentKept
  <2> QED
    BY <2>1, <2>2 DEF RequestFails
<1>3. UNCHANGED <<made, unsigned, chain>> /\ Counted /\ ByRequest /\ Ends(r)
  BY DEF RequestFails
<1> QED
  BY <1>2, <1>3, IdleKept


-----------------------------------------------------------------------------
(* The processor.                                                          *)

\* Only documents and the pass change.
LEMMA ProcessorKept ==
  ASSUME IInv, ByProcessor, DocsKept, ProcOK(floor', pass', Len(chain))
  PROVE  IInv'
<1>1. UNCHANGED <<made, unsigned, chain, reqs, count>>
  BY DEF ByProcessor
<1>2. Creating' = Creating /\ Grows
  BY <1>1 DEF Creating, Grows
<1>3. Counts'
  BY <1>1, <1>2 DEF IInv, Counts
<1>4. ReqsInv'
  BY <1>1, <1>2, ReqsFrame DEF IInv
<1>5. Known'
  BY <1>1, KnownFrame DEF IInv, DocsKept
<1> QED
  BY <1>1, <1>3, <1>4, <1>5 DEF IInv, DocsKept

LEMMA MatchDraftKept ==
  ASSUME IInv, MatchDraft
  PROVE  IInv'
<1>1. pass.at <= Len(chain) /\ UNCHANGED floor /\ Untouched /\ ByProcessor
  BY DEF MatchDraft
<1>2. PICK found : found = Latest(Matching(pass.at)) /\ pass' = [pass EXCEPT !.found = found]
  BY DEF MatchDraft
<1>3. found \in Drafts \union {None}
  <2>1. Matching(pass.at) \in SUBSET {c \in Drafts : Exists(c)}
    BY DEF Matching, IsDraft, Exists
  <2>2. CASE Matching(pass.at) = {}
    BY <1>2, <2>2 DEF Latest
  <2>3. CASE Matching(pass.at) # {}
    <3>1. found \in Matching(pass.at)
      BY <1>2, <2>1, <2>3, LatestIsOne DEF IInv
    <3> QED
      BY <2>1, <3>1
  <2> QED
    BY <2>2, <2>3
<1>4. ProcOK(floor, pass, Len(chain)) /\ Len(chain) \in Nat
  BY ChainFits DEF IInv, Fits
<1>5. pass' \in Pass /\ pass'.at = pass.at
  BY <1>2, <1>3, <1>4 DEF ProcOK, Pass
<1>6. ProcOK(floor', pass', Len(chain))
  BY <1>1, <1>4, <1>5 DEF ProcOK
<1> QED
  BY <1>1, <1>6, UntouchedKept, ProcessorKept

LEMMA NextLogOK ==
  ASSUME Len(chain) \in Nat, ProcOK(floor, pass, Len(chain)), pass.at <= Len(chain), NextLog
  PROVE  ProcOK(floor', pass', Len(chain))
<1>1. PICK n \in Nat : n = Len(chain)
  OBVIOUS
<1>2. PICK f \in Nat, e \in Nat : f = floor /\ e = pass.at /\ f <= n /\ e <= n
  BY <1>1 DEF ProcOK, Pass
<1>3. \A k \in Nat : LookingAt(k) \in Pass /\ LookingAt(k).at = k /\ LookingAt(k).found = "unread"
  BY DEF LookingAt, Pass
<1>4. CASE e < n
  <2>1. pass' = LookingAt(e + 1) /\ floor' = f
    BY <1>1, <1>2, <1>4 DEF NextLog
  <2>2. f \in 0..n /\ e + 1 \in f + 1..n + 1 /\ e + 1 \in Nat
    BY <1>1, <1>2, <1>4 DEF ProcOK
  <2> QED
    BY <1>1, <1>3, <2>1, <2>2 DEF ProcOK
<1>5. CASE ~(e < n)
  <2>1. PICK g \in f..e : floor' = g /\ pass' = LookingAt(g + 1)
    BY <1>1, <1>2, <1>5 DEF NextLog
  <2>2. g \in 0..n /\ g + 1 \in g + 1..n + 1 /\ g + 1 \in Nat
    BY <1>2, <2>1
  <2> QED
    BY <1>1, <1>3, <2>1, <2>2 DEF ProcOK
<1> QED
  BY <1>4, <1>5

LEMMA HandleEventCreatedKept ==
  ASSUME IInv, HandleEventCreated
  PROVE  IInv'
<1> DEFINE d == pass.found
           e == pass.at
<1>1. ProcOK(floor, pass, Len(chain)) /\ Len(chain) \in Nat /\ Len(chain) <= Cardinality(Events)
      /\ DOMAIN chain = 1..Len(chain)
  BY ChainFits DEF IInv, Fits
<1>2. d # "unread"
  BY <1>1 DEF HandleEventCreated, ProcOK, Pass, LookingAt
<1>3. e \in 1..Len(chain) /\ d \in Drafts \union {None} /\ floor \in 0..Len(chain)
  BY <1>1, <1>2 DEF ProcOK, Pass
<1>4. ByProcessor /\ pass.at <= Len(chain)
  BY <1>1, <1>3 DEF HandleEventCreated
<1>5. CASE d = None
  <2>1. docs' = Upserted(e) /\ NextLog
    BY <1>5 DEF HandleEventCreated, Store
  <2>2. DocsKept
    BY <1>1, <1>3, <2>1, UpsertedOK DEF IInv, DocsKept, Exists
  <2>3. ProcOK(floor', pass', Len(chain))
    BY <1>1, <1>4, <2>1, NextLogOK
  <2> QED
    BY <1>4, <2>2, <2>3, ProcessorKept
<1>6. CASE d # None /\ Refused(d, e)
  <2>1. Untouched /\ pass' = LookingAt(floor + 1) /\ floor' = floor
    BY <1>6 DEF HandleEventCreated
  <2>2. ProcOK(floor', pass', Len(chain))
    BY <1>1, <1>3, <2>1 DEF ProcOK, Pass, LookingAt
  <2> QED
    BY <1>4, <2>1, <2>2, UntouchedKept, ProcessorKept
<1>7. CASE d # None /\ ~Refused(d, e)
  <2>1. docs' = Identified(d, e, docs[d].content) /\ NextLog
    BY <1>7 DEF HandleEventCreated, Store
  <2>2. d \in Ids /\ docs[d].content \in Drafts \union {None}
    BY <1>3, <1>7 DEF IInv, DocsOK, Document, Ids
  <2>3. DocsKept
    BY <1>1, <1>3, <1>7, <2>1, <2>2, IdentifiedKept
  <2>4. ProcOK(floor', pass', Len(chain))
    BY <1>1, <1>4, <2>1, NextLogOK
  <2> QED
    BY <1>4, <2>3, <2>4, ProcessorKept
<1> QED
  BY <1>5, <1>6, <1>7

-----------------------------------------------------------------------------
LEMMA InvInit ==
  ASSUME Init
  PROVE  IInv
<1>1. made = <<>> /\ unsigned = {} /\ chain = <<>> /\ count = 0 /\ reqs = [r \in Requests |-> Idle]
      /\ docs = [i \in Ids |-> Absent] /\ floor = 0 /\ pass = LookingAt(1)
  BY DEF Init
<1>2. Counts
  <2>1. Creating = {}
    BY <1>1 DEF Creating, Idle
  <2>2. Cardinality(unsigned) = 0 /\ Cardinality(Creating) = 0
    BY <1>1, <2>1, FS_EmptySet
  <2> QED
    BY <1>1, <2>2, ConstantsType DEF Counts
<1>3. Len(chain) = 0
  BY <1>1
<1>4. DocsOK(docs, 0)
  BY <1>1, ConstantsType DEF DocsOK, Document, Absent
<1>5. Known
  BY <1>1 DEF Known, Exists, Absent, Ids
<1>6. ReqsInv
  <2>1. ReqOK(Idle, chain) /\ Idle \in Request
    BY IdleOK DEF ReqOK
  <2> QED
    BY <1>1, <2>1 DEF ReqsInv
<1>7. ProcOK(floor, pass, 0)
  BY <1>1 DEF ProcOK, Pass, LookingAt
<1> QED
  BY <1>2, <1>3, <1>4, <1>5, <1>6, <1>7 DEF IInv

LEMMA InvStep ==
  ASSUME IInv, [Next]_vars
  PROVE  IInv'
<1>1. ASSUME NEW d \in Drafts, CreateIntent(d) \/ Sign(d) \/ EditDraft(d)
      PROVE  IInv'
  BY <1>1, CreateIntentKept, SignKept, EditDraftKept
<1>2. ASSUME NEW r \in Requests, NEW d \in Drafts, CreateDocument(r, d) \/ StartPublish(r, d) \/ StartDelete(r, d)
      PROVE  IInv'
  BY <1>2, CreateDocumentKept, StartPublishKept, StartDeleteKept
<1>3. ASSUME NEW r \in Requests, NEW e \in DOMAIN chain, NEW d \in Ids, StartConfirm(r, e, d)
      PROVE  IInv'
  BY <1>3, StartConfirmKept
<1>4. ASSUME NEW r \in Requests, Handle(r) \/ RequestFails(r)
      PROVE  IInv'
  BY <1>4, RelayCreateKept, RecordIdentityKept, FindHolderKept, WriteConfirmedKept, DeleteDocumentKept,
     RequestFailsKept DEF Handle
<1>5. CASE Processor
  BY <1>5, MatchDraftKept, HandleEventCreatedKept DEF Processor
<1>6. CASE UNCHANGED vars
  <2>1. UNCHANGED <<made, unsigned, chain, count, reqs>> /\ ByRequest /\ Untouched
    BY <1>6 DEF vars, ByRequest, Untouched, history
  <2>2. Counts'
    BY <2>1 DEF IInv, Counts, Creating
  <2> QED
    BY <2>1, <2>2, UntouchedKept, FrameKept
<1> QED
  BY <1>1, <1>2, <1>3, <1>4, <1>5, <1>6 DEF Next

LEMMA PublishInvariant == Spec => []IInv
<1>1. Init => IInv
  BY InvInit
<1>2. IInv /\ [Next]_vars => IInv'
  BY InvStep
<1> QED
  BY <1>1, <1>2, PTL DEF Spec

\* However organizers, relayer, admin and processor interleave, no event gets
\* two documents, a document names only created events, and a draft names none.
THEOREM PublishTypeCorrect == Spec => []TypeOK
<1>1. IInv => TypeOK
  <2> SUFFICES ASSUME IInv
               PROVE  TypeOK
    OBVIOUS
  <2>1. /\ Len(chain) \in Nat /\ Len(chain) <= Cardinality(Events) /\ DOMAIN chain = 1..Len(chain)
    BY ChainFits DEF IInv, Fits
  <2>2. \A e \in Events : Cardinality(Holders(e)) <= 1 /\ (Holders(e) # {} => e \in DOMAIN chain)
    <3> SUFFICES ASSUME NEW e \in Events
                 PROVE  Cardinality(Holders(e)) <= 1 /\ (Holders(e) # {} => e \in DOMAIN chain)
      OBVIOUS
    <3>1. e \in Nat /\ e # 0
      BY ConstantsType
    <3>2. \A i, j \in Holders(e) : i = j
      BY <3>1 DEF IInv, DocsOK, Holders
    <3>3. Holders(e) = {} \/ \E i \in Ids : Holders(e) = {i}
      BY <3>2 DEF Holders
    <3>4. Cardinality(Holders(e)) \in {0, 1}
      BY <3>3, FS_EmptySet, FS_Singleton
    <3>5. Holders(e) # {} => e \in DOMAIN chain
      BY <2>1, <3>1 DEF IInv, DocsOK, Holders
    <3> QED
      BY <3>4, <3>5
  <2>3. \A i \in Ids : ~Exists(i) \/ IsDraft(i) => docs[i].event = 0
    BY DEF IInv, DocsOK, Exists, IsDraft
  <2>4. \A r \in Requests : reqs[r].draft \in Ids \union {None} /\ reqs[r].target \in Ids \union {None}
    BY DEF IInv, ReqsInv, Request
  <2> QED
    BY <2>1, <2>2, <2>3, <2>4 DEF IInv, TypeOK, DocsOK, Document, ProcOK
<1> QED
  BY <1>1, PublishInvariant, PTL

-----------------------------------------------------------------------------
(* The right document, when no draft can have another's parameters.        *)

\* The match of an event is the draft it was created from.
LEMMA MatchIsRight ==
  ASSUME Apart, IInv, ParamsRight, NEW e \in DOMAIN chain
  PROVE  Latest(Matching(e)) \in {None, chain[e].draft}
<1>1. chain[e].draft \in Drafts
  BY ChainFits DEF IInv, Fits, Log
<1>2. Matching(e) \subseteq {chain[e].draft}
  BY <1>1 DEF Matching, Apart, ParamsRight
<1>3. CASE Matching(e) = {}
  BY <1>3 DEF Latest
<1>4. CASE Matching(e) # {}
  <2>1. Matching(e) \in SUBSET {c \in Drafts : Exists(c)}
    BY DEF Matching, IsDraft, Exists
  <2>2. Latest(Matching(e)) \in Matching(e)
    BY <1>4, <2>1, LatestIsOne DEF IInv
  <2> QED
    BY <1>2, <2>2
<1> QED
  BY <1>3, <1>4

\* The writes.
LEMMA IdentifiedRight ==
  ASSUME IInv, DocsRight(docs, chain, crossed), NEW i \in Ids, NEW e \in DOMAIN chain, NEW content,
         content \in {None, chain[e].draft} \/ chain[e].draft \in crossed,
         i \in Drafts \ crossed /\ Exists(i) => content = i /\ chain[e].draft = i
  PROVE  DocsRight(Identified(i, e, content), chain, crossed)
<1> DEFINE new == [status |-> "open", event |-> e, content |-> content]
           D == Identified(i, e, content)
<1>1. new.event = e /\ new.content = content
  OBVIOUS
<1>2. /\ \A j \in Ids \ {i} : D[j] = docs[j]
      /\ D[i] = IF Exists(i) THEN new ELSE docs[i]
  BY DEF IInv, DocsOK, Identified
<1> HIDE DEF new, D
<1>3. \A d \in Drafts \ crossed : /\ D[d].status # "absent" => D[d].content = d
                                  /\ D[d].event # 0 => chain[D[d].event].draft = d
  BY <1>1, <1>2 DEF DocsRight, Ids, Exists
<1>4. \A j \in Ids : D[j].event # 0 =>
        D[j].content \in {None, chain[D[j].event].draft} \/ chain[D[j].event].draft \in crossed
  BY <1>1, <1>2 DEF DocsRight
<1> QED
  BY <1>3, <1>4 DEF DocsRight, D

LEMMA AbsentRight ==
  ASSUME IInv, DocsRight(docs, chain, crossed), NEW d \in Drafts
  PROVE  DocsRight([docs EXCEPT ![d] = Absent], chain, crossed)
<1> DEFINE D == [docs EXCEPT ![d] = Absent]
<1>1. Absent.status = "absent" /\ Absent.event = 0
  BY DEF Absent
<1>2. D[d] = Absent /\ \A j \in Ids \ {d} : D[j] = docs[j]
  BY DEF IInv, DocsOK, Ids
<1> HIDE DEF D
<1>3. DocsRight(D, chain, crossed)
  BY <1>1, <1>2 DEF DocsRight, Ids
<1> QED
  BY <1>3 DEF D

LEMMA NewRight ==
  ASSUME IInv, DocsRight(docs, chain, crossed), NEW d \in Drafts, NEW status
  PROVE  DocsRight([docs EXCEPT ![d] = [status |-> status, event |-> 0, content |-> d]], chain, crossed)
<1> DEFINE new == [status |-> status, event |-> 0, content |-> d]
           D == [docs EXCEPT ![d] = new]
<1>1. new.event = 0 /\ new.content = d
  OBVIOUS
<1>2. D[d] = new /\ \A j \in Ids \ {d} : D[j] = docs[j]
  BY DEF IInv, DocsOK, Ids
<1> HIDE DEF new, D
<1>3. DocsRight(D, chain, crossed)
  BY <1>1, <1>2 DEF DocsRight, Ids
<1> QED
  BY <1>3 DEF D, new

LEMMA UpsertedRight ==
  ASSUME IInv, DocsRight(docs, chain, crossed), NEW e \in DOMAIN chain
  PROVE  DocsRight(Upserted(e), chain, crossed)
<1> DEFINE new == [status |-> "open", event |-> e, content |-> None]
           D == [docs EXCEPT ![e] = new]
<1>1. new.event = e /\ new.content = None
  OBVIOUS
<1>2. e \in Events /\ e \notin Drafts /\ e \in Ids
  BY ChainFits, ConstantsType DEF IInv, Fits, Ids
<1>3. D[e] = new /\ \A j \in Ids \ {e} : D[j] = docs[j]
  BY <1>2 DEF IInv, DocsOK
<1> HIDE DEF new, D
<1>4. DocsRight(D, chain, crossed)
  BY <1>1, <1>2, <1>3 DEF DocsRight, Ids
<1> QED
  BY <1>4 DEF D, new, Upserted

\* The chain and the drafts that were crossed only grow.
Onwards == Grows /\ crossed \subseteq crossed'

\* What was right stays right.
LEMMA RightGrows ==
  ASSUME IInv, RightInv, Onwards
  PROVE  /\ DocsRight(docs, chain', crossed')
         /\ \A r \in Requests : ReqRight(reqs[r], chain', crossed')
         /\ ProcRight(pass, chain')
<1>1. DOMAIN chain = 1..Len(chain) /\ Len(chain) \in Nat
  BY ChainFits DEF IInv, Fits
<1>2. \A i \in Ids : docs[i].event # 0 => docs[i].event \in DOMAIN chain
  BY <1>1 DEF IInv, DocsOK
<1>3. DocsRight(docs, chain', crossed')
  BY <1>2 DEF RightInv, DocsRight, Onwards, Grows, Ids
<1>4. \A r \in Requests : ReqRight(reqs[r], chain', crossed')
  BY DEF IInv, ReqsInv, ReqOK, RightInv, ReqRight, Onwards, Grows, Confirming
<1>5. pass.found # "unread" => pass.at \in DOMAIN chain
  BY <1>1 DEF IInv, ProcOK, Pass
<1>6. ProcRight(pass, chain')
  BY <1>5 DEF RightInv, ProcRight, Onwards, Grows
<1> QED
  BY <1>3, <1>4, <1>6

LEMMA RightKept ==
  ASSUME IInv, RightInv, Onwards, ParamsRight',
         UNCHANGED docs \/ DocsRight(docs', chain', crossed'),
         \A r \in Requests : reqs'[r] = reqs[r] \/ ReqRight(reqs'[r], chain', crossed'),
         pass' = pass \/ ProcRight(pass', chain')
  PROVE  RightInv'
<1>1. DocsRight(docs', chain', crossed')
  BY RightGrows
<1>2. \A r \in Requests : ReqRight(reqs'[r], chain', crossed')
  BY RightGrows
<1>3. ProcRight(pass', chain')
  BY RightGrows
<1> QED
  BY <1>1, <1>2, <1>3 DEF RightInv

\* One request goes on to q.
LEMMA RequestRight ==
  ASSUME IInv, RightInv, Onwards, UNCHANGED params, ByRequest,
         UNCHANGED docs \/ DocsRight(docs', chain', crossed'),
         NEW r \in Requests, NEW q, Becomes(r, q), ReqRight(q, chain', crossed')
  PROVE  RightInv'
<1>1. \A s \in Requests : reqs'[s] = IF s = r THEN q ELSE reqs[s]
  BY DEF IInv, ReqsInv, Becomes
<1>2. \A s \in Requests : reqs'[s] = reqs[s] \/ ReqRight(reqs'[s], chain', crossed')
  BY <1>1
<1>3. pass' = pass /\ ParamsRight'
  BY DEF ByRequest, processorVars, RightInv, ParamsRight
<1> QED
  BY <1>2, <1>3, RightKept

LEMMA ElsewhereRight ==
  ASSUME NEW q, NEW c, NEW x, q.at \notin Confirming
  PROVE  ReqRight(q, c, x)
BY DEF ReqRight, Confirming

LEMMA ChainStays ==
  ASSUME UNCHANGED <<chain, crossed>>
  PROVE  Onwards
BY DEF Onwards, Grows

LEMMA EndsRight ==
  ASSUME IInv, RightInv, UNCHANGED <<params, chain, crossed>>, ByRequest, DocsRight(docs', chain, crossed),
         NEW r \in Requests, Ends(r)
  PROVE  RightInv'
<1>1. Becomes(r, Idle) /\ ReqRight(Idle, chain', crossed')
  BY ElsewhereRight DEF Ends, Idle, Confirming
<1> QED
  BY <1>1, ChainStays, RequestRight

LEMMA DraftRight ==
  ASSUME IInv, RightInv, NEW d \in Drafts, CreateIntent(d) \/ Sign(d) \/ EditDraft(d)
  PROVE  RightInv'
<1>1. UNCHANGED <<reqs, pass, crossed>>
  BY DEF CreateIntent, Sign, EditDraft, New, ByRequest, processorVars, history
<1>2. CASE CreateIntent(d)
  <2>1. UNCHANGED <<chain, params>> /\ DocsRight(docs', chain, crossed)
    BY <1>2, NewRight DEF CreateIntent, New, RightInv
  <2>2. ParamsRight'
    BY <2>1 DEF RightInv, ParamsRight
  <2> QED
    BY <1>1, <2>1, <2>2, ChainStays, RightKept
<1>3. CASE Sign(d)
  <2>1. PICK by \in {"organizer", "second"} : Created(d, by) /\ UNCHANGED <<docs, params>>
    BY <1>3 DEF Sign
  <2>2. Onwards
    BY <1>1, <2>1, CreatedChain DEF IInv, Onwards
  <2>3. ParamsRight'
    BY <2>1 DEF RightInv, ParamsRight
  <2> QED
    BY <1>1, <2>1, <2>2, <2>3, RightKept
<1>4. CASE EditDraft(d)
  <2>1. UNCHANGED <<docs, chain>>
    BY <1>4 DEF EditDraft
  <2>2. PICK v \in Edits[d] : params' = [params EXCEPT ![d] = v]
    BY <1>4 DEF EditDraft
  <2>3. ParamsRight'
    BY <2>2 DEF RightInv, ParamsRight
  <2> QED
    BY <1>1, <2>1, <2>3, ChainStays, RightKept
<1> QED
  BY <1>2, <1>3, <1>4

LEMMA StartRight ==
  ASSUME IInv, RightInv, NEW r \in Requests, NEW d \in Drafts,
         CreateDocument(r, d) \/ StartPublish(r, d) \/ StartDelete(r, d)
  PROVE  RightInv'
<1>1. PICK q : Becomes(r, q) /\ q.at \in {"create", "publish", "delete"}
  <2>1. \A at : [Idle EXCEPT !.at = at, !.draft = d].at = at
    BY DEF Idle
  <2> QED
    BY <2>1 DEF CreateDocument, StartPublish, StartDelete
<1>2. ReqRight(q, chain', crossed')
  BY <1>1, ElsewhereRight DEF Confirming
<1>3. UNCHANGED <<params, chain, crossed>> /\ ByRequest
  BY DEF CreateDocument, StartPublish, StartDelete, New, history
<1>4. DocsRight(docs', chain, crossed)
  <2>1. CASE CreateDocument(r, d)
    <3>1. PICK status : New(d, status)
      BY <2>1 DEF CreateDocument
    <3> QED
      BY <3>1, NewRight DEF New, RightInv
  <2>2. CASE ~CreateDocument(r, d)
    BY <2>2 DEF StartPublish, StartDelete, Untouched, RightInv
  <2> QED
    BY <2>1, <2>2
<1> QED
  BY <1>1, <1>2, <1>3, <1>4, ChainStays, RequestRight

LEMMA RelayCreateRight ==
  ASSUME IInv, RightInv, NEW r \in Requests, RelayCreate(r)
  PROVE  RightInv'
<1>1. PICK q : Becomes(r, q) /\ q.at \in {"created", "published"}
  <2> DEFINE q == [reqs[r] EXCEPT !.at = IF @ = "create" THEN "created" ELSE "published", !.event = Len(chain) + 1]
  <2>1. q.at \in {"created", "published"}
    BY DEF IInv, ReqsInv, Request
  <2> QED
    BY <2>1 DEF RelayCreate
<1>2. ReqRight(q, chain', crossed')
  BY <1>1, ElsewhereRight DEF Confirming
<1>3. reqs[r].draft \in Drafts /\ Created(reqs[r].draft, "relayer") /\ UNCHANGED <<docs, params, crossed>> /\ ByRequest
  BY DEF IInv, ReqsInv, ReqOK, RelayCreate, At, Untouched
<1>4. Onwards
  BY <1>3, CreatedChain DEF IInv, Onwards
<1> QED
  BY <1>1, <1>2, <1>3, <1>4, RequestRight

LEMMA RecordIdentityRight ==
  ASSUME IInv, RightInv, NEW r \in Requests, RecordIdentity(r)
  PROVE  RightInv'
<1> DEFINE d == reqs[r].draft
           e == reqs[r].event
<1>1. d \in Drafts /\ d \in Ids /\ e \in DOMAIN chain /\ chain[e].draft = d /\ d \notin Events
  BY ConstantsType DEF IInv, ReqsInv, ReqOK, RecordIdentity, At, Ids
<1>2. docs' \in {docs, Identified(d, e, docs[d].content), [docs EXCEPT ![d] = Absent]}
  BY DEF RecordIdentity, Store, Discard, Delete, Untouched
<1>3. DocsRight(docs', chain, crossed)
  <2>1. CASE Exists(d) \/ d \in crossed
    <3>1. d \notin crossed => docs[d].content = d
      BY <1>1, <2>1 DEF RightInv, DocsRight, Exists
    <3>2. DocsRight(Identified(d, e, docs[d].content), chain, crossed)
      BY <1>1, <3>1, IdentifiedRight DEF RightInv
    <3> QED
      BY <1>1, <1>2, <3>2, AbsentRight DEF RightInv
  <2>2. CASE ~Exists(d)
    <3>1. Identified(d, e, docs[d].content) = docs
      BY <2>2 DEF Identified, IInv, DocsOK
    <3> QED
      BY <1>1, <1>2, <3>1, AbsentRight DEF RightInv
  <2> QED
    BY <2>1, <2>2
<1>6. UNCHANGED <<params, chain, crossed>> /\ ByRequest /\ Ends(r)
  BY DEF RecordIdentity
<1> QED
  BY <1>3, <1>6, EndsRight

\* A confirmation that names the document of another draft crosses the two.
LEMMA CrossingRight ==
  ASSUME IInv, RightInv, NEW e \in DOMAIN chain, NEW d \in Ids, Exists(d)
  PROVE  /\ \/ docs[d].content = chain[e].draft
            \/ chain[e].draft \in crossed \union Crossing(e, d)
         /\ d \in Drafts \ (crossed \union Crossing(e, d)) => chain[e].draft = d
<1>1. chain[e].draft \in Drafts /\ chain[e].draft # None
  BY ChainFits, PublishAssumption DEF IInv, Fits, Log, PublishAssumption
<1>2. d \in Drafts \ crossed => docs[d].content = d
  BY DEF RightInv, DocsRight, Exists
<1>3. d \in Drafts => d # None
  BY PublishAssumption DEF PublishAssumption
<1> QED
  BY <1>1, <1>2, <1>3 DEF Crossing

LEMMA StartConfirmRight ==
  ASSUME IInv, RightInv, NEW r \in Requests, NEW e \in DOMAIN chain, NEW d \in Ids, StartConfirm(r, e, d)
  PROVE  RightInv'
<1>1. /\ Exists(d) /\ crossed' = crossed \union Crossing(e, d)
      /\ IF docs[d].event = e THEN UNCHANGED reqs
         ELSE Becomes(r, [Idle EXCEPT !.at = IF docs[d].event = 0 THEN "confirm" ELSE "confirm-again",
                                      !.draft = d, !.event = e, !.content = docs[d].content])
  BY DEF StartConfirm
<1>2. UNCHANGED <<params, chain, docs>> /\ ByRequest /\ Onwards
  BY <1>1 DEF StartConfirm, Untouched, Onwards, Grows
<1>3. /\ docs[d].content = chain[e].draft \/ chain[e].draft \in crossed'
      /\ d \in Drafts \ crossed' => chain[e].draft = d
  BY <1>1, CrossingRight
<1>4. PICK content : content = docs[d].content
  OBVIOUS
<1>5. CASE UNCHANGED reqs
  BY <1>2, <1>5, RightKept DEF ByRequest, processorVars, RightInv, ParamsRight
<1>6. CASE reqs' # reqs
  <2>1. PICK at \in {"confirm", "confirm-again"} :
          Becomes(r, [Idle EXCEPT !.at = at, !.draft = d, !.event = e, !.content = content])
    BY <1>1, <1>4, <1>6
  <2> DEFINE p1 == [Idle EXCEPT !.at = at]
             p2 == [p1 EXCEPT !.draft = d]
             p3 == [p2 EXCEPT !.event = e]
             q == [p3 EXCEPT !.content = content]
  <2>2. Becomes(r, q)
    BY <2>1
  <2>3. p1 = [at |-> at, draft |-> None, event |-> 0, target |-> None, content |-> None]
    BY DEF Idle
  <2> HIDE DEF p1
  <2>4. p2 = [at |-> at, draft |-> d, event |-> 0, target |-> None, content |-> None]
    BY <2>3
  <2> HIDE DEF p2
  <2>5. p3 = [at |-> at, draft |-> d, event |-> e, target |-> None, content |-> None]
    BY <2>4
  <2> HIDE DEF p3
  <2>6. q = [at |-> at, draft |-> d, event |-> e, target |-> None, content |-> content]
    BY <2>5
  <2> HIDE DEF q
  <2>7. ReqRight(q, chain', crossed')
    BY <1>2, <1>3, <1>4, <2>6 DEF ReqRight
  <2> QED
    BY <1>2, <2>2, <2>7, RequestRight
<1> QED
  BY <1>5, <1>6

\* Another draft's document that has the event was created as the event's.
LEMMA FindHolderRight ==
  ASSUME IInv, RightInv, NEW r \in Requests, FindHolder(r)
  PROVE  RightInv'
<1> DEFINE req == reqs[r]
           others == Holders(req.event) \ {req.draft}
<1>1. req \in Request /\ req.at \in {"confirm", "confirm-again"} /\ req.event \in DOMAIN chain
  BY DEF IInv, ReqsInv, ReqOK, FindHolder, At, Confirming
<1>2. /\ req.content = chain[req.event].draft \/ chain[req.event].draft \in crossed
      /\ req.draft \in Drafts \ crossed => chain[req.event].draft = req.draft
  BY <1>1 DEF RightInv, ReqRight, Confirming
<1>3. \A i \in others : i \in Drafts \ crossed => chain[req.event].draft = i
  <2>1. req.event # 0
    BY <1>1, ChainFits, ConstantsType DEF IInv, Fits
  <2> QED
    BY <2>1 DEF Holders, RightInv, DocsRight, Ids
<1>4. PICK at \in {"write", "merge"}, target \in {req.draft} \union others :
        Becomes(r, [[req EXCEPT !.at = at] EXCEPT !.target = target])
  <2>1. CASE others = {}
    <3>1. Becomes(r, [[req EXCEPT !.at = "write"] EXCEPT !.target = req.draft])
      BY <1>1, <2>1 DEF FindHolder, Becomes, Request
    <3> QED
      BY <3>1
  <2>2. CASE others # {}
    <3>1. (CHOOSE i \in others : TRUE) \in others
      BY <2>2
    <3>2. Becomes(r, [[req EXCEPT !.at = IF @ = "confirm" THEN "merge" ELSE "write"]
                        EXCEPT !.target = CHOOSE i \in others : TRUE])
      BY <1>1, <2>2 DEF FindHolder, Becomes, Request
    <3> QED
      BY <3>1, <3>2
  <2> QED
    BY <2>1, <2>2
<1> DEFINE p == [req EXCEPT !.at = at]
           q == [p EXCEPT !.target = target]
<1>5. p \in Request /\ p.draft = req.draft /\ p.event = req.event /\ p.content = req.content
  BY <1>1 DEF Request, Places, Confirming
<1>6. Becomes(r, q)
  BY <1>4
<1> HIDE DEF p
<1>7. q.draft = p.draft /\ q.event = p.event /\ q.content = p.content /\ q.target = target
  BY <1>5 DEF Request
<1> HIDE DEF q
<1>8. UNCHANGED <<params, chain, docs, crossed>> /\ ByRequest
  BY DEF FindHolder, Untouched
<1>9. target \in Drafts \ crossed => chain[req.event].draft = target
  BY <1>2, <1>3, <1>4
<1>10. ReqRight(q, chain', crossed')
  BY <1>2, <1>5, <1>7, <1>8, <1>9 DEF ReqRight
<1> QED
  BY <1>6, <1>8, <1>10, ChainStays, RequestRight

LEMMA WriteConfirmedRight ==
  ASSUME IInv, RightInv, NEW r \in Requests, WriteConfirmed(r)
  PROVE  RightInv'
<1> DEFINE req == reqs[r]
           q == [req EXCEPT !.at = "drop"]
<1>1. /\ req \in Request /\ req.at \in {"write", "merge"}
      /\ req.event \in DOMAIN chain /\ req.target \in Ids
  BY DEF IInv, ReqsInv, ReqOK, WriteConfirmed, At, Confirming
<1>2. /\ req.content = chain[req.event].draft \/ chain[req.event].draft \in crossed
      /\ req.target \in Drafts \ crossed => chain[req.event].draft = req.target
  BY <1>1 DEF RightInv, ReqRight, Confirming
<1>4. docs' \in {docs, Identified(req.target, req.event, req.content)}
  BY DEF WriteConfirmed, Store, Untouched
<1>5. DocsRight(Identified(req.target, req.event, req.content), chain, crossed)
  BY <1>1, <1>2, IdentifiedRight DEF RightInv
<1>6. DocsRight(docs', chain, crossed)
  BY <1>4, <1>5 DEF RightInv
<1>7. UNCHANGED <<params, chain, crossed>> /\ ByRequest
  BY DEF WriteConfirmed
<1>8. CASE Ends(r)
  BY <1>6, <1>7, <1>8, EndsRight
<1>9. CASE Becomes(r, q)
  <2>1. q.at = "drop"
    BY <1>1 DEF Request
  <2> HIDE DEF q
  <2>2. ReqRight(q, chain', crossed')
    BY <2>1, ElsewhereRight DEF Confirming
  <2> QED
    BY <1>6, <1>7, <1>9, <2>2, ChainStays, RequestRight
<1> QED
  BY <1>8, <1>9 DEF WriteConfirmed

LEMMA DeletingRight ==
  ASSUME IInv, RightInv, NEW r \in Requests, DeleteDocument(r) \/ RequestFails(r)
  PROVE  RightInv'
<1>1. docs' = docs \/ (reqs[r].draft \in Drafts /\ docs' = [docs EXCEPT ![reqs[r].draft] = Absent])
  BY DEF IInv, ReqsInv, ReqOK, DeleteDocument, RequestFails, At, Discard, Delete, Untouched
<1>2. DocsRight(docs', chain, crossed)
  BY <1>1, AbsentRight DEF RightInv
<1>3. UNCHANGED <<params, chain, crossed>> /\ ByRequest /\ Ends(r)
  BY DEF DeleteDocument, RequestFails
<1> QED
  BY <1>2, <1>3, EndsRight

LEMMA NextLogRight ==
  ASSUME NEW c, NextLog
  PROVE  ProcRight(pass', c)
BY DEF NextLog, LookingAt, ProcRight

LEMMA ProcessorRight ==
  ASSUME Apart, IInv, RightInv, MatchDraft \/ HandleEventCreated
  PROVE  RightInv'
<1> DEFINE d == pass.found
           e == pass.at
<1>1. ProcOK(floor, pass, Len(chain)) /\ Len(chain) \in Nat /\ DOMAIN chain = 1..Len(chain)
  BY ChainFits DEF IInv, Fits
<1>2. UNCHANGED <<chain, reqs, crossed>> /\ ParamsRight /\ ParamsRight'
  BY DEF MatchDraft, HandleEventCreated, ByProcessor, RightInv, ParamsRight
<1>3. CASE MatchDraft
  <2>1. e \in DOMAIN chain /\ UNCHANGED docs
    BY <1>1, <1>3 DEF MatchDraft, ProcOK, Pass, Untouched
  <2>2. PICK found \in {None, chain[e].draft} : pass' = [pass EXCEPT !.found = found]
    BY <1>2, <1>3, <2>1, MatchIsRight DEF MatchDraft
  <2>3. pass'.at = e /\ pass'.found = found
    BY <1>1, <2>2 DEF ProcOK, Pass
  <2>4. ProcRight(pass', chain')
    BY <1>2, <2>3 DEF ProcRight
  <2> QED
    BY <1>2, <2>1, <2>4, ChainStays, RightKept
<1>4. CASE HandleEventCreated
  <2>1. d # "unread"
    BY <1>1, <1>4 DEF HandleEventCreated, ProcOK, Pass, LookingAt
  <2>2. e \in DOMAIN chain /\ d \in Drafts \union {None}
    BY <1>1, <2>1 DEF ProcOK, Pass
  <2>3. ProcRight(pass', chain')
    BY <1>4, NextLogRight DEF HandleEventCreated, LookingAt, ProcRight
  <2>4. DocsRight(docs', chain, crossed)
    <3>1. CASE d = None
      <4>1. docs' = Upserted(e)
        BY <1>4, <3>1 DEF HandleEventCreated, Store
      <4> QED
        BY <2>2, <4>1, UpsertedRight DEF RightInv
    <3>2. CASE d # None
      <4>1. d \in Drafts /\ d \in Ids /\ d \notin Events /\ chain[e].draft = d
        BY <2>1, <2>2, <3>2, ConstantsType DEF RightInv, ProcRight, Ids
      <4>2. docs' \in {docs, Identified(d, e, docs[d].content)}
        BY <1>4, <3>2 DEF HandleEventCreated, Store, Untouched
      <4>3. CASE Exists(d) \/ d \in crossed
        <5>1. d \notin crossed => docs[d].content = d
          BY <4>1, <4>3 DEF RightInv, DocsRight, Exists
        <5>2. DocsRight(Identified(d, e, docs[d].content), chain, crossed)
          BY <2>2, <4>1, <5>1, IdentifiedRight DEF RightInv
        <5> QED
          BY <4>2, <5>2 DEF RightInv
      <4>4. CASE ~Exists(d)
        <5>1. Identified(d, e, docs[d].content) = docs
          BY <4>4 DEF Identified, IInv, DocsOK
        <5> QED
          BY <4>2, <5>1 DEF RightInv
      <4> QED
        BY <4>3, <4>4
    <3> QED
      BY <3>1, <3>2
  <2> QED
    BY <1>2, <2>3, <2>4, ChainStays, RightKept
<1> QED
  BY <1>3, <1>4

LEMMA RightInit ==
  ASSUME Init
  PROVE  RightInv
<1>1. docs = [i \in Ids |-> Absent] /\ reqs = [r \in Requests |-> Idle] /\ pass = LookingAt(1)
  BY DEF Init
<1>2. \A i \in Ids : docs[i].status = "absent" /\ docs[i].event = 0
  BY <1>1 DEF Absent
<1>3. DocsRight(docs, chain, crossed) /\ ParamsRight
  BY <1>2, PublishAssumption DEF DocsRight, Ids, Init, ParamsRight, PublishAssumption
<1>4. \A r \in Requests : ReqRight(reqs[r], chain, crossed)
  BY <1>1 DEF ReqRight, Confirming, Idle
<1>5. ProcRight(pass, chain)
  BY <1>1 DEF ProcRight, LookingAt
<1> QED
  BY <1>3, <1>4, <1>5 DEF RightInv

LEMMA RightStep ==
  ASSUME Apart, IInv, RightInv, [Next]_vars
  PROVE  RightInv'
<1>1. ASSUME NEW d \in Drafts, CreateIntent(d) \/ Sign(d) \/ EditDraft(d)
      PROVE  RightInv'
  BY <1>1, DraftRight
<1>2. ASSUME NEW r \in Requests, NEW d \in Drafts, CreateDocument(r, d) \/ StartPublish(r, d) \/ StartDelete(r, d)
      PROVE  RightInv'
  BY <1>2, StartRight
<1>3. ASSUME NEW r \in Requests, NEW e \in DOMAIN chain, NEW d \in Ids, StartConfirm(r, e, d)
      PROVE  RightInv'
  BY <1>3, StartConfirmRight
<1>4. ASSUME NEW r \in Requests, Handle(r) \/ RequestFails(r)
      PROVE  RightInv'
  BY <1>4, RelayCreateRight, RecordIdentityRight, FindHolderRight, WriteConfirmedRight, DeletingRight DEF Handle
<1>5. CASE Processor
  BY <1>5, ProcessorRight DEF Processor
<1>6. CASE UNCHANGED vars
  <2>1. UNCHANGED <<params, chain, docs, reqs, pass, crossed>>
    BY <1>6 DEF vars, processorVars, history
  <2>2. ParamsRight'
    BY <2>1 DEF RightInv, ParamsRight
  <2> QED
    BY <2>1, <2>2, ChainStays, RightKept
<1> QED
  BY <1>1, <1>2, <1>3, <1>4, <1>5, <1>6 DEF Next

\* When no draft can have the parameters of another, the document of an event
\* describes the draft the event was created from, although a confirmation
\* writes what it read before its lookup and the processor what it matched
\* before its write.  Only confirmations that name another document, which
\* nothing compares with the log, change that, and only for the drafts they
\* touch.
THEOREM RightDocuments ==
  ASSUME Apart
  PROVE  Spec => []RightDocument
<1>1. Init => RightInv
  BY RightInit
<1>2. IInv /\ RightInv /\ [Next]_vars => RightInv'
  BY RightStep
<1>3. IInv /\ RightInv => RightDocument
  BY DEF IInv, DocsOK, Document, RightInv, DocsRight, RightDocument, Ids
<1> QED
  BY <1>1, <1>2, <1>3, PublishInvariant, PTL DEF Spec

=============================================================================
