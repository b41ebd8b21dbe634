---------------------------- MODULE TaskCreation ----------------------------
(***************************************************************************)
(* POST /tasks with an Idempotency-Key: TaskService.CreateTask and the     *)
(* MySQL CreateTaskWithEvent.  The transaction inserts the row, inserts    *)
(* the event and commits; an insert of a key that another open transaction *)
(* has inserted waits for it.  A refused insert rolls back and reads the   *)
(* row of the key afterwards, outside the transaction.  A transaction may  *)
(* fail at any point, and clients send again what was not answered.        *)
(*                                                                         *)
(* The table does not give back exactly what it was given: the JSON column *)
(* rewrites some numbers (1.10 is read back as 1.1), and the collation of  *)
(* the workflow column takes workflows for equal that differ in case.  The *)
(* Go code compares both to the letter.                                    *)
(***************************************************************************)
EXTENDS Naturals, FiniteSets

CONSTANTS
    Client,    \* callers, each repeating a request of its own
    Workflow,
    Key,
    NoKey,     \* no Idempotency-Key header: the column is NULL
    Body,      \* input and max_retries, up to the order of fields and white space
    Stored,    \* body -> what the JSON column makes of it
    Collated,  \* workflow -> the one that stands for all that collate with it
    MaxSends   \* bound on the requests

ASSUME CreationAssumption == NoKey \notin Key /\ MaxSends \in Nat

ASSUME ColumnAssumption ==
    Stored \in [Body -> Body] /\ Collated \in [Workflow -> Workflow]

VARIABLES
    request,  \* client -> the request it sends
    pc,       \* client -> where the handler of its request stands
    row,      \* client -> the row its handler made
    sends,    \* requests so far; also the source of fresh ids
    table,    \* committed rows
    audited,  \* ids whose task_created event is committed
    answers   \* client -> answers it was given

vars == <<request, pc, row, sends, table, audited, answers>>

Request == [workflow : Workflow, key : Key \union {NoKey}, body : Body]

Row == [id : Nat, workflow : Workflow, key : Key \union {NoKey}, body : Body]

Answer == [kind : {"created", "existing", "conflict", "not_found"}, id : Nat]

TypeOK ==
    /\ request \in [Client -> Request]
    /\ pc \in [Client -> {"idle", "insert", "event", "resolve"}]
    /\ \A c \in Client : pc[c] # "idle" => row[c] \in Row
    /\ sends \in Nat
    /\ table \subseteq Row
    /\ audited \subseteq Nat
    /\ answers \in [Client -> SUBSET Answer]

Init ==
    /\ request \in [Client -> Request]
    /\ pc = [c \in Client |-> "idle"]
    /\ row = [c \in Client |-> NoKey]
    /\ sends = 0
    /\ table = {}
    /\ audited = {}
    /\ answers = [c \in Client |-> {}]

\* The handler is done.
Return(c) ==
    /\ pc' = [pc EXCEPT ![c] = "idle"]
    /\ row' = [row EXCEPT ![c] = NoKey]

\* Its answer may be lost.
Reply(c, kind, id) ==
    /\ answers' \in {answers, [answers EXCEPT ![c] = @ \union {[kind |-> kind, id |-> id]}]}
    /\ Return(c)

-----------------------------------------------------------------------------
(* Mutants.                                                                *)

\* Stores an absent key as the empty string.
MutantNewRow(req, id) ==
    [id |-> id, workflow |-> req.workflow, body |-> req.body,
     key |-> IF req.key = NoKey THEN "" ELSE req.key]

\* The unique index is missing.
MutantDuplicate(c) == {}

\* Compares the workflow and the key and forgets the body.
MutantSameTaskCreationRequest(left, right) == left.workflow = right.workflow

\* Compares the ids as well.
MutantSameRequest(left, right) == left = right

\* An insert also waits for inserts that have not started.
MutantLockedBy(c) == {d \in Client \ {c} : pc[d] \in {"insert", "event"}}

-----------------------------------------------------------------------------

\* An absent key is stored as NULL (nullableString).
NewRow(req, id) == [id |-> id, workflow |-> req.workflow, key |-> req.key, body |-> req.body]

\* CreateTask: a task with a fresh id.
CreateTask(c) ==
    /\ pc[c] = "idle"
    /\ sends < MaxSends
    /\ sends' = sends + 1
    /\ row' = [row EXCEPT ![c] = NewRow(request[c], sends + 1)]
    /\ pc' = [pc EXCEPT ![c] = "insert"]
    /\ UNCHANGED <<request, table, audited, answers>>

\* uk_tasks_workflow_idempotency; NULL keys are all different, and keys are
\* compared byte by byte, workflows by their collation.
SameKey(a, b) ==
    /\ a.key # NoKey
    /\ Collated[a.workflow] = Collated[b.workflow]
    /\ a.key = b.key

Duplicate(c) == {existing \in table : SameKey(existing, row[c])}

\* Open transactions that have inserted the key.
LockedBy(c) == {d \in Client \ {c} : pc[d] = "event" /\ SameKey(row[d], row[c])}

insertTask(c) ==
    /\ pc[c] = "insert"
    /\ LockedBy(c) = {}
    /\ pc' = [pc EXCEPT ![c] = IF Duplicate(c) = {} THEN "event" ELSE "resolve"]
    /\ UNCHANGED <<request, row, sends, table, audited, answers>>

\* The row as it is read back.
StoredRow(r) == [r EXCEPT !.body = Stored[r.body]]

\* insertEvent and the commit.
CommitCreation(c) ==
    /\ pc[c] = "event"
    /\ table' = table \union {StoredRow(row[c])}
    /\ audited' = audited \union {row[c].id}
    /\ Reply(c, "created", row[c].id)
    /\ UNCHANGED <<request, sends>>

\* An error before the commit, a lost connection or a crash: no answer, or a 500.
Rollback(c) ==
    /\ pc[c] \in {"insert", "event", "resolve"}
    /\ Return(c)
    /\ UNCHANGED <<request, sends, table, audited, answers>>

\* The stored task against the one that was sent.
SameTaskCreationRequest(left, right) ==
    /\ left.key = right.key
    /\ left.workflow = right.workflow
    /\ left.body = right.body

\* getByWorkflowAndIdempotencyKey: the column's collation again.
Found(c) ==
    {existing \in table : /\ Collated[existing.workflow] = Collated[row[c].workflow]
                          /\ existing.key = row[c].key}

resolveIdempotentReplay(c) ==
    /\ pc[c] = "resolve"
    /\ IF Found(c) = {} THEN Reply(c, "not_found", 0)
       ELSE \E existing \in Found(c) :
              IF SameTaskCreationRequest(existing, row[c])
                THEN Reply(c, "existing", existing.id)
                ELSE Reply(c, "conflict", 0)
    /\ UNCHANGED <<request, sends, table, audited>>

HandlerStep(c) == insertTask(c) \/ CommitCreation(c) \/ resolveIdempotentReplay(c)

Next == \E c \in Client : CreateTask(c) \/ HandlerStep(c) \/ Rollback(c)

\* The handlers run.  Nothing is assumed of errors or of lock timeouts.
Fairness == \A c \in Client : WF_vars(HandlerStep(c))

Spec == Init /\ [][Next]_vars /\ Fairness

-----------------------------------------------------------------------------

\* Requests of one key, in workflows that collate, are all given the same
\* task, and at most one of them as created, through races, failed
\* transactions, lost answers and repetitions.
KeyNamesOneTask ==
    \A c, d \in Client : \A a \in answers[c], b \in answers[d] :
      /\ SameKey(request[c], request[d])
      /\ {a.kind, b.kind} \subseteq {"created", "existing"}
      => a.id = b.id /\ (a.kind = "created" /\ b.kind = "created" => c = d)

\* The column gives the body back as it was sent.
Preserved(body) == Stored[body] = body

\* A key that was refused is found by the read that follows.  A client whose
\* body the column preserves is told of a conflict only if its key holds a
\* different request.  Any other client can be told of a conflict with the
\* very request it repeats.
ConflictIsTruthful ==
    \A c \in Client : \A a \in answers[c] :
      /\ a.kind # "not_found"
      /\ a.kind = "conflict" /\ Preserved(request[c].body) =>
           \E other \in table :
             /\ SameKey(other, request[c])
             /\ \/ other.workflow # request[c].workflow
                \/ other.body # Stored[request[c].body]

\* The transactions implement creation at one instant.
Atomic == INSTANCE AtomicCreation WITH Id <- 1..MaxSends

ImplementsAtomicCreation == Atomic!Spec

\* Every request is answered, although inserts of one key wait for another.
EveryRequestAnswered == \A c \in Client : pc[c] # "idle" ~> pc[c] = "idle"

=============================================================================
