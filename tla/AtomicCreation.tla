--------------------------- MODULE AtomicCreation ---------------------------
(***************************************************************************)
(* What idempotent creation promises: the whole of CreateTaskWithEvent     *)
(* happens at one instant, as in the in-memory store, which runs it under  *)
(* two mutexes (internal/store/task_creation_store.go).  Rows are never    *)
(* deleted.  A repeated request is given its task if the table preserves   *)
(* its body; with Stored and Collated the identity, as in memory, that is  *)
(* every request.                                                          *)
(***************************************************************************)
EXTENDS Naturals

CONSTANTS
    Client, Id, Workflow, Key, NoKey, Body,
    Stored,   \* body -> what the table makes of it
    Collated  \* workflow -> the one that stands for all the table equates

VARIABLES
    request,  \* client -> the request it sends
    table,    \* task rows
    audited,  \* ids that have their task_created event
    answers   \* client -> answers it was given

creationVars == <<request, table, audited, answers>>

Init ==
    /\ request \in [Client -> [workflow : Workflow, key : Key \union {NoKey}, body : Body]]
    /\ table = {}
    /\ audited = {}
    /\ answers = [c \in Client |-> {}]

\* The answer may be lost on its way.
Tell(c, answer) ==
    answers' \in {answers, [answers EXCEPT ![c] = @ \union {answer}]}

\* The task that has the key of c's request; without a key there is none.
Holder(c) ==
    {row \in table : /\ request[c].key # NoKey
                     /\ Collated[row.workflow] = Collated[request[c].workflow]
                     /\ row.key = request[c].key}

Create(c, id) ==
    /\ Holder(c) = {}
    /\ \A row \in table : row.id # id
    /\ table' = table \union {[id |-> id, workflow |-> request[c].workflow,
                               key |-> request[c].key, body |-> Stored[request[c].body]]}
    /\ audited' = audited \union {id}
    /\ Tell(c, [kind |-> "created", id |-> id])

\* The key is taken: who sent what is stored gets the task, others a conflict.
Replay(c) ==
    /\ \E row \in Holder(c) :
         Tell(c, IF row.workflow = request[c].workflow /\ row.body = request[c].body
                   THEN [kind |-> "existing", id |-> row.id]
                   ELSE [kind |-> "conflict", id |-> 0])
    /\ UNCHANGED <<table, audited>>

Next ==
    /\ \E c \in Client : Replay(c) \/ \E id \in Id : Create(c, id)
    /\ UNCHANGED request

Spec == Init /\ [][Next]_creationVars

=============================================================================
