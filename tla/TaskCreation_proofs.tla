------------------------- MODULE TaskCreation_proofs -------------------------
(***************************************************************************)
(* Idempotent creation, proved for any clients, keys and number of         *)
(* requests.  What the handlers rely on is the unique index: a handler     *)
(* between its insert and its commit holds its key alone, and a handler    *)
(* whose insert was refused finds the row that refused it, since rows are  *)
(* never deleted.                                                          *)
(***************************************************************************)
EXTENDS TaskCreation, TLAPS

Busy(c) == pc[c] # "idle"

\* A handler works on the row of its client's request, under an id nobody
\* else was given.
RowsAreFresh ==
    /\ row \in [Client -> Row \union {NoKey}]
    /\ sends <= MaxSends
    /\ \A c \in Client : Busy(c) =>
         /\ row[c].id \in 1..sends
         /\ row[c] = NewRow(request[c], row[c].id)
         /\ \A r \in table : r.id # row[c].id
         /\ \A d \in Client : Busy(d) /\ row[d].id = row[c].id => d = c
    /\ \A r \in table : r.id \in 1..sends

\* uk_tasks_workflow_idempotency holds of what is committed together with
\* what open transactions have inserted.
KeysAreUnique ==
    /\ \A a, b \in table : SameKey(a, b) => a = b
    /\ \A c \in Client : pc[c] = "event" => Duplicate(c) = {} /\ LockedBy(c) = {}

RefusedHasCause == \A c \in Client : pc[c] = "resolve" => Duplicate(c) # {}

\* The row of a task that was given to a request.
Backs(r, req, id) == r.id = id /\ r.workflow = req.workflow /\ r.key = req.key

\* The comparison with a stored row accepts the request.
Matches(r, req) == r.workflow = req.workflow /\ r.body = req.body

\* What clients were told is in the table.
AnswersAreBacked ==
    \A c \in Client : \A a \in answers[c] :
      /\ a.kind # "not_found"
      /\ a.kind \in {"created", "existing"} => \E r \in table : Backs(r, request[c], a.id)
      /\ a.kind = "conflict" =>
           \E other \in table :
             SameKey(other, request[c]) /\ ~ Matches(other, request[c])

\* One client alone was told that it created the task of a key.
OneCreator ==
    \A c, d \in Client : \A a \in answers[c], b \in answers[d] :
      SameKey(request[c], request[d]) /\ a.kind = "created" /\ b.kind = "created" => c = d

CreationInv ==
    /\ TypeOK
    /\ RowsAreFresh
    /\ KeysAreUnique
    /\ RefusedHasCause
    /\ AnswersAreBacked
    /\ OneCreator

-----------------------------------------------------------------------------

\* The row of a request is a row, and has the request's fields.
LEMMA NewRowType ==
    ASSUME NEW req \in Request, NEW id \in Nat
    PROVE  /\ NewRow(req, id) \in Row
           /\ NewRow(req, id).id = id
           /\ NewRow(req, id).workflow = req.workflow
           /\ NewRow(req, id).key = req.key
           /\ NewRow(req, id).body = req.body
BY DEF NewRow, Request, Row

\* What is read back is a row that differs from what was inserted in nothing
\* but its body.
LEMMA StoredRowType ==
    ASSUME NEW r \in Row
    PROVE  /\ StoredRow(r) \in Row
           /\ StoredRow(r).id = r.id
           /\ StoredRow(r).workflow = r.workflow
           /\ StoredRow(r).key = r.key
           /\ StoredRow(r).body = Stored[r.body]
           /\ \A x : (SameKey(x, StoredRow(r)) <=> SameKey(x, r))
                   /\ (SameKey(StoredRow(r), x) <=> SameKey(r, x))
<1>1. Stored[r.body] \in Body
  BY ColumnAssumption DEF Row
<1>2. /\ StoredRow(r) \in Row
      /\ StoredRow(r).id = r.id
      /\ StoredRow(r).workflow = r.workflow
      /\ StoredRow(r).key = r.key
      /\ StoredRow(r).body = Stored[r.body]
  BY <1>1 DEF StoredRow, Row
<1> QED
  BY <1>2 DEF SameKey

\* Nothing is stored or under way at the start.
LEMMA CreationInit == Init => CreationInv
<1> SUFFICES ASSUME Init PROVE CreationInv
  OBVIOUS
<1> USE DEF Init, Busy
<1>1. TypeOK
  BY DEF TypeOK, Answer
<1>2. RowsAreFresh
  BY CreationAssumption DEF RowsAreFresh
<1>3. KeysAreUnique /\ RefusedHasCause
  BY DEF KeysAreUnique, RefusedHasCause
<1>4. AnswersAreBacked /\ OneCreator
  BY DEF AnswersAreBacked, OneCreator
<1> QED
  BY <1>1, <1>2, <1>3, <1>4 DEF CreationInv

\* A new handler takes an id above every id in use.
LEMMA CreateTaskStep ==
    ASSUME CreationInv, NEW c \in Client, CreateTask(c)
    PROVE  CreationInv'
<1> DEFINE made == NewRow(request[c], sends + 1)
<1> USE DEF CreateTask, Busy
<1>0. sends \in Nat /\ sends' = sends + 1 /\ request[c] \in Request
  BY DEF CreationInv, TypeOK
<1>1. made \in Row /\ made.id = sends + 1
  BY <1>0, NewRowType
<1>2. /\ row' = [row EXCEPT ![c] = made]
      /\ row'[c] = made
      /\ \A d \in Client \ {c} : row'[d] = row[d]
  BY DEF CreationInv, RowsAreFresh
<1>3. /\ pc' = [pc EXCEPT ![c] = "insert"]
      /\ pc'[c] = "insert"
      /\ \A d \in Client \ {c} : pc'[d] = pc[d]
  BY DEF CreationInv, TypeOK
<1> HIDE DEF made
<1>4. TypeOK'
  BY <1>0, <1>1, <1>2, <1>3 DEF CreationInv, TypeOK
<1>5. RowsAreFresh'
  <2>1. (row \in [Client -> Row \union {NoKey}])' /\ (sends <= MaxSends)'
    BY <1>0, <1>1, <1>2, CreationAssumption DEF CreationInv, RowsAreFresh
  <2>2. \A r \in table' : r.id \in 1..sends' /\ r.id # sends + 1
    BY <1>0 DEF CreationInv, RowsAreFresh
  <2>3. ASSUME NEW d \in Client, Busy(d)'
        PROVE  /\ (row[d].id \in 1..sends)'
               /\ (row[d] = NewRow(request[d], row[d].id))'
               /\ (\A r \in table : r.id # row[d].id)'
    <3>1. CASE d = c
      BY <1>0, <1>1, <1>2, <2>2, <3>1 DEF made
    <3>2. CASE d # c
      BY <1>0, <1>2, <1>3, <2>3, <3>2 DEF CreationInv, RowsAreFresh, NewRow
    <3> QED
      BY <3>1, <3>2
  <2>4. ASSUME NEW d \in Client, NEW e \in Client, Busy(d)', Busy(e)',
               (row[e].id = row[d].id)'
        PROVE  e = d
    <3>1. ASSUME NEW x \in Client \ {c}, Busy(x)' PROVE row'[x].id \in 1..sends
      BY <1>2, <1>3, <3>1 DEF CreationInv, RowsAreFresh
    <3>2. CASE d = c \/ e = c
      BY <1>0, <1>1, <1>2, <2>4, <3>1, <3>2
    <3>3. CASE d # c /\ e # c
      BY <1>2, <1>3, <2>4, <3>3 DEF CreationInv, RowsAreFresh
    <3> QED
      BY <3>2, <3>3
  <2> QED
    BY <2>1, <2>2, <2>3, <2>4 DEF RowsAreFresh
<1>6. KeysAreUnique' /\ RefusedHasCause'
  BY <1>2, <1>3 DEF CreationInv, KeysAreUnique, RefusedHasCause, Duplicate, LockedBy, SameKey
<1>7. AnswersAreBacked' /\ OneCreator'
  BY DEF CreationInv, AnswersAreBacked, OneCreator, SameKey, Backs, Matches
<1> QED
  BY <1>4, <1>5, <1>6, <1>7 DEF CreationInv

\* The insert takes the key, or finds out who has it.
LEMMA InsertTaskStep ==
    ASSUME CreationInv, NEW c \in Client, insertTask(c)
    PROVE  CreationInv'
<1> USE DEF insertTask, Busy
<1>1. /\ pc'[c] = (IF Duplicate(c) = {} THEN "event" ELSE "resolve")
      /\ \A d \in Client \ {c} : pc'[d] = pc[d]
  BY DEF CreationInv, TypeOK
<1>2. TypeOK'
  BY <1>1 DEF CreationInv, TypeOK
<1>3. RowsAreFresh'
  BY <1>1 DEF CreationInv, RowsAreFresh, NewRow
<1>4. KeysAreUnique' /\ RefusedHasCause'
  BY <1>1 DEF CreationInv, KeysAreUnique, RefusedHasCause, Duplicate, LockedBy, SameKey
<1>5. AnswersAreBacked' /\ OneCreator'
  BY DEF CreationInv, AnswersAreBacked, OneCreator, SameKey, Backs, Matches
<1> QED
  BY <1>2, <1>3, <1>4, <1>5 DEF CreationInv

\* A handler that ends, leaving the table alone, takes nothing from others.
LEMMA ReturnStep ==
    ASSUME CreationInv, NEW c \in Client, Return(c), UNCHANGED <<request, sends, table>>
    PROVE  RowsAreFresh' /\ KeysAreUnique' /\ RefusedHasCause'
<1> USE DEF Return, Busy
<1>1. /\ pc'[c] = "idle" /\ row' \in [Client -> Row \union {NoKey}]
      /\ \A d \in Client \ {c} : pc'[d] = pc[d] /\ row'[d] = row[d]
  BY DEF CreationInv, TypeOK, RowsAreFresh
<1>2. RowsAreFresh'
  BY <1>1 DEF CreationInv, RowsAreFresh, NewRow
<1>3. KeysAreUnique' /\ RefusedHasCause'
  BY <1>1 DEF CreationInv, KeysAreUnique, RefusedHasCause, Duplicate, LockedBy, SameKey
<1> QED
  BY <1>2, <1>3

\* The types after a handler ended.
LEMMA ReturnTypes ==
    ASSUME CreationInv, NEW c \in Client, Return(c), UNCHANGED <<request, sends>>,
           table' \subseteq Row, audited' \subseteq Nat,
           answers' \in [Client -> SUBSET Answer]
    PROVE  TypeOK'
BY DEF CreationInv, TypeOK, RowsAreFresh, Return

\* An answer that is lost or delivered: only its client's answers grow.
LEMMA ReplyGives ==
    ASSUME TypeOK, NEW c \in Client, NEW kind, NEW id, Reply(c, kind, id),
           [kind |-> kind, id |-> id] \in Answer
    PROVE  /\ Return(c)
           /\ answers' \in [Client -> SUBSET Answer]
           /\ \A d \in Client : \A a \in answers'[d] :
                a \in answers[d] \/ (d = c /\ a.kind = kind /\ a.id = id)
BY DEF Reply, TypeOK

\* The commit: nobody else holds the key, so nobody was given its task.
LEMMA CommitCreationStep ==
    ASSUME CreationInv, NEW c \in Client, CommitCreation(c)
    PROVE  CreationInv'
<1> DEFINE made == row[c]
           stored == StoredRow(made)
<1> USE DEF CommitCreation, Busy
<1>0. /\ TypeOK /\ pc[c] = "event" /\ made \in Row /\ made.id \in 1..sends /\ made.id \in Nat
      /\ made = NewRow(request[c], made.id) /\ request[c] \in Request
      /\ made.workflow = request[c].workflow /\ made.key = request[c].key
      /\ made.body = request[c].body
  BY DEF CreationInv, TypeOK, RowsAreFresh, Row, NewRow
<1>1. /\ Return(c) /\ answers' \in [Client -> SUBSET Answer]
      /\ \A d \in Client : \A a \in answers'[d] :
           a \in answers[d] \/ (d = c /\ a.kind = "created" /\ a.id = made.id)
  <2>1. [kind |-> "created", id |-> made.id] \in Answer
    BY <1>0 DEF Answer
  <2> QED
    BY <1>0, <2>1, ReplyGives
<1>2. \A r \in table : ~ SameKey(r, made)
  BY <1>0 DEF CreationInv, KeysAreUnique, Duplicate
<1>3. \A d \in Client \ {c} : pc[d] = "event" => ~ SameKey(made, row[d])
  BY <1>0 DEF CreationInv, KeysAreUnique, LockedBy
<1>4. /\ pc'[c] = "idle" /\ row' \in [Client -> Row \union {NoKey}]
      /\ \A d \in Client \ {c} : pc'[d] = pc[d] /\ row'[d] = row[d]
  BY <1>1 DEF Return, CreationInv, TypeOK, RowsAreFresh
<1>5. /\ table' = table \union {stored} /\ audited' = audited \union {made.id}
      /\ UNCHANGED <<request, sends>>
  OBVIOUS
<1>s. /\ stored \in Row /\ stored.id = made.id /\ stored.workflow = made.workflow
      /\ stored.key = made.key
      /\ \A x : (SameKey(x, stored) <=> SameKey(x, made))
              /\ (SameKey(stored, x) <=> SameKey(made, x))
  BY <1>0, StoredRowType
<1>6. \A r \in table, d \in Client : Busy(d) => r.id # row[d].id
  BY DEF CreationInv, RowsAreFresh
<1>7. \A d \in Client \ {c} : Busy(d) => row[d].id # made.id
  BY <1>0 DEF CreationInv, RowsAreFresh
<1> HIDE DEF made, stored, CommitCreation
<1>8. TypeOK'
  BY <1>0, <1>1, <1>5, <1>s, ReturnTypes DEF TypeOK
<1>9. RowsAreFresh'
  BY <1>0, <1>4, <1>5, <1>s, <1>6, <1>7 DEF CreationInv, RowsAreFresh, NewRow
<1>10. KeysAreUnique'
  <2>1. \A a, b \in table' : SameKey(a, b) => a = b
    <3>1. \A r \in table : ~ SameKey(r, stored) /\ ~ SameKey(stored, r)
      BY <1>2, <1>s DEF SameKey
    <3> QED
      BY <1>5, <3>1 DEF CreationInv, KeysAreUnique
  <2>2. ASSUME NEW d \in Client, pc'[d] = "event"
        PROVE  Duplicate(d)' = {} /\ LockedBy(d)' = {}
    <3>1. d # c /\ pc[d] = "event" /\ row'[d] = row[d]
      BY <1>4, <2>2
    <3>2. ~ SameKey(stored, row[d])
      BY <1>3, <1>s, <3>1
    <3>3. Duplicate(d)' = {}
      BY <1>5, <3>1, <3>2 DEF CreationInv, KeysAreUnique, Duplicate, SameKey
    <3>4. LockedBy(d)' = {}
      BY <1>4, <3>1 DEF CreationInv, KeysAreUnique, LockedBy, SameKey
    <3> QED
      BY <3>3, <3>4
  <2> QED
    BY <2>1, <2>2 DEF KeysAreUnique, SameKey
<1>11. RefusedHasCause'
  BY <1>4, <1>5 DEF CreationInv, RefusedHasCause, Duplicate, SameKey
<1>12. AnswersAreBacked'
  <2> SUFFICES ASSUME NEW d \in Client, NEW a \in answers'[d]
               PROVE  /\ a.kind # "not_found"
                      /\ a.kind \in {"created", "existing"} =>
                           \E r \in table' : Backs(r, request[d], a.id)
                      /\ a.kind = "conflict" =>
                           \E other \in table' :
                             SameKey(other, request[d]) /\ ~ Matches(other, request[d])
    BY <1>5 DEF AnswersAreBacked, SameKey, Backs, Matches
  <2>1. CASE a \in answers[d]
    BY <1>5, <2>1 DEF CreationInv, AnswersAreBacked
  <2>2. CASE d = c /\ a.kind = "created" /\ a.id = made.id
    <3>1. Backs(stored, request[d], a.id) /\ stored \in table'
      BY <1>0, <1>5, <1>s, <2>2 DEF Backs
    <3> QED
      BY <2>2, <3>1
  <2> QED
    BY <1>1, <2>1, <2>2
<1>13. OneCreator'
  <2>1. ASSUME NEW d \in Client, NEW b \in answers[d], b.kind = "created",
               SameKey(request[c], request[d]) \/ SameKey(request[d], request[c])
        PROVE  FALSE
    <3>1. PICK r \in table : Backs(r, request[d], b.id)
      BY <2>1 DEF CreationInv, AnswersAreBacked
    <3>2. SameKey(r, made)
      BY <1>0, <2>1, <3>1 DEF SameKey, Backs
    <3> QED
      BY <1>2, <3>1, <3>2
  <2> SUFFICES ASSUME NEW d \in Client, NEW e \in Client,
                      NEW a \in answers'[d], NEW b \in answers'[e],
                      SameKey(request[d], request[e]), a.kind = "created", b.kind = "created"
               PROVE  d = e
    BY <1>5 DEF OneCreator, SameKey
  <2>2. CASE a \in answers[d] /\ b \in answers[e]
    BY <2>2 DEF CreationInv, OneCreator
  <2>3. CASE a \notin answers[d] \/ b \notin answers[e]
    BY <1>1, <2>1, <2>3
  <2> QED
    BY <2>2, <2>3
<1> QED
  BY <1>8, <1>9, <1>10, <1>11, <1>12, <1>13 DEF CreationInv

\* A transaction that failed leaves no trace.
LEMMA RollbackStep ==
    ASSUME CreationInv, NEW c \in Client, Rollback(c)
    PROVE  CreationInv'
<1>1. Return(c) /\ UNCHANGED <<request, sends, table, audited, answers>>
  BY DEF Rollback
<1>2. TypeOK'
  BY <1>1, ReturnTypes DEF CreationInv, TypeOK
<1>3. AnswersAreBacked' /\ OneCreator'
  BY <1>1 DEF CreationInv, AnswersAreBacked, OneCreator, SameKey, Backs, Matches
<1> QED
  BY <1>1, <1>2, <1>3, ReturnStep DEF CreationInv

\* A refused handler finds the row of its key, and what it answers is what
\* that row says.
LEMMA ResolveFacts ==
    ASSUME CreationInv, NEW c \in Client, resolveIdempotentReplay(c)
    PROVE  \E existing \in table :
             /\ SameKey(existing, request[c]) /\ existing.id \in Nat
             /\ IF Matches(existing, request[c])
                  THEN Reply(c, "existing", existing.id)
                  ELSE Reply(c, "conflict", 0)
<1>0. /\ pc[c] = "resolve" /\ Duplicate(c) # {} /\ request[c] \in Request /\ row[c].id \in Nat
      /\ row[c] = NewRow(request[c], row[c].id)
  BY DEF resolveIdempotentReplay, CreationInv, RefusedHasCause, TypeOK, RowsAreFresh, Busy, Row
<1>1. /\ row[c].workflow = request[c].workflow /\ row[c].key = request[c].key
      /\ row[c].body = request[c].body
  BY <1>0, NewRowType
<1>2. request[c].key # NoKey /\ Found(c) # {}
  BY <1>0, <1>1 DEF Duplicate, Found, SameKey
<1>3. PICK existing \in Found(c) :
        IF SameTaskCreationRequest(existing, row[c])
          THEN Reply(c, "existing", existing.id)
          ELSE Reply(c, "conflict", 0)
  BY <1>2 DEF resolveIdempotentReplay
<1>4. existing \in table /\ existing \in Row
  BY DEF Found, CreationInv, TypeOK
<1>5. SameKey(existing, request[c]) /\ existing.key = request[c].key
  BY <1>1, <1>2 DEF Found, SameKey
<1>6. SameTaskCreationRequest(existing, row[c]) <=> Matches(existing, request[c])
  BY <1>1, <1>5 DEF SameTaskCreationRequest, Matches
<1>7. existing.id \in Nat
  BY <1>4 DEF Row
<1> QED
  BY <1>3, <1>4, <1>5, <1>6, <1>7

\* The replay of a creation.
LEMMA ResolveStep ==
    ASSUME CreationInv, NEW c \in Client, resolveIdempotentReplay(c)
    PROVE  CreationInv'
<1>1. PICK existing \in table :
             /\ SameKey(existing, request[c]) /\ existing.id \in Nat
             /\ IF Matches(existing, request[c])
                  THEN Reply(c, "existing", existing.id)
                  ELSE Reply(c, "conflict", 0)
  BY ResolveFacts
<1>2. UNCHANGED <<request, sends, table, audited>>
  BY DEF resolveIdempotentReplay
<1>3. PICK kind \in {"existing", "conflict"}, id \in Nat :
        /\ Reply(c, kind, id)
        /\ kind = "existing" => Backs(existing, request[c], id)
        /\ kind = "conflict" => ~ Matches(existing, request[c])
  BY <1>1 DEF Backs, Matches, SameKey
<1>4. /\ Return(c) /\ answers' \in [Client -> SUBSET Answer]
      /\ \A d \in Client : \A a \in answers'[d] :
           a \in answers[d] \/ (d = c /\ a.kind = kind /\ a.id = id)
  <2>1. [kind |-> kind, id |-> id] \in Answer
    BY DEF Answer
  <2> QED
    BY <1>3, <2>1, ReplyGives DEF CreationInv
<1>5. TypeOK'
  BY <1>2, <1>4, ReturnTypes DEF CreationInv, TypeOK
<1>6. RowsAreFresh' /\ KeysAreUnique' /\ RefusedHasCause'
  BY <1>2, <1>4, ReturnStep
<1>7. SameKey(existing, request[c])
  BY <1>1
<1>8. AnswersAreBacked'
  BY <1>2, <1>3, <1>4, <1>7 DEF CreationInv, AnswersAreBacked, SameKey, Backs, Matches
<1>9. OneCreator'
  BY <1>2, <1>4 DEF CreationInv, OneCreator, SameKey
<1> QED
  BY <1>5, <1>6, <1>8, <1>9 DEF CreationInv

\* Every step keeps the invariant.
LEMMA CreationNext == CreationInv /\ [Next]_vars => CreationInv'
<1> SUFFICES ASSUME CreationInv, [Next]_vars PROVE CreationInv'
  OBVIOUS
<1>1. ASSUME NEW c \in Client, CreateTask(c) PROVE CreationInv'
  BY <1>1, CreateTaskStep
<1>2. ASSUME NEW c \in Client, insertTask(c) PROVE CreationInv'
  BY <1>2, InsertTaskStep
<1>3. ASSUME NEW c \in Client, CommitCreation(c) PROVE CreationInv'
  BY <1>3, CommitCreationStep
<1>4. ASSUME NEW c \in Client, resolveIdempotentReplay(c) PROVE CreationInv'
  BY <1>4, ResolveStep
<1>5. ASSUME NEW c \in Client, Rollback(c) PROVE CreationInv'
  BY <1>5, RollbackStep
<1>6. CASE UNCHANGED vars
  BY <1>6 DEF vars, CreationInv, TypeOK, RowsAreFresh, KeysAreUnique, RefusedHasCause,
              AnswersAreBacked, OneCreator, Busy, Duplicate, LockedBy, SameKey, NewRow,
              Backs, Matches
<1> QED
  BY <1>1, <1>2, <1>3, <1>4, <1>5, <1>6 DEF Next, HandlerStep

\* The inductive invariant holds throughout.
THEOREM CreationInvariant == Spec => []CreationInv
  BY CreationInit, CreationNext, PTL DEF Spec

\* Every variable of the creation handlers keeps its type.
THEOREM CreationTypes == Spec => []TypeOK
<1>1. CreationInv => TypeOK
  BY DEF CreationInv
<1> QED
  BY <1>1, CreationInvariant, PTL

\* Requests of one key are given one task, and one client at most is told
\* that it created it: both tasks are in the table under the key, which is
\* unique there.
THEOREM IdempotentCreation == Spec => []KeyNamesOneTask
<1>1. CreationInv => KeyNamesOneTask
  <2> SUFFICES ASSUME CreationInv, NEW c \in Client, NEW d \in Client,
                      NEW a \in answers[c], NEW b \in answers[d],
                      SameKey(request[c], request[d]),
                      a.kind \in {"created", "existing"}, b.kind \in {"created", "existing"}
               PROVE  a.id = b.id /\ (a.kind = "created" /\ b.kind = "created" => c = d)
    BY DEF KeyNamesOneTask
  <2>1. PICK r \in table, s \in table : Backs(r, request[c], a.id) /\ Backs(s, request[d], b.id)
    BY DEF CreationInv, AnswersAreBacked
  <2>2. SameKey(r, s)
    BY <2>1 DEF SameKey, Backs
  <2>3. r = s
    BY <2>2 DEF CreationInv, KeysAreUnique
  <2>4. a.id = b.id
    BY <2>1, <2>3 DEF Backs
  <2>5. a.kind = "created" /\ b.kind = "created" => c = d
    BY DEF CreationInv, OneCreator
  <2> QED
    BY <2>4, <2>5
<1> QED
  BY <1>1, CreationInvariant, PTL

\* The read after a refused insert never misses, and a request whose body the
\* JSON column preserves meets a conflict only over a different request of
\* its key.
THEOREM TruthfulConflict == Spec => []ConflictIsTruthful
<1>1. CreationInv => ConflictIsTruthful
  BY DEF CreationInv, AnswersAreBacked, ConflictIsTruthful, Matches, Preserved
<1> QED
  BY <1>1, CreationInvariant, PTL

\* The transaction in its steps implements creation at one instant, whatever
\* the columns make of bodies and workflows: the commit creates, the read
\* after a refused insert replays, and everything else is invisible.
THEOREM CreationRefinement == Spec => ImplementsAtomicCreation
<1>1. Init => Atomic!Init
  BY DEF Init, Atomic!Init, Request
<1>2. ASSUME CreationInv, NEW c \in Client, CommitCreation(c) PROVE Atomic!Next
  <2> DEFINE id == row[c].id
  <2>0. /\ pc[c] = "event" /\ row[c] = NewRow(request[c], id) /\ id \in 1..sends
        /\ sends \in Nat /\ sends <= MaxSends /\ \A r \in table : r.id # id
    BY <1>2 DEF CommitCreation, CreationInv, RowsAreFresh, TypeOK, Busy
  <2>1. id \in 1..MaxSends
    BY <2>0, CreationAssumption
  <2>2. row[c].workflow = request[c].workflow /\ row[c].key = request[c].key
    BY <2>0 DEF NewRow
  <2>s. StoredRow(row[c]) = [id |-> id, workflow |-> request[c].workflow,
                             key |-> request[c].key, body |-> Stored[request[c].body]]
    BY <2>0 DEF StoredRow, NewRow
  <2>3. Atomic!Holder(c) = {}
    BY <1>2, <2>0, <2>2 DEF CreationInv, KeysAreUnique, Duplicate, SameKey, Atomic!Holder
  <2>4. Atomic!Tell(c, [kind |-> "created", id |-> id])
    BY <1>2 DEF CommitCreation, Reply, Atomic!Tell
  <2>5. table' = table \union {StoredRow(row[c])} /\ audited' = audited \union {id}
    BY <1>2 DEF CommitCreation
  <2> HIDE DEF id
  <2>6. Atomic!Create(c, id)
    BY <2>0, <2>s, <2>3, <2>4, <2>5 DEF Atomic!Create
  <2> QED
    BY <1>2, <2>1, <2>6 DEF CommitCreation, Atomic!Next
<1>3. ASSUME CreationInv, NEW c \in Client, resolveIdempotentReplay(c) PROVE Atomic!Next
  <2>1. PICK existing \in table :
             /\ SameKey(existing, request[c]) /\ existing.id \in Nat
             /\ IF Matches(existing, request[c])
                  THEN Reply(c, "existing", existing.id)
                  ELSE Reply(c, "conflict", 0)
    BY <1>3, ResolveFacts
  <2>2. existing \in Atomic!Holder(c)
    BY <2>1 DEF Atomic!Holder, SameKey
  <2>3. Atomic!Tell(c, IF existing.workflow = request[c].workflow /\ existing.body = request[c].body
                         THEN [kind |-> "existing", id |-> existing.id]
                         ELSE [kind |-> "conflict", id |-> 0])
    BY <2>1 DEF Reply, Atomic!Tell, Matches
  <2> QED
    BY <1>3, <2>2, <2>3 DEF resolveIdempotentReplay, Atomic!Replay, Atomic!Next
<1>4. CreationInv /\ [Next]_vars => [Atomic!Next]_(Atomic!creationVars)
  BY <1>2, <1>3 DEF Next, HandlerStep, CreateTask, insertTask, Rollback, vars,
                    Atomic!creationVars
<1> QED
  BY <1>1, <1>4, CreationInvariant, PTL DEF Spec, ImplementsAtomicCreation, Atomic!Spec

=============================================================================
