--------------------------- MODULE Commands_proofs ---------------------------
(***************************************************************************)
(* Theorems about Commands, for any wishes, ids, names, profile fields and *)
(* bounds.  The invariant is layered: types; who holds the event loop; how *)
(* far each attempt is with its change, its audit row and its answer; and  *)
(* on top of these what holds between the attempts and the data.           *)
(***************************************************************************)
EXTENDS Commands, FiniteSetTheorems, TLAPS

LEMMA WishFacts ==
    ASSUME NEW t \in Tasks
    PROVE  /\ Wish[t] \in WishType
           /\ Wish[t].kind \in Kinds
           /\ Wish[t].kind \in {"edit", "forget"} =>
                 /\ Wish[t].item \in Wardrobe
                 /\ Wish[t].item \in Matching[Wish[t].name]
           /\ Wish[t].writes \in [Fields -> Values \cup {Unset}]
BY TasksAssumption DEF WishType

Tasked == \A a \in Attempts : pc[a] # "idle" => task[a] \in Tasks

Drawn == \A a \in Attempts : pc[a] = "added" => target[a] \in Ids

\* One handler of the bot at a time is between two awaits.
InLoop ==
    \A a, b \in Attempts :
        a # b /\ pc[a] \in Running /\ pc[b] \in Running => ~InBot(a) \/ ~InBot(b)

Base == TypeOK /\ Tasked /\ Drawn /\ InLoop

\* The steps an attempt takes by itself leave all others where they are.
Alone(a) ==
    /\ task' = task
    /\ dead' = dead
    /\ \A b \in Attempts \ {a} :
          /\ pc'[b] = pc[b]
          /\ target'[b] = target[b]
          /\ b \in changed' <=> b \in changed
          /\ b \in audit' <=> b \in audit

LEMMA HandleAlone ==
    ASSUME TypeOK, NEW a \in Attempts, Handle(a)
    PROVE  Alone(a) /\ faults' = faults
<1> USE DEF TypeOK, Alone, To, db
<1>1. CASE reject_unauthorized(a)
  BY <1>1 DEF reject_unauthorized
<1>2. CASE Defer(a) \/ Send(a) \/ Read(a) \/ Ingest(a) \/ IngestFails(a)
  BY <1>2 DEF Defer, Send, Read, Ingest, IngestFails
<1>3. CASE AddRow(a)
  BY <1>3 DEF AddRow
<1>4. CASE SetEmbedding(a)
  BY <1>4 DEF SetEmbedding
<1>5. CASE RefuseItem(a) \/ UpdateFails(a) \/ Validate(a)
  BY <1>5 DEF RefuseItem, UpdateFails, Validate
<1>6. CASE Resolve(a)
  BY <1>6 DEF Resolve
<1>7. CASE Update(a)
  BY <1>7 DEF Update
<1>8. CASE SoftDelete(a)
  BY <1>8 DEF SoftDelete
<1>9. CASE set_many(a)
  BY <1>9 DEF set_many
<1>10. CASE WriteAudit(a)
  BY <1>10 DEF WriteAudit
<1> QED
  BY <1>1, <1>2, <1>3, <1>4, <1>5, <1>6, <1>7, <1>8, <1>9, <1>10 DEF Handle

----------------------------------------------------------------------------
(* Types.                                                                   *)

LEMMA InitTyped == Init => Base
BY IdsAssumption, BoundsAssumption
   DEF Init, Base, TypeOK, Tasked, Drawn, InLoop, Stages, Running

LEMMA HandleTyped ==
    ASSUME Base, NEW a \in Attempts, Handle(a)
    PROVE  TypeOK'
<1> USE DEF Base, TypeOK, To, db, Stages, Running, Waiting, Answered
<1>1. CASE reject_unauthorized(a)
  BY <1>1 DEF reject_unauthorized
<1>2. CASE Defer(a) \/ Send(a) \/ Read(a) \/ Ingest(a) \/ IngestFails(a)
  BY <1>2 DEF Defer, Send, Read, Ingest, IngestFails
<1>3. CASE AddRow(a)
  BY <1>3 DEF AddRow, Fresh
<1>4. CASE SetEmbedding(a)
  BY <1>4 DEF SetEmbedding, Drawn
<1>5. CASE RefuseItem(a) \/ UpdateFails(a) \/ Validate(a)
  BY <1>5 DEF RefuseItem, UpdateFails, Validate
<1>6. CASE Resolve(a)
  BY <1>6 DEF Resolve, resolve_short_id, Active
<1>7. CASE Update(a)
  BY <1>7 DEF Update
<1>8. CASE SoftDelete(a)
  BY <1>8 DEF SoftDelete
<1>9. CASE set_many(a)
  <2>1. task[a] \in Tasks
    BY <1>9 DEF set_many, Tasked
  <2>2. Want(a).writes \in [Fields -> Values \cup {Unset}]
    BY <2>1, WishFacts DEF Want
  <2>3. Applied(a) \in [Fields -> Values \cup {Unset}]
    BY <2>2 DEF Applied
  <2> QED
    BY <1>9, <2>3 DEF set_many
<1>10. CASE WriteAudit(a)
  BY <1>10 DEF WriteAudit
<1> QED
  BY <1>1, <1>2, <1>3, <1>4, <1>5, <1>6, <1>7, <1>8, <1>9, <1>10 DEF Handle

\* Where an attempt may stand after a step of its own: between two awaits only when
\* it was there before, or found the loop free.
LEMMA HandleMoves ==
    ASSUME Base, NEW a \in Attempts, Handle(a)
    PROVE  /\ pc[a] # "idle" /\ pc'[a] # "idle"
           /\ pc'[a] \in Running => pc[a] \in Running \/ HasLoop(a)
           /\ pc'[a] = "added" => target'[a] \in Ids
<1> USE DEF Base, TypeOK, To, db, Running
<1>1. CASE reject_unauthorized(a)
  BY <1>1 DEF reject_unauthorized
<1>2. CASE Defer(a) \/ Send(a) \/ Read(a) \/ Ingest(a) \/ IngestFails(a)
  BY <1>2 DEF Defer, Send, Read, Ingest, IngestFails, Admitted
<1>3. CASE AddRow(a)
  BY <1>3 DEF AddRow, Fresh
<1>4. CASE SetEmbedding(a)
  BY <1>4 DEF SetEmbedding
<1>5. CASE RefuseItem(a) \/ UpdateFails(a) \/ Validate(a)
  BY <1>5 DEF RefuseItem, UpdateFails, Validate, Admitted
<1>6. CASE Resolve(a)
  BY <1>6 DEF Resolve, Admitted
<1>7. CASE Update(a) \/ SoftDelete(a)
  BY <1>7 DEF Update, SoftDelete
<1>8. CASE set_many(a)
  BY <1>8 DEF set_many
<1>9. CASE WriteAudit(a)
  BY <1>9 DEF WriteAudit
<1> QED
  BY <1>1, <1>2, <1>3, <1>4, <1>5, <1>6, <1>7, <1>8, <1>9 DEF Handle

LEMMA BasePreserved == Base /\ [Next]_vars => Base'
<1> SUFFICES ASSUME Base, [Next]_vars PROVE Base'
  OBVIOUS
<1>1. ASSUME NEW a \in Attempts, NEW t \in Tasks, Issue(a, t) PROVE Base'
  <2>1. TypeOK'
    BY <1>1 DEF Issue, Base, TypeOK, db, Stages, Waiting
  <2>2. Tasked' /\ Drawn' /\ InLoop'
    BY <1>1 DEF Issue, Base, TypeOK, db, Tasked, Drawn, InLoop, Running, InBot, Want
  <2> QED
    BY <2>1, <2>2 DEF Base
<1>2. ASSUME NEW a \in Attempts, Handle(a) PROVE Base'
  <2>1. TypeOK'
    BY <1>2, HandleTyped
  <2>2. Alone(a)
    BY <1>2, HandleAlone DEF Base
  <2>3. /\ pc[a] # "idle" /\ pc'[a] # "idle"
        /\ pc'[a] \in Running => pc[a] \in Running \/ HasLoop(a)
        /\ pc'[a] = "added" => target'[a] \in Ids
    BY <1>2, HandleMoves
  <2>4. Tasked' /\ Drawn'
    BY <2>2, <2>3 DEF Base, Tasked, Drawn, Alone
  <2>5. InLoop'
    <3> SUFFICES ASSUME NEW b \in Attempts, NEW c \in Attempts, b # c,
                        pc'[b] \in Running, pc'[c] \in Running
                 PROVE  ~InBot(b) \/ ~InBot(c)
      BY <2>2 DEF InLoop, InBot, Want, Alone
    <3>1. CASE b # a /\ c # a
      BY <2>2, <3>1 DEF Alone, Base, InLoop
    <3>2. CASE b = a
      BY <2>2, <2>3, <3>2 DEF Alone, Base, InLoop, HasLoop
    <3>3. CASE c = a
      BY <2>2, <2>3, <3>3 DEF Alone, Base, InLoop, HasLoop
    <3> QED
      BY <3>1, <3>2, <3>3
  <2> QED
    BY <2>1, <2>4, <2>5 DEF Base
<1>3. ASSUME NEW a \in Attempts, Expire(a) PROVE Base'
  BY <1>3, BoundsAssumption
     DEF Expire, Fault, Base, TypeOK, db, Tasked, Drawn, InLoop, InBot, Want
<1>4. ASSUME NEW a \in Attempts, CallRaises(a) PROVE Base'
  <2>1. TypeOK'
    BY <1>4, BoundsAssumption DEF CallRaises, Fault, Base, TypeOK, db, To, Stages
  <2>2. Tasked' /\ Drawn' /\ InLoop'
    BY <1>4 DEF CallRaises, Base, TypeOK, db, To, Tasked, Drawn, InLoop, Running, Waiting,
                InBot, Want
  <2> QED
    BY <2>1, <2>2 DEF Base
<1>5. CASE Crash
  <2>1. TypeOK'
    BY <1>5, BoundsAssumption DEF Crash, Fault, Base, TypeOK, db, Stages
  <2>2. Tasked' /\ Drawn' /\ InLoop'
    BY <1>5 DEF Crash, Base, TypeOK, db, Tasked, Drawn, InLoop, Running, Waiting, InBot, Want
  <2> QED
    BY <2>1, <2>2 DEF Base
<1>6. CASE UNCHANGED vars
  BY <1>6 DEF vars, Base, TypeOK, Tasked, Drawn, InLoop, InBot, Want
<1> QED
  BY <1>1, <1>2, <1>3, <1>4, <1>5, <1>6 DEF Next

(* Theorem.  The variables of the commands keep their types: pc stays among *)
(* the stages of the handlers in items.py and profile.py, the locals among  *)
(* ids, and no more goes wrong than the bound allows.                       *)
THEOREM TypeCorrect == Spec => []TypeOK
<1>1. Base => TypeOK
  BY DEF Base
<1> QED
  BY <1>1, InitTyped, BasePreserved, PTL DEF Spec

----------------------------------------------------------------------------
(* How far an attempt is: with its change, its audit row and its answer.    *)

Turned(a)  == InBot(a) /\ ~is_whitelisted(a)
Silent     == {"idle", "queued", "deferred", "ingested", "resolved"}

Progress(a) ==
    /\ pc[a] \in Silent => a \notin changed /\ a \notin audit
    /\ pc[a] \in {"ingested", "added"} => Want(a).kind = "add"
    /\ pc[a] = "deferred" => Deferring(a)
    /\ pc[a] = "resolved" =>
          /\ Want(a).kind \in {"edit", "forget", "set", "bootstrap"} /\ ~Blank(a)
          /\ Want(a).kind # "forget" => Want(a).quality # "bad"
          /\ Want(a).kind = "edit" => Want(a).field # "none"
    /\ pc[a] \in {"deferred"} \cup Running => ~Turned(a)
    /\ pc[a] \in {"added", "written"} => Writes(a) /\ a \in changed /\ a \notin audit
    /\ pc[a] \in {"refusing", "no"} => a \notin changed /\ (a \in audit <=> Turned(a))
    /\ pc[a] \in {"replying", "yes"} =>
          IF Writes(a) THEN a \in changed /\ a \in audit /\ ~Turned(a)
          ELSE a \notin changed /\ ~Turned(a) /\ Want(a).quality # "bad"
    /\ a \in changed => Writes(a) /\ ~Turned(a)
    /\ a \in audit => a \in changed \/ Turned(a)
    /\ Want(a).kind = "add" /\ pc[a] \in {"written", "replying", "yes"} => target[a] \in embedded

Control == \A a \in Attempts : pc[a] = "idle" => a \notin changed /\ a \notin audit
Advance == \A a \in Attempts : pc[a] # "idle" => Progress(a)

LEMMA KindFacts ==
    ASSUME Base, NEW a \in Attempts, pc[a] # "idle"
    PROVE  Want(a).kind \in Kinds /\ Want(a) \in WishType
BY WishFacts DEF Base, Tasked, Want

LEMMA HandleProgress ==
    ASSUME Base, NEW a \in Attempts, Progress(a), Handle(a)
    PROVE  Progress(a)'
<1>1. /\ Want(a).kind \in Kinds /\ pc[a] # "idle"
      /\ Want(a)' = Want(a) /\ InBot(a)' = InBot(a)
      /\ is_whitelisted(a)' = is_whitelisted(a) /\ Turned(a)' = Turned(a)
      /\ Writes(a)' = Writes(a) /\ Deferring(a)' = Deferring(a) /\ Blank(a)' = Blank(a)
      /\ Blank(a) => Want(a).kind = "bootstrap" /\ Want(a).quality = "good"
  BY HandleAlone, HandleMoves, KindFacts
     DEF Base, Alone, Want, InBot, is_whitelisted, Turned, Writes, Deferring, Blank
<1> USE <1>1 DEF Base, TypeOK, To, db, Kinds, Silent, Running
<1>2. CASE reject_unauthorized(a)
  BY <1>2 DEF reject_unauthorized, Progress, Turned
<1>3. CASE Defer(a) \/ Ingest(a) \/ IngestFails(a)
  BY <1>3 DEF Defer, Ingest, IngestFails, Admitted, Progress, Turned, Deferring, Writes
<1>4. CASE Send(a) \/ Read(a)
  BY <1>4 DEF Send, Read, Progress, Deferring, Writes
<1>5. CASE AddRow(a)
  BY <1>5 DEF AddRow, Progress, Writes
<1>6. CASE SetEmbedding(a)
  BY <1>6 DEF SetEmbedding, Progress, Writes
<1>7. CASE RefuseItem(a) \/ UpdateFails(a) \/ Validate(a)
  BY <1>7 DEF RefuseItem, UpdateFails, Validate, ProfileTask, Admitted, Progress, Turned, Writes
<1>8. CASE Resolve(a)
  BY <1>8 DEF Resolve, Refusable, Admitted, Progress, Turned, Writes
<1>9. CASE Update(a) \/ SoftDelete(a)
  BY <1>9 DEF Update, SoftDelete, Progress, Writes
<1>10. CASE set_many(a)
  BY <1>10 DEF set_many, ProfileTask, Progress, Writes
<1>11. CASE WriteAudit(a)
  BY <1>11 DEF WriteAudit, Progress
<1> QED
  BY <1>2, <1>3, <1>4, <1>5, <1>6, <1>7, <1>8, <1>9, <1>10, <1>11 DEF Handle

\* Embeddings are never taken away.
LEMMA EmbeddingsStay ==
    ASSUME NEW a \in Attempts, Handle(a)
    PROVE  embedded \subseteq embedded'
BY DEF Handle, reject_unauthorized, Defer, Send, Read, Ingest, IngestFails, AddRow, SetEmbedding,
       RefuseItem, UpdateFails, Validate, Resolve, Update, SoftDelete, set_many, WriteAudit, db

\* Progress of an attempt that is not concerned by a step.
LEMMA ProgressStays ==
    ASSUME NEW a \in Attempts, Progress(a),
           task' = task, pc'[a] = pc[a], target'[a] = target[a],
           a \in changed' <=> a \in changed, a \in audit' <=> a \in audit,
           embedded \subseteq embedded'
    PROVE  Progress(a)'
BY DEF Progress, Turned, InBot, is_whitelisted, Writes, Blank, Deferring, Want

\* Progress of an attempt that is cut short.
LEMMA ProgressLost ==
    ASSUME NEW a \in Attempts, Progress(a), pc[a] # "idle",
           task' = task, pc'[a] = "lost", target'[a] = target[a], changed' = changed, audit' = audit
    PROVE  Progress(a)'
BY DEF Progress, Turned, InBot, is_whitelisted, Writes, Blank, Deferring, Want, Silent, Running

LEMMA ProgressPreserved == Base /\ Control /\ Advance /\ [Next]_vars => Control' /\ Advance'
<1> SUFFICES ASSUME Base, Control, Advance, [Next]_vars PROVE Control' /\ Advance'
  OBVIOUS
<1>1. ASSUME NEW a \in Attempts, NEW t \in Tasks, Issue(a, t) PROVE Control' /\ Advance'
  <2>1. /\ pc[a] = "idle" /\ pc'[a] = "queued"
        /\ \A b \in Attempts \ {a} : pc'[b] = pc[b] /\ task'[b] = task[b]
        /\ UNCHANGED <<db, target>>
    BY <1>1 DEF Issue, Base, TypeOK
  <2>2. Progress(a)'
    BY <2>1 DEF Control, Progress, Silent, Running, db
  <2>3. ASSUME NEW b \in Attempts \ {a}, pc'[b] # "idle" PROVE Progress(b)'
    <3>1. Progress(b)
      BY <2>1, <2>3 DEF Advance
    <3> QED
      BY <2>1, <3>1 DEF Progress, Turned, InBot, is_whitelisted, Writes, Blank, Deferring, Want, db
  <2> QED
    BY <2>1, <2>2, <2>3 DEF Control, Advance, db
<1>2. ASSUME NEW a \in Attempts, Handle(a) PROVE Control' /\ Advance'
  <2>1. Alone(a) /\ pc[a] # "idle" /\ pc'[a] # "idle"
    BY <1>2, HandleAlone, HandleMoves DEF Base
  <2>2. Control'
    BY <2>1 DEF Alone, Control
  <2>3. Progress(a)'
    BY <1>2, <2>1, HandleProgress DEF Advance
  <2>4. ASSUME NEW b \in Attempts \ {a}, pc'[b] # "idle" PROVE Progress(b)'
    <3>1. Progress(b)
      BY <2>1, <2>4 DEF Alone, Advance
    <3> QED
      BY <1>2, <2>1, <3>1, EmbeddingsStay, ProgressStays DEF Alone
  <2> QED
    BY <2>2, <2>3, <2>4 DEF Advance
<1>3. ASSUME NEW a \in Attempts, Expire(a) PROVE Control' /\ Advance'
  BY <1>3, ProgressStays DEF Expire, db, Control, Advance
<1>4. ASSUME NEW a \in Attempts, CallRaises(a) PROVE Control' /\ Advance'
  <2>1. /\ pc[a] # "idle" /\ pc'[a] = "lost"
        /\ \A b \in Attempts \ {a} : pc'[b] = pc[b]
        /\ UNCHANGED <<db, task, target>>
    BY <1>4 DEF CallRaises, To, Base, TypeOK, Running, Waiting
  <2> QED
    BY <2>1, ProgressStays, ProgressLost DEF Control, Advance, db
<1>5. CASE Crash
  <2>1. /\ UNCHANGED <<db, task, target>>
        /\ \A b \in Attempts : \/ pc'[b] = pc[b]
                               \/ pc[b] # "idle" /\ pc'[b] = "lost"
    BY <1>5 DEF Crash, Base, TypeOK, Running, Waiting
  <2> QED
    BY <2>1, ProgressStays, ProgressLost DEF Control, Advance, db
<1>6. CASE UNCHANGED vars
  BY <1>6, ProgressStays DEF vars, Control, Advance
<1> QED
  BY <1>1, <1>2, <1>3, <1>4, <1>5, <1>6 DEF Next

LEMMA InitProgress == Init => Control /\ Advance
BY DEF Init, Control, Advance

----------------------------------------------------------------------------
(* The rows of the wardrobe: what the handler that holds the loop has read  *)
(* of them is still so when it writes.                                      *)

Gone(i) == \E b \in changed : Hides(b) /\ target[b] = i

KeptOrGone == \A i \in Wardrobe : rows[i] # "active" => Gone(i)

\* The name a handler resolved still has its item for the only match.
OnlyMatch(a) ==
    /\ resolve_short_id(a) = {target[a]}
    /\ target[a] # Want(a).item => rows[Want(a).item] # "active"

Chosen ==
    \A a \in Attempts :
        pc[a] = "resolved" /\ Want(a).kind \in {"edit", "forget"} => OnlyMatch(a)

Laid == \A a \in Attempts : pc[a] = "added" => rows[target[a]] = "active"

Aim == Base /\ Control /\ Advance /\ KeptOrGone /\ Chosen /\ Laid

\* Rows change only at the hands of the handler that has the loop.
LEMMA RowsStay ==
    ASSUME Base, Advance, NEW a \in Attempts, Handle(a), rows' # rows
    PROVE  pc[a] \in Running /\ InBot(a)
<1>1. AddRow(a) \/ Update(a) \/ SoftDelete(a)
  BY DEF Handle, reject_unauthorized, Defer, Send, Read, Ingest, IngestFails, SetEmbedding,
         RefuseItem, UpdateFails, Validate, Resolve, set_many, WriteAudit, db
<1>2. pc[a] \in Running
  BY <1>1 DEF AddRow, Update, SoftDelete, Running
<1>3. Want(a).kind # "bootstrap"
  BY <1>1, <1>2 DEF AddRow, Update, SoftDelete, Advance, Progress, Running
<1> QED
  BY <1>2, <1>3 DEF InBot

\* Changes are not taken back, and what they were about stays.
LEMMA ChangesStay ==
    ASSUME Base, NEW a \in Attempts, Handle(a)
    PROVE  /\ changed \subseteq changed'
           /\ Advance => \A b \in changed : target'[b] = target[b]
           /\ \A b \in Attempts : Hides(b)' = Hides(b) /\ Want(b)' = Want(b)
<1>1. Alone(a)
  BY HandleAlone DEF Base
<1>2. changed \subseteq changed'
  BY DEF Handle, reject_unauthorized, Defer, Send, Read, Ingest, IngestFails, AddRow,
         SetEmbedding, RefuseItem, UpdateFails, Validate, Resolve, Update, SoftDelete,
         set_many, WriteAudit, db
<1>3. ASSUME Advance, a \in changed PROVE target'[a] = target[a]
  <2>1. pc[a] # "idle" /\ Progress(a)
    BY <1>3, HandleMoves DEF Advance
  <2>2. ~AddRow(a) /\ ~Resolve(a)
    BY <1>3, <2>1 DEF AddRow, Resolve, Admitted, Progress, Silent
  <2> QED
    BY <2>2 DEF Handle, reject_unauthorized, Defer, Send, Read, Ingest, IngestFails,
         SetEmbedding, RefuseItem, UpdateFails, Validate, Update, SoftDelete,
         set_many, WriteAudit
<1> QED
  BY <1>1, <1>2, <1>3 DEF Alone, Hides, Want, Base, TypeOK

LEMMA AimHandle ==
    ASSUME Aim, NEW a \in Attempts, Handle(a)
    PROVE  KeptOrGone' /\ Chosen' /\ Laid'
<1> USE DEF Aim
<1>1. Alone(a) /\ pc[a] # "idle" /\ Progress(a)
  BY HandleAlone, HandleMoves DEF Base, Advance
<1>2. /\ changed \subseteq changed'
      /\ \A b \in changed : target'[b] = target[b]
      /\ \A b \in Attempts : Hides(b)' = Hides(b) /\ Want(b)' = Want(b)
  BY ChangesStay
<1>3. \A i \in Wardrobe : rows[i] # "active" => Gone(i)'
  BY <1>2 DEF KeptOrGone, Gone, Base, TypeOK
<1>4. KeptOrGone'
  <2>1. CASE AddRow(a)
    BY <1>3, <2>1, IdsAssumption DEF KeptOrGone, AddRow, Fresh, Base, TypeOK
  <2>2. CASE Update(a)
    <3>1. target'[a] = target[a] /\ a \in changed'
      BY <2>2 DEF Update
    <3>2. \A i \in Wardrobe : rows[i] = "active" /\ rows'[i] # "active" =>
             i = target[a] /\ Want(a).field \in {"id", "deleted_at"}
      BY <2>2, IdsAssumption DEF Update, Base, TypeOK
    <3>3. \A i \in Wardrobe : rows[i] = "active" /\ rows'[i] # "active" => Gone(i)'
      BY <1>2, <2>2, <3>1, <3>2 DEF Update, Gone, Hides
    <3> QED
      BY <1>3, <3>3 DEF KeptOrGone
  <2>3. CASE SoftDelete(a)
    <3>1. target'[a] = target[a] /\ a \in changed' /\ Hides(a)
      BY <2>3 DEF SoftDelete, Hides
    <3>2. \A i \in Wardrobe : rows[i] = "active" /\ rows'[i] # "active" => i = target[a]
      BY <2>3, IdsAssumption DEF SoftDelete, Base, TypeOK
    <3> QED
      BY <1>2, <1>3, <3>1, <3>2 DEF KeptOrGone, Gone
  <2>4. CASE rows' = rows
    BY <1>3, <2>4 DEF KeptOrGone
  <2> QED
    BY <2>1, <2>2, <2>3, <2>4
       DEF Handle, reject_unauthorized, Defer, Send, Read, Ingest, IngestFails, SetEmbedding,
           RefuseItem, UpdateFails, Validate, Resolve, set_many, WriteAudit, db
<1>5. ASSUME NEW b \in Attempts \ {a}, pc'[b] \in Running, Want(b).kind # "bootstrap"
      PROVE  rows' = rows /\ pc'[b] = pc[b] /\ target'[b] = target[b]
  BY <1>1, <1>5, RowsStay DEF Alone, Base, InLoop, InBot
<1>6. pc'[a] = "resolved" /\ Want(a).kind \in {"edit", "forget"} => OnlyMatch(a)'
  <2> SUFFICES ASSUME pc'[a] = "resolved", Want(a).kind \in {"edit", "forget"}
               PROVE  OnlyMatch(a)'
    OBVIOUS
  <2>1. Resolve(a)
    BY DEF Handle, reject_unauthorized, Defer, Send, Read, Ingest, IngestFails, AddRow,
         SetEmbedding, RefuseItem, UpdateFails, Validate, Update, SoftDelete,
         set_many, WriteAudit, To, Base, TypeOK, ProfileTask
  <2>2. PICK i \in resolve_short_id(a) : target' = [target EXCEPT ![a] = i]
    BY <2>1 DEF Resolve
  <2>3. i \in Ids /\ rows[i] = "active" /\ rows' = rows /\ target'[a] = i
    BY <2>1, <2>2 DEF Resolve, resolve_short_id, Active, Base, TypeOK, db
  <2>4. Cardinality(resolve_short_id(a)) = 1
    BY <2>1 DEF Resolve, Refusable
  <2>5. resolve_short_id(a) = {i}
    <3>1. IsFiniteSet(resolve_short_id(a))
      BY IdsAssumption, FS_Subset DEF resolve_short_id, Active
    <3> QED
      BY <2>2, <2>4, <3>1, FS_Singleton
  <2>6. Want(a).item \in Matching[Want(a).name] /\ Want(a).item \in Ids
    BY <1>1, WishFacts, IdsAssumption DEF Base, Tasked, Want
  <2>7. resolve_short_id(a)' = {i}
    BY <1>2, <2>3, <2>5 DEF resolve_short_id, Active
  <2>8. i # Want(a).item => rows[Want(a).item] # "active"
    BY <2>5, <2>6 DEF resolve_short_id, Active
  <2> QED
    BY <1>2, <2>3, <2>7, <2>8 DEF OnlyMatch
<1>7. Chosen'
  <2> SUFFICES ASSUME NEW b \in Attempts, pc'[b] = "resolved", Want(b).kind \in {"edit", "forget"}
               PROVE  OnlyMatch(b)'
    BY <1>2 DEF Chosen
  <2>1. CASE b = a
    BY <1>6, <2>1
  <2>2. CASE b # a
    <3>1. rows' = rows /\ pc'[b] = pc[b] /\ target'[b] = target[b]
      BY <1>5, <2>2 DEF Running
    <3>2. OnlyMatch(b)
      BY <3>1 DEF Chosen
    <3> QED
      BY <1>2, <3>1, <3>2 DEF OnlyMatch, resolve_short_id, Active
  <2> QED
    BY <2>1, <2>2
<1>8. Laid'
  <2> SUFFICES ASSUME NEW b \in Attempts, pc'[b] = "added" PROVE rows'[target'[b]] = "active"
    BY DEF Laid
  <2>1. CASE b = a
    <3>1. AddRow(a)
      BY <2>1 DEF Handle, reject_unauthorized, Defer, Send, Read, Ingest, IngestFails,
         SetEmbedding, RefuseItem, UpdateFails, Validate, Update, SoftDelete, Resolve,
         set_many, WriteAudit, To, Base, TypeOK, ProfileTask
    <3> QED
      BY <2>1, <3>1 DEF AddRow, Fresh, Base, TypeOK
  <2>2. CASE b # a
    <3>1. pc[b] = "added" /\ Want(b).kind = "add"
      BY <1>1, <2>2 DEF Alone, Advance, Progress
    <3> QED
      BY <1>5, <2>2, <3>1 DEF Laid, Running
  <2> QED
    BY <2>1, <2>2
<1> QED
  BY <1>4, <1>7, <1>8

LEMMA AimPreserved == Aim /\ [Next]_vars => Aim'
<1> SUFFICES ASSUME Aim, [Next]_vars PROVE KeptOrGone' /\ Chosen' /\ Laid'
  BY BasePreserved, ProgressPreserved DEF Aim
<1> USE DEF Aim
<1>1. ASSUME NEW a \in Attempts, NEW t \in Tasks, Issue(a, t)
      PROVE  KeptOrGone' /\ Chosen' /\ Laid'
  <2>1. /\ pc[a] = "idle" /\ pc'[a] = "queued" /\ a \notin changed
        /\ \A b \in Attempts \ {a} : pc'[b] = pc[b] /\ task'[b] = task[b]
        /\ UNCHANGED <<db, target>>
    BY <1>1 DEF Issue, Base, TypeOK, Control
  <2>2. \A b \in changed : Hides(b)' = Hides(b)
    BY <2>1 DEF Hides, Want, Base, TypeOK
  <2>3. Chosen'
    <3> SUFFICES ASSUME NEW b \in Attempts, pc'[b] = "resolved",
                        Want(b)'.kind \in {"edit", "forget"}
                 PROVE  OnlyMatch(b)'
      BY DEF Chosen
    <3>1. b # a /\ pc[b] = "resolved" /\ Want(b)' = Want(b)
      BY <2>1 DEF Want
    <3>2. OnlyMatch(b)
      BY <3>1 DEF Chosen
    <3> QED
      BY <2>1, <3>1, <3>2 DEF OnlyMatch, resolve_short_id, Active, db
  <2> QED
    BY <2>1, <2>2, <2>3 DEF KeptOrGone, Gone, Laid, db, Base, TypeOK
<1>2. ASSUME NEW a \in Attempts, Handle(a) PROVE KeptOrGone' /\ Chosen' /\ Laid'
  BY <1>2, AimHandle
<1>3. CASE \/ \E a \in Attempts : Expire(a) \/ CallRaises(a)
           \/ Crash \/ UNCHANGED vars
  <2>1. UNCHANGED <<db, task, target>>
    BY <1>3 DEF Expire, CallRaises, Crash, vars, db, To
  <2>2. \A b \in Attempts : pc'[b] = pc[b] \/ pc'[b] = "lost"
    BY <1>3 DEF Expire, CallRaises, Crash, vars, db, To, Base, TypeOK
  <2>3. \A b \in Attempts : OnlyMatch(b) => OnlyMatch(b)'
    BY <2>1 DEF OnlyMatch, resolve_short_id, Active, Want, db
  <2> QED
    BY <2>1, <2>2, <2>3 DEF KeptOrGone, Gone, Hides, Chosen, Laid, Want, db
<1> QED
  BY <1>1, <1>2, <1>3 DEF Next

LEMMA InitAim == Init => Aim
BY InitTyped, InitProgress, IdsAssumption DEF Init, Aim, KeptOrGone, Chosen, Laid

----------------------------------------------------------------------------
(* The wrong item, the tables of items and embeddings, and the profile.     *)

Tables == OnlyTheItemMeant /\ EmbeddingsMatchItems /\ ProfileIsWhatWasWritten

LEMMA MeantHandle ==
    ASSUME Aim, OnlyTheItemMeant, NEW a \in Attempts, Handle(a)
    PROVE  OnlyTheItemMeant'
<1> USE DEF Aim
<1>1. /\ Alone(a) /\ pc[a] # "idle" /\ Progress(a)
      /\ changed \subseteq changed'
      /\ \A b \in changed : target'[b] = target[b]
      /\ \A b \in Attempts : Hides(b)' = Hides(b) /\ Want(b)' = Want(b)
  BY HandleAlone, HandleMoves, ChangesStay DEF Base, Advance
<1> SUFFICES ASSUME NEW b \in changed', Want(b).kind \in {"edit", "forget"},
                    target'[b] # Want(b).item
             PROVE  \E c \in changed' \ {b} : Hides(c) /\ target'[c] = Want(b).item
  <2>1. changed' \subseteq Attempts
    BY HandleTyped DEF Base, TypeOK
  <2> QED
    BY <1>1, <2>1 DEF OnlyTheItemMeant
<1>2. CASE b \in changed
  BY <1>1, <1>2 DEF OnlyTheItemMeant
<1>3. CASE b \notin changed
  <2>1. b = a
    BY <1>1, <1>3, HandleTyped DEF Alone, Base, TypeOK
  <2>2. Update(a) \/ SoftDelete(a)
    <3>1. ~AddRow(a) /\ ~set_many(a)
      BY <1>1, <2>1 DEF AddRow, set_many, ProfileTask, Progress
    <3>2. b \in changed' /\ b \notin changed
      BY <1>3
    <3> QED
      BY <3>1, <3>2 DEF Handle, reject_unauthorized, Defer, Send, Read, Ingest, IngestFails,
         SetEmbedding, RefuseItem, UpdateFails, Validate, Resolve, WriteAudit, db
  <2>3. pc[a] = "resolved" /\ target'[a] = target[a]
    BY <2>2 DEF Update, SoftDelete
  <2>4. rows[Want(a).item] # "active" /\ Want(a).item \in Wardrobe
    BY <1>1, <2>1, <2>3, WishFacts DEF Chosen, OnlyMatch, Base, Tasked, Want
  <2>5. Gone(Want(a).item)
    BY <2>4 DEF KeptOrGone
  <2> QED
    BY <1>1, <1>3, <2>1, <2>5 DEF Gone, Base, TypeOK
<1> QED
  BY <1>2, <1>3

\* Why item i has no embedding; the handler that still owes it, or gave it up.
Owed(i) ==
    \E a \in changed : /\ Want(a).kind = "add" /\ target[a] = i
                       /\ \/ pc[a] = "added"
                          \/ pc[a] = "lost" /\ faults > 0

LEMMA EmbeddingsHandle ==
    ASSUME Aim, EmbeddingsMatchItems, NEW a \in Attempts, Handle(a)
    PROVE  EmbeddingsMatchItems'
<1> USE DEF Aim
<1>1. /\ Alone(a) /\ pc[a] # "idle" /\ Progress(a) /\ faults' = faults
      /\ changed \subseteq changed'
      /\ \A b \in changed : target'[b] = target[b]
      /\ \A b \in Attempts : Want(b)' = Want(b)
      /\ TypeOK /\ TypeOK'
  BY HandleAlone, HandleMoves, HandleTyped, ChangesStay DEF Base, Advance
<1>2. \A i \in Ids : (Renamed(i) => Renamed(i)') /\ (RenamedAway(i) => RenamedAway(i)')
  BY <1>1 DEF Renamed, RenamedAway, TypeOK
<1>3. \A i \in Ids : Owed(i) /\ ~SetEmbedding(a) => Owed(i)'
  <2> SUFFICES ASSUME NEW i \in Ids, ~SetEmbedding(a), NEW b \in changed,
                      Want(b).kind = "add", target[b] = i,
                      pc[b] = "added" \/ (pc[b] = "lost" /\ faults > 0)
               PROVE  pc'[b] = pc[b]
    BY <1>1 DEF Owed, TypeOK
  <2>1. CASE b # a
    BY <1>1, <2>1 DEF Alone, TypeOK
  <2>2. CASE b = a
    BY <1>1, <2>2 DEF Handle, reject_unauthorized, Defer, Send, Read, Ingest, IngestFails, AddRow,
         RefuseItem, UpdateFails, Validate, Resolve, Update, SoftDelete, set_many, WriteAudit,
         Admitted
  <2> QED
    BY <2>1, <2>2
<1>4. \A i \in Ids : rows[i] # "free" /\ i \notin embedded => Renamed(i) \/ Owed(i)
  BY DEF EmbeddingsMatchItems, Owed
<1>5. \A i \in embedded : rows[i] = "free" => RenamedAway(i)
  BY DEF EmbeddingsMatchItems
<1>6. /\ \A i \in Ids : rows'[i] # "free" /\ i \notin embedded' => Renamed(i)' \/ Owed(i)'
      /\ \A i \in embedded' : rows'[i] = "free" => RenamedAway(i)'
  <2>1. CASE AddRow(a)
    <3>1. PICK j \in Fresh : /\ rows' = [rows EXCEPT ![j] = "active"]
                             /\ target' = [target EXCEPT ![a] = j]
      BY <2>1 DEF AddRow
    <3>2. /\ a \in changed' /\ pc'[a] = "added" /\ target'[a] = j /\ embedded' = embedded
          /\ Want(a).kind = "add" /\ ~SetEmbedding(a)
      BY <1>1, <2>1, <3>1 DEF AddRow, SetEmbedding, To, Progress, TypeOK
    <3>3. Owed(j)'
      BY <1>1, <3>2 DEF Owed
    <3>4. j \in Ids /\ \A i \in Ids \ {j} : rows'[i] = rows[i]
      BY <3>1 DEF Fresh, TypeOK
    <3>5. rows'[j] = "active"
      BY <1>1, <3>1, <3>4 DEF TypeOK
    <3>6. ASSUME NEW i \in Ids, rows'[i] # "free", i \notin embedded'
          PROVE  Renamed(i)' \/ Owed(i)'
      <4>1. CASE i = j
        BY <3>3, <4>1
      <4>2. CASE i # j
        BY <1>2, <1>3, <1>4, <3>2, <3>4, <3>6, <4>2
      <4> QED
        BY <4>1, <4>2
    <3>7. ASSUME NEW i \in embedded', rows'[i] = "free" PROVE RenamedAway(i)'
      BY <1>1, <1>2, <1>5, <3>2, <3>4, <3>5, <3>7 DEF TypeOK
    <3> QED
      BY <3>6, <3>7
  <2>2. CASE SetEmbedding(a)
    <3>1. /\ pc[a] = "added" /\ embedded' = embedded \cup {target[a]} /\ rows' = rows
          /\ changed' = changed /\ target' = target
      BY <2>2 DEF SetEmbedding
    <3>2. rows[target[a]] = "active"
      BY <3>1 DEF Laid
    <3>3. \A i \in Ids : i # target[a] /\ Owed(i) => Owed(i)'
      <4>1. \A b \in changed : target[b] # target[a] =>
               /\ b \in changed' /\ Want(b)' = Want(b) /\ target'[b] = target[b]
               /\ pc'[b] = pc[b]
        BY <1>1 DEF Alone, TypeOK
      <4> QED
        BY <1>1, <4>1 DEF Owed
    <3>4. \A i \in Ids : i \notin embedded' => i \notin embedded /\ i # target[a]
      BY <3>1
    <3>5. \A i \in embedded' : i \in embedded \/ i = target[a]
      BY <3>1
    <3> QED
      BY <1>1, <1>2, <1>4, <1>5, <3>1, <3>2, <3>3, <3>4, <3>5 DEF TypeOK
  <2>3. CASE Update(a)
    <3>1. /\ pc[a] = "resolved" /\ a \in changed' /\ target' = target /\ embedded' = embedded
          /\ Want(a).kind = "edit" /\ ~SetEmbedding(a)
      BY <2>3 DEF Update, SetEmbedding
    <3>2. CASE Want(a).field = "id"
      <4>1. Renamed(Want(a).newId)' /\ RenamedAway(target[a])'
        BY <1>1, <3>1, <3>2 DEF Renamed, RenamedAway
      <4>2. rows' = [rows EXCEPT ![target[a]] = "free", ![Want(a).newId] = "active"]
        BY <2>3, <3>2 DEF Update
      <4>3. \A i \in Ids : rows'[i] # rows[i] => i = target[a] \/ i = Want(a).newId
        BY <1>1, <4>2 DEF TypeOK
      <4>4. \A i \in Ids : i = target[a] /\ i # Want(a).newId => rows'[i] = "free"
        BY <1>1, <4>2 DEF TypeOK
      <4>5. \A i \in Ids : i = Want(a).newId => rows'[i] = "active"
        BY <1>1, <4>2 DEF TypeOK
      <4> QED
        BY <1>1, <1>2, <1>3, <1>4, <1>5, <3>1, <4>1, <4>3, <4>4, <4>5 DEF TypeOK
    <3>3. CASE Want(a).field # "id"
      <4>1. rows' = rows \/ rows' = [rows EXCEPT ![target[a]] = "hidden"]
        BY <2>3, <3>3 DEF Update
      <4>2. rows[target[a]] = "active"
        BY <3>1 DEF Chosen, OnlyMatch, resolve_short_id, Active
      <4>3. \A i \in Ids : rows'[i] = "free" <=> rows[i] = "free"
        BY <1>1, <4>1, <4>2 DEF TypeOK
      <4> QED
        BY <1>1, <1>2, <1>3, <1>4, <1>5, <3>1, <4>3 DEF TypeOK
    <3> QED
      BY <3>2, <3>3
  <2>4. CASE SoftDelete(a)
    <3>1. /\ pc[a] = "resolved" /\ embedded' = embedded /\ Want(a).kind = "forget"
          /\ ~SetEmbedding(a) /\ rows' = [rows EXCEPT ![target[a]] = "hidden"]
      BY <2>4 DEF SoftDelete, SetEmbedding
    <3>2. rows[target[a]] = "active"
      BY <3>1 DEF Chosen, OnlyMatch, resolve_short_id, Active
    <3>3. \A i \in Ids : rows'[i] = "free" <=> rows[i] = "free"
      BY <1>1, <3>1, <3>2 DEF TypeOK
    <3> QED
      BY <1>1, <1>2, <1>3, <1>4, <1>5, <3>1, <3>3 DEF TypeOK
  <2>5. CASE rows' = rows /\ embedded' = embedded /\ ~SetEmbedding(a)
    BY <1>1, <1>2, <1>3, <1>4, <1>5, <2>5 DEF TypeOK
  <2> QED
    BY <2>1, <2>2, <2>3, <2>4, <2>5
       DEF Handle, reject_unauthorized, Defer, Send, Read, Ingest, IngestFails,
           RefuseItem, UpdateFails, Validate, Resolve, set_many, WriteAudit, db
<1> QED
  BY <1>6 DEF EmbeddingsMatchItems, Owed

LEMMA ProfileHandle ==
    ASSUME Aim, ProfileIsWhatWasWritten, NEW a \in Attempts, Handle(a)
    PROVE  ProfileIsWhatWasWritten'
<1> USE DEF Aim
<1> DEFINE Wrote(b, f) == ProfileTask(b) /\ Want(b).writes[f] # Unset
           Sound(f) == IF \A b \in changed : ~Wrote(b, f) THEN profile[f] = Unset
                       ELSE \E b \in changed : Wrote(b, f) /\ profile[f] = Want(b).writes[f]
<1>1. /\ pc[a] # "idle" /\ Progress(a) /\ changed \subseteq Attempts
      /\ changed \subseteq changed' /\ changed' \subseteq changed \cup {a}
      /\ \A b \in Attempts : Want(b)' = Want(b) /\ ProfileTask(b)' = ProfileTask(b)
  BY HandleAlone, HandleMoves, HandleTyped, ChangesStay
     DEF Alone, Base, TypeOK, Advance, ProfileTask
<1>2. ProfileIsWhatWasWritten <=> \A f \in Fields : Sound(f)
  BY DEF ProfileIsWhatWasWritten
<1>3. (ProfileIsWhatWasWritten <=> \A f \in Fields : Sound(f))'
  BY DEF ProfileIsWhatWasWritten
<1>4. \A f \in Fields, b \in Attempts : Wrote(b, f)' <=> Wrote(b, f)
  BY <1>1
<1>5. ASSUME NEW f \in Fields PROVE Sound(f)'
  <2>1. CASE profile' = profile /\ (changed' = changed \/ ~ProfileTask(a))
    BY <1>1, <1>2, <1>4, <1>5, <2>1
  <2>2. CASE set_many(a) /\ profile' = Applied(a) /\ changed' = changed \cup {a}
    <3>1. ProfileTask(a)
      BY <2>2 DEF set_many
    <3>2. CASE Want(a).writes[f] = Unset
      <4>1. profile'[f] = profile[f] /\ ~Wrote(a, f)
        BY <1>5, <2>2, <3>2 DEF Applied
      <4> QED
        BY <1>1, <1>2, <1>4, <1>5, <2>2, <4>1
    <3>3. CASE Want(a).writes[f] # Unset
      <4>1. profile'[f] = Want(a).writes[f] /\ Wrote(a, f) /\ a \in changed'
        BY <1>5, <2>2, <3>1, <3>3 DEF Applied
      <4> QED
        BY <1>1, <1>4, <4>1
    <3> QED
      BY <3>2, <3>3
  <2>3. CASE AddRow(a) \/ Update(a) \/ SoftDelete(a)
    <3>1. profile' = profile /\ ~ProfileTask(a)
      BY <1>1, <2>3 DEF AddRow, Update, SoftDelete, ProfileTask, Progress
    <3> QED
      BY <2>1, <3>1
  <2> QED
    BY <2>1, <2>2, <2>3
       DEF Handle, reject_unauthorized, Defer, Send, Read, Ingest, IngestFails, SetEmbedding,
           RefuseItem, UpdateFails, Validate, Resolve, set_many, WriteAudit, db
<1> QED
  BY <1>3, <1>5

LEMMA TablesPreserved == Aim /\ Tables /\ [Next]_vars => Tables'
<1> SUFFICES ASSUME Aim, Tables, [Next]_vars PROVE Tables'
  OBVIOUS
<1> USE DEF Tables
<1>1. ASSUME NEW a \in Attempts, NEW t \in Tasks, Issue(a, t) PROVE Tables'
  <2>1. /\ pc[a] = "idle" /\ pc'[a] = "queued" /\ a \notin changed
        /\ \A b \in Attempts \ {a} : pc'[b] = pc[b] /\ task'[b] = task[b]
        /\ UNCHANGED <<db, target, faults>>
    BY <1>1 DEF Issue, Aim, Base, TypeOK, Control
  <2>2. /\ changed \subseteq Attempts
        /\ \A b \in changed : /\ Want(b)' = Want(b) /\ Hides(b)' = Hides(b) /\ pc'[b] = pc[b]
                              /\ ProfileTask(b)' = ProfileTask(b)
    BY <2>1 DEF Hides, Want, ProfileTask, Aim, Base, TypeOK
  <2>3. OnlyTheItemMeant'
    BY <2>1, <2>2 DEF OnlyTheItemMeant, db
  <2>4. EmbeddingsMatchItems'
    <3>1. \A i : (Renamed(i)' <=> Renamed(i)) /\ (RenamedAway(i)' <=> RenamedAway(i))
      BY <2>1, <2>2 DEF Renamed, RenamedAway, db
    <3>2. \A i : Owed(i)' <=> Owed(i)
      BY <2>1, <2>2 DEF Owed, db
    <3> QED
      BY <2>1, <3>1, <3>2 DEF EmbeddingsMatchItems, Owed, db
  <2>5. ProfileIsWhatWasWritten'
    BY <2>1, <2>2 DEF ProfileIsWhatWasWritten, db
  <2> QED
    BY <2>3, <2>4, <2>5
<1>2. ASSUME NEW a \in Attempts, Handle(a) PROVE Tables'
  BY <1>2, MeantHandle, EmbeddingsHandle, ProfileHandle
<1>3. CASE \/ \E a \in Attempts : Expire(a) \/ CallRaises(a)
           \/ Crash \/ UNCHANGED vars
  <2>1. UNCHANGED <<db, task, target>> /\ faults' >= faults
    BY <1>3 DEF Expire, CallRaises, Crash, vars, db, To, Fault, Aim, Base, TypeOK
  <2>2. \A b \in Attempts : \/ pc'[b] = pc[b]
                            \/ pc'[b] = "lost" /\ faults' > 0
    <3>1. Fault => faults' > 0
      BY DEF Fault, Aim, Base, TypeOK
    <3>2. CASE \E a \in Attempts : Expire(a) \/ CallRaises(a)
      <4>1. Fault
        BY <3>2 DEF Expire, CallRaises
      <4>2. \A b \in Attempts : pc'[b] = pc[b] \/ pc'[b] = "lost"
        BY <3>2 DEF Expire, CallRaises, To, Aim, Base, TypeOK
      <4> QED
        BY <3>1, <4>1, <4>2
    <3>3. CASE Crash
      <4>1. Fault
        BY <3>3 DEF Crash
      <4>2. \A b \in Attempts : pc'[b] = pc[b] \/ pc'[b] = "lost"
        BY <3>3 DEF Crash
      <4> QED
        BY <3>1, <4>1, <4>2
    <3>4. CASE UNCHANGED vars
      <4>1. pc' = pc
        BY <3>4 DEF vars
      <4> QED
        BY <4>1
    <3> QED
      BY <1>3, <3>2, <3>3, <3>4
  <2>3. OnlyTheItemMeant' /\ ProfileIsWhatWasWritten'
    BY <2>1 DEF OnlyTheItemMeant, ProfileIsWhatWasWritten, ProfileTask, Hides, Want, db
  <2>4. \A i \in Ids : (Renamed(i)' <=> Renamed(i)) /\ (RenamedAway(i)' <=> RenamedAway(i))
    BY <2>1 DEF Renamed, RenamedAway, Want, db
  <2>5. \A i \in Ids : Owed(i) => Owed(i)'
    <3>1. faults > 0 => faults' > 0
      <4>1. faults' = faults \/ faults' = faults + 1
        BY <1>3 DEF Expire, CallRaises, Crash, vars, Fault
      <4> QED
        BY <4>1 DEF Aim, Base, TypeOK
    <3>2. \A b \in changed : Want(b)' = Want(b) /\ target'[b] = target[b] /\ b \in Attempts
      BY <2>1 DEF Want, db, Aim, Base, TypeOK
    <3> QED
      BY <2>1, <2>2, <3>1, <3>2 DEF Owed, db
  <2>6. EmbeddingsMatchItems'
    BY <2>1, <2>4, <2>5 DEF EmbeddingsMatchItems, Owed, db, Aim, Base, TypeOK
  <2> QED
    BY <2>3, <2>6
<1> QED
  BY <1>1, <1>2, <1>3 DEF Next

LEMMA InitTables == Init => Tables
BY IdsAssumption DEF Init, Tables, OnlyTheItemMeant, EmbeddingsMatchItems, ProfileIsWhatWasWritten

(* Theorem.  What the operator is told is so, for any wishes and names: the *)
(* replies at the end of the handlers of items.py and profile.py agree with *)
(* the committed rows and the audit log, whatever crashed in between.       *)
THEOREM AnswersAreTruthful == Spec => []AnswersAreTrue
<1>1. Aim => AnswersAreTrue
  <2> SUFFICES ASSUME Aim, NEW a \in Attempts
               PROVE  /\ pc[a] = "yes" /\ Writes(a) => a \in changed \cap audit
                      /\ pc[a] = "yes" /\ Want(a).kind = "add" => target[a] \in embedded
                      /\ pc[a] = "no" => a \notin changed /\ (a \in audit <=> Turned(a))
                      /\ a \in changed => ~Turned(a)
    BY DEF AnswersAreTrue, Turned
  <2>1. CASE pc[a] = "idle"
    BY <2>1 DEF Aim, Control
  <2>2. CASE pc[a] # "idle"
    BY <2>2 DEF Aim, Advance, Progress
  <2> QED
    BY <2>1, <2>2
<1> QED
  BY <1>1, InitAim, AimPreserved, PTL DEF Spec

(* Theorem.  resolve_short_id never lets a command hit another item than    *)
(* the one meant while that one is active, for any ids and prefixes.        *)
THEOREM CommandsHitTheirItem == Spec => []OnlyTheItemMeant
<1>1. Aim /\ Tables /\ [Next]_vars => (Aim /\ Tables)'
  BY AimPreserved, TablesPreserved
<1>2. Tables => OnlyTheItemMeant
  BY DEF Tables
<1> QED
  BY <1>1, <1>2, InitAim, InitTables, PTL DEF Spec

(* Theorem.  wardrobe_items and wardrobe_items_vec drift apart only by a    *)
(* fault inside /add_item or by an edit of the id.                          *)
THEOREM EmbeddingsAgree == Spec => []EmbeddingsMatchItems
<1>1. Aim /\ Tables /\ [Next]_vars => (Aim /\ Tables)'
  BY AimPreserved, TablesPreserved
<1>2. Tables => EmbeddingsMatchItems
  BY DEF Tables
<1> QED
  BY <1>1, <1>2, InitAim, InitTables, PTL DEF Spec

(* Theorem.  The profile is made of completed writes, whole bootstrap files *)
(* among them, however the bot and the script take turns and crash.         *)
THEOREM ProfileIsSound == Spec => []ProfileIsWhatWasWritten
<1>1. Aim /\ Tables /\ [Next]_vars => (Aim /\ Tables)'
  BY AimPreserved, TablesPreserved
<1>2. Tables => ProfileIsWhatWasWritten
  BY DEF Tables
<1> QED
  BY <1>1, <1>2, InitAim, InitTables, PTL DEF Spec

----------------------------------------------------------------------------
(* What faults cost: counting attempts against faults.                      *)

LEMMA FiniteAttempts == \A S \in SUBSET Attempts : IsFiniteSet(S) /\ Cardinality(S) \in Nat
<1>1. 1 \in Int /\ MaxIssued \in Int
  BY BoundsAssumption
<1>2. IsFiniteSet(Attempts)
  BY <1>1, FS_Interval DEF Attempts
<1> QED
  BY <1>2, FS_Subset, FS_CardinalityType

LEMMA OneMore ==
    ASSUME NEW S \in SUBSET Attempts, NEW T \in SUBSET Attempts, NEW x, T \subseteq S \cup {x}
    PROVE  Cardinality(T) <= Cardinality(S) + 1
<1>1. IsFiniteSet(S) /\ Cardinality(S) \in Nat /\ Cardinality(T) \in Nat
  BY FiniteAttempts
<1>2. IsFiniteSet(S \cup {x}) /\ Cardinality(S \cup {x}) <= Cardinality(S) + 1
  <2>1. IsFiniteSet(S \cup {x})
    BY <1>1, FS_AddElement
  <2>2. Cardinality(S \cup {x}) = IF x \in S THEN Cardinality(S) ELSE Cardinality(S) + 1
    BY <1>1, FS_AddElement
  <2>3. Cardinality(S \cup {x}) = Cardinality(S) \/ Cardinality(S \cup {x}) = Cardinality(S) + 1
    BY <2>2
  <2> QED
    BY <1>1, <2>1, <2>3
<1>3. Cardinality(T) <= Cardinality(S \cup {x}) /\ Cardinality(S \cup {x}) \in Nat
  BY <1>2, FS_Subset, FS_CardinalityType
<1> QED
  BY <1>1, <1>2, <1>3

LEMMA NoMore ==
    ASSUME NEW S \in SUBSET Attempts, NEW T \in SUBSET Attempts, T \subseteq S
    PROVE  Cardinality(T) <= Cardinality(S)
BY FiniteAttempts, FS_Subset

Missed == {a \in changed \ audit : pc[a] = "lost"}

MissedCounted == Cardinality(Missed) <= faults

\* A handler that ends without an answer has changed nothing, or logged it.
LEMMA HandleLoses ==
    ASSUME Base, NEW a \in Attempts, Progress(a), Handle(a), pc'[a] = "lost"
    PROVE  a \notin changed' \/ a \in audit'
<1>1. Defer(a) \/ Send(a) \/ UpdateFails(a) \/ set_many(a)
  BY DEF Handle, reject_unauthorized, Read, Ingest, IngestFails, AddRow, SetEmbedding, RefuseItem,
         Resolve, Update, SoftDelete, Validate, WriteAudit, To, Base, TypeOK
<1>2. CASE Defer(a) \/ UpdateFails(a)
  BY <1>2 DEF Defer, Admitted, UpdateFails, db, Progress, Silent
<1>3. CASE Send(a)
  BY <1>3 DEF Send, db, Progress
<1>4. CASE set_many(a)
  BY <1>4 DEF set_many, To, Base, TypeOK, Progress, Silent
<1> QED
  BY <1>1, <1>2, <1>3, <1>4

LEMMA MissedPreserved ==
    Base /\ Control /\ Advance /\ MissedCounted /\ [Next]_vars => MissedCounted'
<1> SUFFICES ASSUME Base, Control, Advance, MissedCounted, [Next]_vars PROVE MissedCounted'
  OBVIOUS
<1>1. Base'
  BY BasePreserved
<1>2. Missed \in SUBSET Attempts /\ Missed' \in SUBSET Attempts
  BY <1>1 DEF Missed, Base, TypeOK
<1>3. faults \in Nat /\ faults' \in Nat /\ Cardinality(Missed) \in Nat /\ Cardinality(Missed') \in Nat
  BY <1>1, <1>2, FiniteAttempts DEF Base, TypeOK
<1>4. CASE Missed' \subseteq Missed /\ faults <= faults'
  <2>1. Cardinality(Missed') <= Cardinality(Missed)
    BY <1>2, <1>4, NoMore
  <2> QED
    BY <1>3, <1>4, <2>1 DEF MissedCounted
<1>5. CASE faults' = faults + 1 /\ \E b : Missed' \subseteq Missed \cup {b}
  <2>1. Cardinality(Missed') <= Cardinality(Missed) + 1
    BY <1>2, <1>5, OneMore
  <2> QED
    BY <1>3, <1>5, <2>1 DEF MissedCounted
<1>6. ASSUME NEW a \in Attempts, NEW t \in Tasks, Issue(a, t) PROVE MissedCounted'
  <2>1. Missed' \subseteq Missed /\ faults' = faults
    BY <1>6 DEF Issue, Missed, db, Base, TypeOK
  <2> QED
    BY <1>3, <1>4, <2>1
<1>7. ASSUME NEW a \in Attempts, Handle(a) PROVE MissedCounted'
  <2>1. Alone(a) /\ pc[a] # "idle" /\ faults' = faults
    BY <1>7, HandleAlone, HandleMoves DEF Base
  <2>2. a \notin Missed'
    BY <1>7, <2>1, HandleLoses DEF Advance, Missed
  <2>3. Missed' \subseteq Missed
    BY <1>2, <2>1, <2>2 DEF Missed, Alone
  <2> QED
    BY <1>3, <1>4, <2>1, <2>3
<1>8. ASSUME NEW a \in Attempts, Expire(a) PROVE MissedCounted'
  <2>1. Missed' \subseteq Missed /\ faults' = faults + 1
    BY <1>8 DEF Expire, Fault, Missed, db
  <2> QED
    BY <1>3, <1>4, <2>1
<1>9. ASSUME NEW a \in Attempts, CallRaises(a) PROVE MissedCounted'
  <2>1. Missed' \subseteq Missed \cup {a} /\ faults' = faults + 1
    BY <1>9 DEF CallRaises, Fault, Missed, db, To, Base, TypeOK
  <2> QED
    BY <1>5, <2>1
<1>10. CASE Crash
  <2>1. faults' = faults + 1 /\ changed' = changed /\ audit' = audit
    BY <1>10 DEF Crash, Fault, db
  <2>2. ASSUME NEW b \in Missed', b \notin Missed
        PROVE  b \in Attempts /\ InBot(b) /\ pc[b] \in Running
    <3>1. b \in Attempts /\ b \in changed \ audit /\ pc'[b] = "lost" /\ pc[b] # "lost"
      BY <1>2, <2>1, <2>2 DEF Missed
    <3>2. pc[b] \in (Running \cup Waiting) /\ InBot(b)
      BY <1>10, <3>1 DEF Crash
    <3>3. pc[b] \notin Waiting
      BY <3>1, <3>2 DEF Advance, Progress, Waiting, Silent
    <3> QED
      BY <3>1, <3>2, <3>3
  <2>3. \A b, c \in Missed' \ Missed : b = c
    BY <2>2 DEF Base, InLoop
  <2>4. \E b : Missed' \subseteq Missed \cup {b}
    BY <2>3
  <2> QED
    BY <1>5, <2>1, <2>4
<1>11. CASE UNCHANGED vars
  BY <1>11 DEF vars, MissedCounted, Missed
<1> QED
  BY <1>6, <1>7, <1>8, <1>9, <1>10, <1>11 DEF Next

LEMMA InitMissed == Init => MissedCounted
<1> SUFFICES ASSUME Init PROVE MissedCounted
  OBVIOUS
<1>1. Missed = {} /\ faults = 0
  BY DEF Init, Missed
<1> QED
  BY <1>1, FS_EmptySet DEF MissedCounted

(* Theorem.  The audit log never claims a change that was not made, and the *)
(* changes it misses for good are no more than the faults there were: one   *)
(* crash costs one row at most, as one handler at a time is between the two *)
(* transactions.                                                            *)
THEOREM AuditIsComplete == Spec => []AuditFollowsChange
<1>1. Base /\ Control /\ Advance /\ MissedCounted => AuditFollowsChange
  <2> SUFFICES ASSUME Base, Control, Advance, MissedCounted PROVE AuditFollowsChange
    OBVIOUS
  <2>1. \A a \in audit : a \in changed \/ Turned(a)
    BY DEF Base, TypeOK, Control, Advance, Progress
  <2>2. ASSUME NEW a \in changed \ audit PROVE pc[a] \in {"added", "written", "lost"}
    <3>1. a \in Attempts /\ pc[a] # "idle" /\ pc[a] \in Stages
      BY <2>2 DEF Base, TypeOK, Control
    <3>2. Progress(a)
      BY <3>1 DEF Advance
    <3> QED
      BY <2>2, <3>1, <3>2 DEF Progress, Silent, Stages, Running, Waiting, Answered
  <2> QED
    BY <2>1, <2>2 DEF AuditFollowsChange, MissedCounted, Missed, Turned
<1>2. Base /\ Control /\ Advance /\ MissedCounted /\ [Next]_vars
         => (Base /\ Control /\ Advance /\ MissedCounted)'
  BY BasePreserved, ProgressPreserved, MissedPreserved
<1>3. Init => Base /\ Control /\ Advance /\ MissedCounted
  BY InitTyped, InitProgress, InitMissed
<1> QED
  BY <1>1, <1>2, <1>3, PTL DEF Spec

\* A picture is tried again only when every try before was given up; one that still
\* waits for the loop then will not get past its defer.
GivenUp(a) == pc[a] \in {"lost", "no"} \/ a \in dead
IsAdd(t)   == Wish[t].kind = "add"
Spoiled(t) == {b \in changed : task[b] = t /\ pc[b] = "lost"}

OneTry ==
    \A a, b \in Attempts : a # b /\ task[a] = task[b] /\ task[a] \in Tasks => GivenUp(a) \/ GivenUp(b)
DeadSilent ==
    \A a \in dead : IsAdd(task[a]) => a \notin changed /\ pc[a] \in {"queued", "refusing", "lost"}
SpoiledCounted == \A t \in Tasks : IsAdd(t) => Cardinality(Spoiled(t)) <= faults

Tries == Base /\ Control /\ Advance /\ OneTry /\ DeadSilent /\ SpoiledCounted

\* A step that starts no attempt keeps the tries apart if what is given up stays so.
LEMMA StaysGivenUp ==
    ASSUME OneTry, task' = task,
           \A b \in Attempts : GivenUp(b) => GivenUp(b)'
    PROVE  OneTry'
BY DEF OneTry

LEMMA SpoiledSteps ==
    ASSUME Tries, TypeOK',
           \/ faults' >= faults /\ \A t \in Tasks : IsAdd(t) => Spoiled(t)' \subseteq Spoiled(t)
           \/ /\ faults' = faults + 1
              /\ \A t \in Tasks : IsAdd(t) => \E b : Spoiled(t)' \subseteq Spoiled(t) \cup {b}
    PROVE  SpoiledCounted'
<1> SUFFICES ASSUME NEW t \in Tasks, IsAdd(t) PROVE Cardinality(Spoiled(t)') <= faults'
  BY DEF SpoiledCounted, IsAdd
<1>1. Spoiled(t) \in SUBSET Attempts /\ Spoiled(t)' \in SUBSET Attempts
  BY DEF Tries, Base, TypeOK, Spoiled
<1>2. Cardinality(Spoiled(t)) \in Nat /\ Cardinality(Spoiled(t)') \in Nat
  BY <1>1, FiniteAttempts
<1>3. faults \in Nat /\ faults' \in Nat /\ Cardinality(Spoiled(t)) <= faults
  BY DEF Tries, Base, TypeOK, SpoiledCounted
<1>4. CASE faults' >= faults /\ Spoiled(t)' \subseteq Spoiled(t)
  <2>1. Cardinality(Spoiled(t)') <= Cardinality(Spoiled(t))
    BY <1>1, <1>4, NoMore
  <2> QED
    BY <1>2, <1>3, <1>4, <2>1
<1>5. CASE faults' = faults + 1 /\ \E b : Spoiled(t)' \subseteq Spoiled(t) \cup {b}
  <2>1. Cardinality(Spoiled(t)') <= Cardinality(Spoiled(t)) + 1
    BY <1>1, <1>5, OneMore
  <2> QED
    BY <1>2, <1>3, <1>5, <2>1
<1> QED
  BY <1>4, <1>5

LEMMA TriesHandle ==
    ASSUME Tries, NEW a \in Attempts, Handle(a)
    PROVE  OneTry' /\ DeadSilent' /\ SpoiledCounted'
<1> USE DEF Tries
<1>1. Alone(a) /\ pc[a] # "idle" /\ Progress(a) /\ faults' = faults /\ TypeOK'
  BY HandleAlone, HandleMoves, HandleTyped DEF Base, Advance
<1>2. pc[a] \notin {"lost", "no"}
  BY DEF Handle, reject_unauthorized, Defer, Send, Read, Ingest, IngestFails, AddRow, SetEmbedding,
         RefuseItem, UpdateFails, Validate, Resolve, Update, SoftDelete, set_many, WriteAudit, Admitted
<1>3. OneTry'
  BY <1>1, <1>2, StaysGivenUp DEF GivenUp, Alone
<1>4. ASSUME a \in dead, IsAdd(task[a]) PROVE a \notin changed' /\ pc'[a] \in {"refusing", "lost"}
  <2>1. a \notin changed /\ pc[a] \in {"queued", "refusing"} /\ Want(a).kind = "add"
    BY <1>2, <1>4 DEF DeadSilent, IsAdd, Want
  <2>2. reject_unauthorized(a) \/ Defer(a) \/ Send(a)
    BY <2>1 DEF Handle, Read, Ingest, IngestFails, AddRow, SetEmbedding, RefuseItem, UpdateFails,
           Validate, ProfileTask, Resolve, Update, SoftDelete, set_many, WriteAudit
  <2>3. CASE reject_unauthorized(a)
    BY <2>1, <2>3 DEF reject_unauthorized, To, Base, TypeOK
  <2>4. CASE Defer(a) \/ Send(a)
    BY <1>4, <2>1, <2>4 DEF Defer, Send, To, db, Base, TypeOK
  <2> QED
    BY <2>2, <2>3, <2>4
<1>5. DeadSilent'
  BY <1>1, <1>4 DEF DeadSilent, Alone, Base, TypeOK, IsAdd
<1>6. ASSUME NEW t \in Tasks, IsAdd(t) PROVE Spoiled(t)' \subseteq Spoiled(t)
  <2>1. ~(pc'[a] = "lost" /\ a \in changed' /\ task[a] = t)
    <3> SUFFICES ASSUME pc'[a] = "lost", task[a] = t PROVE a \notin changed'
      OBVIOUS
    <3>1. Want(a).kind = "add"
      BY <1>6 DEF IsAdd, Want
    <3>2. Defer(a) \/ Send(a)
      BY <1>1, <3>1 DEF Handle, reject_unauthorized, Read, Ingest, IngestFails, AddRow, SetEmbedding,
             RefuseItem, Resolve, Update, UpdateFails, SoftDelete, Validate, set_many, ProfileTask,
             WriteAudit, To, Base, TypeOK
    <3>3. changed' = changed
      BY <3>2 DEF Defer, Send, db
    <3>4. CASE Defer(a)
      BY <1>1, <3>3, <3>4 DEF Defer, Admitted, Progress, Silent
    <3>5. CASE Send(a)
      <4>1. a \in dead
        BY <1>1, <3>5 DEF Send, To, Base, TypeOK
      <4> QED
        BY <1>4, <1>6, <4>1
    <3> QED
      BY <3>2, <3>4, <3>5
  <2> QED
    BY <1>1, <2>1 DEF Spoiled, Alone, Base, TypeOK
<1>7. SpoiledCounted'
  <2>1. faults' >= faults
    BY <1>1 DEF Base, TypeOK
  <2> QED
    BY <1>1, <1>6, <2>1, SpoiledSteps
<1> QED
  BY <1>3, <1>5, <1>7

LEMMA TriesPreserved == Tries /\ [Next]_vars => Tries'
<1> SUFFICES ASSUME Tries, [Next]_vars PROVE OneTry' /\ DeadSilent' /\ SpoiledCounted'
  BY BasePreserved, ProgressPreserved DEF Tries
<1> USE DEF Tries
<1>1. TypeOK /\ TypeOK' /\ changed \subseteq Attempts /\ faults \in Nat
  BY BasePreserved DEF Base, TypeOK
<1>2. ASSUME NEW a \in Attempts, NEW t \in Tasks, Issue(a, t)
      PROVE  OneTry' /\ DeadSilent' /\ SpoiledCounted'
  <2>1. /\ pc[a] = "idle" /\ pc'[a] = "queued" /\ task'[a] = t /\ a \notin changed
        /\ \A b \in Attempts \ {a} : pc'[b] = pc[b] /\ task'[b] = task[b]
        /\ \A b \in Attempts : task[b] = t => GivenUp(b)
        /\ changed' = changed /\ dead' = dead /\ faults' = faults
    BY <1>2 DEF Issue, Base, TypeOK, Control, GivenUp, db
  <2>2. OneTry'
    <3>1. \A b \in Attempts \ {a} : GivenUp(b)' <=> GivenUp(b)
      BY <2>1 DEF GivenUp
    <3> SUFFICES ASSUME NEW b \in Attempts, NEW c \in Attempts, b # c,
                        task'[b] = task'[c], task'[b] \in Tasks
                 PROVE  GivenUp(b)' \/ GivenUp(c)'
      BY DEF OneTry
    <3>2. CASE b # a /\ c # a
      BY <2>1, <3>1, <3>2 DEF OneTry
    <3>3. CASE b = a
      BY <2>1, <3>1, <3>3
    <3>4. CASE c = a
      BY <2>1, <3>1, <3>4
    <3> QED
      BY <3>2, <3>3, <3>4
  <2>3. DeadSilent'
    BY <1>1, <2>1 DEF DeadSilent, IsAdd, TypeOK
  <2>4. \A u \in Tasks : Spoiled(u)' \subseteq Spoiled(u)
    BY <1>1, <2>1 DEF Spoiled
  <2>5. faults' >= faults
    BY <1>1, <2>1
  <2> QED
    BY <1>1, <2>2, <2>3, <2>4, <2>5, SpoiledSteps
<1>3. ASSUME NEW a \in Attempts, Handle(a) PROVE OneTry' /\ DeadSilent' /\ SpoiledCounted'
  BY <1>3, TriesHandle
<1>4. ASSUME NEW a \in Attempts, Expire(a) PROVE OneTry' /\ DeadSilent' /\ SpoiledCounted'
  <2>1. /\ UNCHANGED <<db, task, pc, target>> /\ pc[a] = "queued"
        /\ dead' = dead \cup {a} /\ faults' = faults + 1
    BY <1>4 DEF Expire, Fault
  <2>2. a \notin changed
    BY <2>1 DEF Advance, Progress, Silent
  <2>3. OneTry'
    BY <2>1, StaysGivenUp DEF GivenUp
  <2>4. DeadSilent'
    BY <2>1, <2>2 DEF DeadSilent, IsAdd, db
  <2>5. faults' >= faults /\ \A t \in Tasks : Spoiled(t)' \subseteq Spoiled(t)
    BY <1>1, <2>1 DEF Spoiled, db
  <2> QED
    BY <1>1, <2>3, <2>4, <2>5, SpoiledSteps
<1>5. ASSUME NEW a \in Attempts, CallRaises(a) PROVE OneTry' /\ DeadSilent' /\ SpoiledCounted'
  <2>1. /\ UNCHANGED <<db, task, target, dead>> /\ faults' = faults + 1
        /\ pc'[a] = "lost" /\ \A b \in Attempts \ {a} : pc'[b] = pc[b]
    BY <1>1, <1>5 DEF CallRaises, Fault, To, TypeOK
  <2>2. OneTry'
    BY <2>1, StaysGivenUp DEF GivenUp
  <2>3. DeadSilent'
    BY <1>1, <2>1 DEF DeadSilent, IsAdd, db, TypeOK
  <2>4. \A t \in Tasks : Spoiled(t)' \subseteq Spoiled(t) \cup {a}
    BY <1>1, <2>1 DEF Spoiled, db
  <2> QED
    BY <1>1, <2>1, <2>2, <2>3, <2>4, SpoiledSteps
<1>6. CASE Crash
  <2>1. /\ UNCHANGED <<db, task, target, dead>> /\ faults' = faults + 1
        /\ \A b \in Attempts : \/ pc'[b] = pc[b]
                               \/ pc'[b] = "lost" /\ pc[b] \in (Running \cup Waiting)
    BY <1>6 DEF Crash, Fault
  <2>2. OneTry'
    BY <2>1, StaysGivenUp DEF GivenUp
  <2>3. DeadSilent'
    BY <1>1, <2>1 DEF DeadSilent, IsAdd, db, TypeOK
  <2>4. ASSUME NEW t \in Tasks, IsAdd(t) PROVE \E b : Spoiled(t)' \subseteq Spoiled(t) \cup {b}
    <3>1. ASSUME NEW b \in Spoiled(t)' \ Spoiled(t)
          PROVE  b \in Attempts /\ task[b] = t /\ ~GivenUp(b)
      <4>1. b \in changed /\ b \in Attempts /\ task[b] = t /\ pc[b] # "lost"
        BY <1>1, <2>1, <3>1 DEF Spoiled, db
      <4>2. pc[b] \in (Running \cup Waiting)
        BY <2>1, <3>1, <4>1 DEF Spoiled, db
      <4>3. b \notin dead
        BY <2>4, <4>1 DEF DeadSilent
      <4> QED
        BY <4>1, <4>2, <4>3 DEF GivenUp, Running, Waiting
    <3>2. \A b, c \in Spoiled(t)' \ Spoiled(t) : b = c
      BY <3>1 DEF OneTry
    <3> QED
      BY <3>2
  <2> QED
    BY <1>1, <2>1, <2>2, <2>3, <2>4, SpoiledSteps
<1>7. CASE UNCHANGED vars
  <2>1. OneTry' /\ DeadSilent'
    BY <1>7 DEF vars, OneTry, DeadSilent, GivenUp
  <2>2. faults' >= faults /\ \A t \in Tasks : Spoiled(t)' \subseteq Spoiled(t)
    BY <1>1, <1>7 DEF vars, Spoiled
  <2> QED
    BY <1>1, <2>1, <2>2, SpoiledSteps
<1> QED
  BY <1>2, <1>3, <1>4, <1>5, <1>6, <1>7 DEF Next

LEMMA InitTries == Init => Tries
<1> SUFFICES ASSUME Init PROVE OneTry /\ DeadSilent /\ SpoiledCounted
  BY InitTyped, InitProgress DEF Tries
<1>1. \A t \in Tasks : Spoiled(t) = {}
  BY DEF Init, Spoiled
<1>2. SpoiledCounted
  BY <1>1, FS_EmptySet DEF Init, SpoiledCounted
<1>3. OneTry /\ DeadSilent
  BY TasksAssumption DEF Init, OneTry, DeadSilent
<1> QED
  BY <1>2, <1>3

(* Theorem.  However often the operator repeats /add_item, a picture is in  *)
(* the wardrobe once, and once more at most per fault: a second row takes a *)
(* first handler that committed its row and could not say so.               *)
THEOREM AddedOnceUnlessFaults == Spec => []AddedOnce
<1>1. Tries => AddedOnce
  <2> SUFFICES ASSUME Tries, NEW a \in changed, Want(a).kind = "add"
               PROVE  Cardinality({b \in changed : task[b] = task[a]}) <= 1 + faults
    BY DEF AddedOnce
  <2> DEFINE S == {b \in changed : task[b] = task[a]}
             t == task[a]
  <2> USE DEF Tries
  <2>1. changed \subseteq Attempts /\ faults \in Nat
    BY DEF Base, TypeOK
  <2>2. \A b \in changed : pc[b] # "idle" /\ pc[b] # "no"
    BY <2>1 DEF Control, Advance, Progress
  <2>3. t \in Tasks /\ IsAdd(t)
    BY <2>1, <2>2 DEF Base, Tasked, IsAdd, Want
  <2>4. \A b \in S \ Spoiled(t) : b \in Attempts /\ task[b] = t /\ ~GivenUp(b)
    BY <2>1, <2>2, <2>3 DEF Spoiled, GivenUp, DeadSilent
  <2>5. \A b, c \in S \ Spoiled(t) : b = c
    BY <2>3, <2>4 DEF OneTry
  <2>6. \E b : S \subseteq Spoiled(t) \cup {b}
    BY <2>5
  <2>7. S \in SUBSET Attempts /\ Spoiled(t) \in SUBSET Attempts
    BY <2>1 DEF Spoiled
  <2>8. Cardinality(S) <= Cardinality(Spoiled(t)) + 1
    BY <2>6, <2>7, OneMore
  <2>9. Cardinality(Spoiled(t)) <= faults
    BY <2>3 DEF SpoiledCounted
  <2>10. Cardinality(S) \in Nat /\ Cardinality(Spoiled(t)) \in Nat
    BY <2>7, FiniteAttempts
  <2> QED
    BY <2>1, <2>8, <2>9, <2>10
<1> QED
  BY <1>1, InitTries, TriesPreserved, PTL DEF Spec

----------------------------------------------------------------------------
(* The commands as their users see them: each step of a handler performs,   *)
(* logs, answers or loses one command of CommandsContract, or is invisible. *)

Stage == [b \in Attempts |-> StageOf(b)]

\* What the two modules call a command that may be carried out.
LEMMA AllowedIffNotTurned ==
    ASSUME NEW a \in Attempts
    PROVE  Contract!Allowed(task[a]) <=> ~Turned(a)
BY DEF Contract!Allowed, Turned, InBot, is_whitelisted, Want

LEMMA UsersSeeInit == Init => Contract!Init
BY DEF Init, Contract!Init, StageOf, Answered

\* The users see a handler move its own command only.
LEMMA OthersStand ==
    ASSUME Base, NEW a \in Attempts, Handle(a)
    PROVE  /\ Stage' = [Stage EXCEPT ![a] = StageOf(a)']
           /\ task' = task
<1>1. Alone(a)
  BY HandleAlone DEF Base
<1>2. \A b \in Attempts \ {a} : StageOf(b)' = StageOf(b)
  BY <1>1 DEF Alone, StageOf
<1> QED
  BY <1>1, <1>2 DEF Stage, Alone

LEMMA UsersSeeNothing ==
    ASSUME Base, NEW a \in Attempts, Handle(a), StageOf(a)' = StageOf(a),
           UNCHANGED <<rows, profile, audit>>
    PROVE  UNCHANGED Contract!vars
BY OthersStand DEF Contract!vars, Stage

LEMMA UsersSeeLoss ==
    ASSUME Base, NEW a \in Attempts, Handle(a),
           StageOf(a) \in {"open", "done"}, StageOf(a)' = "lost",
           UNCHANGED <<rows, profile, audit>>
    PROVE  Contract!Lose({a})
BY OthersStand DEF Contract!Lose, Stage

LEMMA UsersSeeEffect ==
    ASSUME Base, NEW a \in Attempts, Handle(a),
           StageOf(a) = "open", StageOf(a)' = "done", Contract!Effect(task[a]),
           audit' = audit
    PROVE  Contract!Perform(a)
BY OthersStand DEF Contract!Perform, Stage

LEMMA UsersSeeLog ==
    ASSUME Base, NEW a \in Attempts, Handle(a), Progress(a),
           reject_unauthorized(a) \/ WriteAudit(a)
    PROVE  Contract!Log(a)
<1>1. /\ StageOf(a)' = StageOf(a) /\ a \notin audit /\ audit' = audit \cup {a}
      /\ UNCHANGED <<rows, profile, task>>
      /\ StageOf(a) = "done" \/ (StageOf(a) = "open" /\ Turned(a))
  <2>1. CASE reject_unauthorized(a)
    BY <2>1 DEF reject_unauthorized, StageOf, Answered, Progress, Silent, Turned, To, Base, TypeOK
  <2>2. CASE WriteAudit(a)
    BY <2>2 DEF WriteAudit, StageOf, Answered, Progress, Silent, To, Base, TypeOK
  <2> QED
    BY <2>1, <2>2
<1>2. Stage' = Stage
  BY <1>1, OthersStand DEF Stage
<1> QED
  BY <1>1, <1>2, AllowedIffNotTurned DEF Contract!Log, Stage

LEMMA UsersSeeAnswer ==
    ASSUME Base, NEW a \in Attempts, Progress(a), Send(a)
    PROVE  Contract!Answer(a) \/ Contract!Lose({a})
<1>1. Handle(a) /\ Want(a).kind \in Kinds /\ UNCHANGED <<rows, profile, audit, changed, task>>
  BY KindFacts DEF Handle, Send, db, To
<1>2. CASE a \in dead
  <2>1. StageOf(a) \in {"open", "done"} /\ StageOf(a)' = "lost"
    BY <1>2 DEF Send, To, StageOf, Answered, Base, TypeOK
  <2> QED
    BY <1>1, <2>1, UsersSeeLoss
<1>3. CASE a \notin dead /\ pc[a] = "replying"
  <2>1. StageOf(a)' = "yes"
    BY <1>3 DEF Send, To, StageOf, Answered, Base, TypeOK
  <2>2. Contract!Succeeded(a)
    <3>1. CASE Writes(a)
      BY <1>3, <3>1 DEF Progress, Contract!Succeeded, StageOf, Answered
    <3>2. CASE ~Writes(a)
      <4>1. /\ Want(a).kind = "list" \/ Blank(a)
            /\ a \notin changed /\ ~Turned(a) /\ Want(a).quality # "bad"
        BY <1>1, <1>3, <3>2 DEF Progress, Writes, Kinds
      <4>2. Blank(a) => Contract!Blank(task[a])
        BY DEF Blank, Contract!Blank, Want
      <4> QED
        BY <1>3, <4>1, <4>2, AllowedIffNotTurned DEF Contract!Succeeded, StageOf, Answered, Want
    <3> QED
      BY <3>1, <3>2
  <2> QED
    BY <1>1, <2>1, <2>2, OthersStand DEF Contract!Answer, Stage
<1>4. CASE a \notin dead /\ pc[a] = "refusing"
  <2>1. StageOf(a)' = "no"
    BY <1>4 DEF Send, To, StageOf, Answered, Base, TypeOK
  <2>2. Contract!Refused(a)
    BY <1>4, AllowedIffNotTurned DEF Progress, Contract!Refused, StageOf, Answered
  <2> QED
    BY <1>1, <2>1, <2>2, OthersStand DEF Contract!Answer, Stage
<1> QED
  BY <1>2, <1>3, <1>4 DEF Send

\* The handlers that neither change nor log nor answer.
LEMMA UsersSeeWaiting ==
    ASSUME Base, NEW a \in Attempts, Progress(a),
           \/ Defer(a) \/ Read(a) \/ Ingest(a) \/ IngestFails(a) \/ SetEmbedding(a)
           \/ RefuseItem(a) \/ Resolve(a) \/ UpdateFails(a) \/ Validate(a)
    PROVE  Contract!Lose({a}) \/ UNCHANGED Contract!vars
<1>1. Handle(a) /\ UNCHANGED <<rows, profile, audit>>
  BY DEF Handle, Defer, Read, Ingest, IngestFails, SetEmbedding, RefuseItem, Resolve,
         UpdateFails, Validate, db
<1>2. /\ StageOf(a) \in {"open", "done"}
      /\ StageOf(a)' = "lost" \/ StageOf(a)' = StageOf(a)
  BY DEF Defer, Read, Ingest, IngestFails, SetEmbedding, RefuseItem, Resolve, UpdateFails,
         Validate, Admitted, db, To, StageOf, Answered, Base, TypeOK
<1> QED
  BY <1>1, <1>2, UsersSeeLoss, UsersSeeNothing

\* The only match is still the only one when the row is written.
LEMMA StillFits ==
    ASSUME NEW a \in Attempts, OnlyMatch(a)
    PROVE  target[a] \in Ids /\ Contract!Fits(task[a], target[a])
BY DEF OnlyMatch, resolve_short_id, Active, Contract!Fits, Want

LEMMA UpdateHasEffect ==
    ASSUME Aim, NEW a \in Attempts, Update(a)
    PROVE  Contract!Edit(task[a])
<1>1. /\ pc[a] # "idle" /\ Progress(a) /\ OnlyMatch(a) /\ Want(a).kind = "edit"
      /\ profile' = profile
  BY DEF Update, Aim, Advance, Chosen
<1>2. target[a] \in Ids /\ Contract!Fits(task[a], target[a])
  BY <1>1, StillFits
<1>3. Want(a).quality = "good" /\ Want(a).field \in {"text", "id", "deleted_at"}
  <2>1. Want(a).quality \in Quality /\ Want(a).field \in {"none", "text", "id", "deleted_at"}
    BY <1>1, KindFacts DEF Aim, WishType
  <2>2. Want(a).quality # "bad" /\ Want(a).field # "none"
    BY <1>1 DEF Update, Progress
  <2> QED
    BY <2>1, <2>2 DEF Update, UpdateRaises, Quality
<1>4. CASE Want(a).field = "id"
  BY <1>1, <1>2, <1>3, <1>4
     DEF Update, UpdateRaises, Contract!Edit, Contract!Rename, Want
<1>5. CASE Want(a).field = "deleted_at"
  BY <1>1, <1>2, <1>3, <1>5 DEF Update, Contract!Edit, Contract!Hide, Want
<1>6. CASE Want(a).field = "text"
  BY <1>1, <1>2, <1>3, <1>6 DEF Update, Contract!Edit, Want
<1> QED
  BY <1>3, <1>4, <1>5, <1>6

LEMMA UsersSeeChange ==
    ASSUME Aim, NEW a \in Attempts, AddRow(a) \/ Update(a) \/ SoftDelete(a) \/ set_many(a)
    PROVE  Contract!Perform(a) \/ Contract!Lose({a})
<1>1. Handle(a) /\ audit' = audit
  BY DEF Handle, AddRow, Update, SoftDelete, set_many
<1>2. pc[a] # "idle" /\ Progress(a) /\ Base
  BY <1>1, HandleMoves DEF Aim, Advance
<1>3. StageOf(a) = "open"
  BY <1>2 DEF AddRow, Update, SoftDelete, set_many, Progress, Silent, StageOf, Answered
<1>4. CASE set_many(a) /\ Want(a).quality = "oversize"
  <2>1. StageOf(a)' = "lost" /\ UNCHANGED <<rows, profile>>
    BY <1>2, <1>4 DEF set_many, To, StageOf, Base, TypeOK
  <2> QED
    BY <1>1, <1>2, <1>3, <2>1, UsersSeeLoss
<1>5. CASE ~(set_many(a) /\ Want(a).quality = "oversize")
  <2>1. StageOf(a)' = "done"
    BY <1>2, <1>5 DEF AddRow, Update, SoftDelete, set_many, To, StageOf, Answered, Base, TypeOK
  <2>2. Contract!Allowed(task[a])
    <3>1. ~Turned(a)
      BY <1>2 DEF AddRow, Update, SoftDelete, set_many, Progress, Running
    <3> QED
      BY <3>1, AllowedIffNotTurned
  <2>3. CASE AddRow(a)
    <3>1. Contract!Add(task[a])
      BY <1>2, <2>3 DEF AddRow, Fresh, Progress, Contract!Add, Want
    <3> QED
      BY <1>1, <1>2, <1>3, <2>1, <2>2, <3>1, UsersSeeEffect DEF Contract!Effect
  <2>4. CASE Update(a)
    BY <1>1, <1>2, <1>3, <2>1, <2>2, <2>4, UpdateHasEffect, UsersSeeEffect DEF Contract!Effect
  <2>5. CASE SoftDelete(a)
    <3>1. OnlyMatch(a) /\ Want(a).kind = "forget"
      BY <2>5 DEF SoftDelete, Aim, Chosen
    <3>2. Contract!Forget(task[a])
      BY <2>5, <3>1, StillFits DEF SoftDelete, Contract!Forget, Contract!Hide, Want
    <3> QED
      BY <1>1, <1>2, <1>3, <2>1, <2>2, <3>2, UsersSeeEffect DEF Contract!Effect
  <2>6. CASE set_many(a)
    <3>1. Want(a).quality = "good"
      <4>1. Want(a).quality \in Quality
        BY <1>2, KindFacts DEF WishType
      <4> QED
        BY <1>2, <1>5, <2>6, <4>1 DEF set_many, ProfileTask, Progress, Quality
    <3>2. Contract!SetProfile(task[a])
      BY <1>5, <2>6, <3>1 DEF set_many, ProfileTask, Applied, Contract!SetProfile, Want
    <3> QED
      BY <1>1, <1>2, <1>3, <2>1, <2>2, <3>2, UsersSeeEffect DEF Contract!Effect
  <2> QED
    BY <2>3, <2>4, <2>5, <2>6
<1> QED
  BY <1>4, <1>5

LEMMA UsersSeeIssue ==
    ASSUME Base, Control, NEW a \in Attempts, NEW t \in Tasks, Issue(a, t)
    PROVE  Contract!Issue(a, t)
<1>1. /\ StageOf(a) = "idle" /\ StageOf(a)' = "open"
      /\ \A b \in Attempts \ {a} : StageOf(b)' = StageOf(b)
  BY DEF Issue, db, StageOf, Answered, Control, Base, TypeOK
<1>2. Stage' = [Stage EXCEPT ![a] = "open"]
  BY <1>1 DEF Stage
<1> QED
  BY <1>1, <1>2 DEF Issue, db, Contract!Issue, Stage

\* What an error or a crash cuts off.
LEMMA UsersSeeFaults ==
    ASSUME Base, NEW S \in SUBSET Attempts,
           \A b \in S : pc[b] \in (Running \cup Waiting),
           pc' = [b \in Attempts |-> IF b \in S THEN "lost" ELSE pc[b]],
           UNCHANGED <<db, task>>
    PROVE  Contract!Lose(S)
<1>1. \A b \in S : StageOf(b) \in {"open", "done"} /\ StageOf(b)' = "lost"
  BY DEF StageOf, Answered, Running, Waiting
<1>2. \A b \in Attempts \ S : StageOf(b)' = StageOf(b)
  BY DEF StageOf, db
<1> QED
  BY <1>1, <1>2 DEF Contract!Lose, db

LEMMA UsersSeeStep == Aim /\ [Next]_vars => [Contract!Next]_(Contract!vars)
<1> SUFFICES ASSUME Aim, [Next]_vars PROVE Contract!Next \/ UNCHANGED Contract!vars
  OBVIOUS
<1> USE DEF Aim
<1>1. ASSUME NEW a \in Attempts, NEW t \in Tasks, Issue(a, t) PROVE Contract!Next
  BY <1>1, UsersSeeIssue DEF Contract!Next
<1>2. ASSUME NEW a \in Attempts, Handle(a) PROVE Contract!Next \/ UNCHANGED Contract!vars
  <2>1. Progress(a)
    BY <1>2, HandleMoves DEF Advance
  <2>2. CASE reject_unauthorized(a) \/ WriteAudit(a)
    BY <1>2, <2>1, <2>2, UsersSeeLog DEF Contract!Next
  <2>3. CASE Send(a)
    BY <2>1, <2>3, UsersSeeAnswer DEF Contract!Next
  <2>4. CASE AddRow(a) \/ Update(a) \/ SoftDelete(a) \/ set_many(a)
    BY <2>4, UsersSeeChange DEF Contract!Next
  <2>5. CASE \/ Defer(a) \/ Read(a) \/ Ingest(a) \/ IngestFails(a) \/ SetEmbedding(a)
             \/ RefuseItem(a) \/ Resolve(a) \/ UpdateFails(a) \/ Validate(a)
    BY <2>1, <2>5, UsersSeeWaiting DEF Contract!Next
  <2> QED
    BY <1>2, <2>2, <2>3, <2>4, <2>5 DEF Handle
<1>3. ASSUME NEW a \in Attempts, Expire(a) PROVE UNCHANGED Contract!vars
  <2>1. UNCHANGED <<db, task, pc>>
    BY <1>3 DEF Expire
  <2> QED
    BY <2>1 DEF db, Contract!vars, StageOf
<1>4. ASSUME NEW a \in Attempts, CallRaises(a) PROVE Contract!Next
  <2>1. /\ pc[a] \in (Running \cup Waiting) /\ UNCHANGED <<db, task>>
        /\ pc' = [b \in Attempts |-> IF b \in {a} THEN "lost" ELSE pc[b]]
    BY <1>4 DEF CallRaises, To, Base, TypeOK
  <2>2. PICK S \in SUBSET Attempts : S = {a}
    OBVIOUS
  <2>3. Contract!Lose(S)
    BY <2>1, <2>2, UsersSeeFaults
  <2> QED
    BY <2>3 DEF Contract!Next
<1>5. CASE Crash
  <2> DEFINE S == {b \in Attempts : pc[b] \in (Running \cup Waiting) /\ InBot(b)}
  <2>1. /\ \A b \in S : pc[b] \in (Running \cup Waiting)
        /\ pc' = [b \in Attempts |-> IF b \in S THEN "lost" ELSE pc[b]]
        /\ UNCHANGED <<db, task>> /\ S \in SUBSET Attempts
    BY <1>5 DEF Crash
  <2> QED
    BY <2>1, UsersSeeFaults DEF Contract!Next
<1>6. CASE UNCHANGED vars
  BY <1>6 DEF vars, Contract!vars, StageOf
<1> QED
  BY <1>1, <1>2, <1>3, <1>4, <1>5, <1>6 DEF Next

(* Theorem.  For any wishes, ids and names, and whatever fails: to its users *)
(* each command of items.py and profile.py, and the bootstrap script, takes  *)
(* effect at one instant or not at all, and is logged and answered by what   *)
(* it did.                                                                   *)
THEOREM CommandsImplementContract == Spec => ImplementsContract
<1>1. Spec => Contract!Init /\ [][Contract!Next]_(Contract!vars)
  BY UsersSeeInit, UsersSeeStep, InitAim, AimPreserved, PTL DEF Spec
<1> QED
  BY <1>1 DEF ImplementsContract, Contract!Spec
----------------------------------------------------------------------------
(* How long a command takes. *)

(* The steps each attempt still takes, its being issued included, at most. *)
(* /add_item takes all of them, the others join it on the way.             *)
Left == [a \in Attempts |->
    [idle |-> 7, queued |-> 6, deferred |-> 5, ingested |-> 4, added |-> 3, resolved |-> 3,
     written |-> 2, replying |-> 1, refusing |-> 1, yes |-> 0, no |-> 0, lost |-> 0][pc[a]]]

HandlersWindDown ==
    /\ [](Left \in [Attempts -> 0 .. 7])
    /\ [][\A a \in Attempts :
             /\ Handle(a) => Left'[a] < Left[a]
             /\ Left'[a] <= Left[a]]_vars

LEMMA LeftIsBounded == TypeOK => Left \in [Attempts -> 0 .. 7]
BY DEF TypeOK, Left, Stages, Running, Waiting, Answered

LEMMA HandleShortens ==
    ASSUME TypeOK, NEW a \in Attempts, Handle(a)
    PROVE  Left'[a] < Left[a]
<1> USE DEF TypeOK, Left, To
<1>1. CASE reject_unauthorized(a)
  BY <1>1 DEF reject_unauthorized
<1>2. CASE Defer(a)
  BY <1>2 DEF Defer, Admitted
<1>3. CASE Send(a)
  BY <1>3 DEF Send
<1>4. CASE Read(a) \/ Ingest(a) \/ IngestFails(a)
  BY <1>4 DEF Read, Ingest, IngestFails
<1>5. CASE AddRow(a) \/ SetEmbedding(a)
  BY <1>5 DEF AddRow, SetEmbedding
<1>6. CASE RefuseItem(a) \/ Resolve(a) \/ Validate(a)
  BY <1>6 DEF RefuseItem, Resolve, Validate, Admitted
<1>7. CASE Update(a) \/ UpdateFails(a) \/ SoftDelete(a)
  BY <1>7 DEF Update, UpdateFails, SoftDelete
<1>8. CASE set_many(a)
  BY <1>8 DEF set_many
<1>9. CASE WriteAudit(a)
  BY <1>9 DEF WriteAudit
<1> QED
  BY <1>1, <1>2, <1>3, <1>4, <1>5, <1>6, <1>7, <1>8, <1>9 DEF Handle

(* Neither the steps of other commands nor anything that goes wrong puts a *)
(* command back.                                                           *)
LEMMA NothingLengthens ==
    ASSUME TypeOK, TypeOK', [Next]_vars, NEW a \in Attempts
    PROVE  Left'[a] <= Left[a]
<1> USE DEF TypeOK
<1>1. Left[a] \in 0 .. 7 /\ Left'[a] \in 0 .. 7 /\ (pc'[a] = pc[a] => Left'[a] = Left[a])
  BY DEF Left, Stages, Running, Waiting, Answered
<1>2. ASSUME NEW b \in Attempts, NEW t \in Tasks, Issue(b, t) PROVE Left'[a] <= Left[a]
  BY <1>1, <1>2 DEF Issue, Left
<1>3. ASSUME NEW b \in Attempts, Handle(b) PROVE Left'[a] <= Left[a]
  <2>1. CASE a = b
    BY <1>1, <1>3, <2>1, HandleShortens
  <2>2. CASE a # b
    <3>1. pc'[a] = pc[a]
      BY <1>3, <2>2, HandleAlone DEF Alone
    <3> QED
      BY <1>1, <3>1
  <2> QED
    BY <2>1, <2>2
<1>4. ASSUME NEW b \in Attempts, Expire(b) PROVE Left'[a] <= Left[a]
  BY <1>1, <1>4 DEF Expire
<1>5. ASSUME NEW b \in Attempts, CallRaises(b) PROVE Left'[a] <= Left[a]
  <2>1. pc'[a] = pc[a] \/ pc'[a] = "lost"
    BY <1>5 DEF CallRaises, To
  <2> QED
    BY <1>1, <2>1 DEF Left
<1>6. CASE Crash
  <2>1. pc'[a] = pc[a] \/ pc'[a] = "lost"
    BY <1>6 DEF Crash
  <2> QED
    BY <1>1, <2>1 DEF Left
<1>7. CASE UNCHANGED vars
  BY <1>1, <1>7 DEF vars
<1> QED
  BY <1>2, <1>3, <1>4, <1>5, <1>6, <1>7 DEF Next

(* Theorem.  A command takes at most seven steps, among them that it is     *)
(* issued: each step of its handler in items.py, wardrobe.py or profile.py *)
(* brings it closer to its end, and no other command, crash, error or      *)
(* expiry sends it back to be handled once more.                           *)
THEOREM HandlersAreFinite == Spec => HandlersWindDown
<1>1. TypeOK /\ TypeOK' /\ [Next]_vars =>
         [\A a \in Attempts :
             /\ Handle(a) => Left'[a] < Left[a]
             /\ Left'[a] <= Left[a]]_vars
  BY HandleShortens, NothingLengthens
<1> QED
  BY <1>1, TypeCorrect, LeftIsBounded, PTL DEF Spec, HandlersWindDown
=============================================================================
