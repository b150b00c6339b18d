------------------------ MODULE OperationReconcileProofs ------------------------
(***************************************************************************)
(* Proofs about OperationReconcile: when both parties may write an input,  *)
(* what the store and the results say, for any number of Operations,       *)
(* items, mishaps and cancellations.                                       *)
(*                                                                         *)
(* Before the acceptor has written, the claim is its own and no turn is    *)
(* anywhere, unless the worker has taken the claim over (missed).          *)
(* Afterwards a coordinator writes only where neither its replica nor the  *)
(* acceptor's nor Streams has the acceptor's turn, unless it has caught up *)
(* before that was pushed (missed).  What an item is said to be is true of *)
(* the replicas, or an ended process has lost it, in the list that was     *)
(* read, in the list that is worked on and in the store; a list that is    *)
(* stored late keeps what had ended (Told).                                *)
(***************************************************************************)
EXTENDS OperationReconcile, TLAPS

Rs == {"main", "stray"}

\* The input is somewhere, or a process has taken the only copy of a part with it.
Written(o, i) == InputDurable(Everywhere(o, i)) \/ <<o, i>> \in lost

\* What an item may be said to be.
ItemTrue(o, i, x) ==
  /\ x \in {"durable", "succeeded", "cancelled"} => Written(o, i)
  /\ x \in {"succeeded", "cancelled"} => x \in Everywhere(o, i) \/ <<o, i>> \in lost
  /\ x = "timeout" => o \in late

\* What the acceptor's stage says of the turns, the claim, its replica and the list.
Accepting(o, i) ==
  /\ acceptor[o][i] = "write" =>
       \/ <<o, i>> \in missed
       \/ Everywhere(o, i) \cap Authors = {} /\ db[o].claim[i] = Acceptor
  /\ acceptor[o][i] = "pointer" => "acceptor" \in there[o][i]
  /\ acceptor[o][i] = "mark" => InputDurable(there[o][i])
  /\ acceptor[o][i] = "rejected" => db[o].items[i] = "failed" /\ read[o][i] = "failed"

\* InputWrittenOnce of one item
OneWriter(o, i) == Authors \subseteq Everywhere(o, i) => <<o, i>> \in missed

\* The stored list and the list that was read; an item that had ended when it was
\* read stays as it was.
Listed(o, i) ==
  /\ ItemTrue(o, i, db[o].items[i]) /\ ItemTrue(o, i, read[o][i])
  /\ Active(o) /\ read[o][i] \notin OpenItem => db[o].items[i] = read[o][i]

\* What an item's task has found out.
InTask(r, i) ==
  LET o == Op(r)
      at == task[r].at[i]
  IN o # NoOperation =>
       /\ ItemTrue(o, i, task[r].out[i])
       /\ at \in {"sync", "write", "pointer", "markClaimed"} =>
            acceptor[o][i] # "write" \/ <<o, i>> \in missed
       /\ at = "write" /\ ~HasTurn(here[o][i]) =>
            "acceptor" \notin Everywhere(o, i) \/ <<o, i>> \in missed
       /\ at = "pointer" => HasTurn(here[o][i])
       /\ at \in {"mark", "markClaimed"} => InputDurable(here[o][i])
       /\ at = "history" => Written(o, i)

\* The list that is worked on is the list that was read, but for items that were
\* open; at the end it is the stored one.
Told(i) ==
  LET o == Op("main")
      at == task["main"].at[i]
      out == task["main"].out[i]
  IN o # NoOperation =>
       /\ at = "check" => out = read[o][i]
       /\ at \in {"sync", "write", "pointer", "mark", "markClaimed", "history"} =>
            read[o][i] \in OpenItem
       /\ read[o][i] \notin OpenItem => out = read[o][i]
       /\ at = "finish" =>
            /\ out \notin OpenItem
            /\ Active(o) => db[o].items[i] = out
            /\ \A j \in Items : task["main"].at[j] = "finish"

Sound(o, i) == Accepting(o, i) /\ OneWriter(o, i) /\ Listed(o, i)

\* ResultIsTrue of one Operation
ResultTrue(o) ==
  /\ db[o].kind \in {"result", "cancelled"} => db[o].told = db[o].items
  /\ db[o].kind = "result" => \A i \in Items :
       /\ db[o].told[i] \notin OpenItem
       /\ db[o].told[i] \in {"succeeded", "cancelled"} =>
            db[o].told[i] \in Everywhere(o, i) \/ <<o, i>> \in lost
       /\ db[o].told[i] = "timeout" => o \in late

Numbered ==
  /\ 2 <= token /\ token <= 2 + mishaps
  /\ \A o \in Operations : Active(o) => db[o].kind = "none"

IInv ==
  /\ TypeOK /\ Numbered
  /\ \A o \in Operations, i \in Items : Sound(o, i)
  /\ \A r \in Rs, i \in Items : InTask(r, i)
  /\ \A i \in Items : Told(i) /\ (Op("stray") # NoOperation => task["stray"].at[i] # "finish")
  /\ \A o \in Operations : ResultTrue(o)

-----------------------------------------------------------------------------
(* What a step changes                                                     *)

WriterStages == {"write", "pointer", "mark", "rejected", "done"}

\* Of f, the step to g changes that of item i of Operation o alone.
Only(f, g, o, i) == \A p \in Operations, j \in Items : p # o \/ j # i => g[p][j] = f[p][j]

\* Of the rows, the step changes that of o alone.
Others(o) == \A p \in Operations \ {o} : db'[p] = db[p]

\* An item and its claim are as they were.
SameItem(o, i) ==
  db'[o].items[i] = db[o].items[i] /\ db'[o].claim[i] = db[o].claim[i]

\* No turn of an item's input is new.
NoTurn(o, i) == Everywhere(o, i)' \cap Authors \subseteq Everywhere(o, i)

\* An item, its claim and what the acceptor has of it are as they were.
SamePair(o, i) ==
  /\ there'[o][i] = there[o][i] /\ NoTurn(o, i)
  /\ acceptor'[o][i] = acceptor[o][i] /\ read'[o][i] = read[o][i]
  /\ SameItem(o, i) /\ (Active(o)' => Active(o))

\* An input is marked durable, or nothing but its claim changes.
Marked(o, i) ==
  /\ Others(o) /\ \A j \in Items \ {i} : SameItem(o, j)
  /\ db'[o].state = db[o].state /\ db'[o].kind = db[o].kind /\ db'[o].told = db[o].told
  /\ \/ db'[o].items = db[o].items
     \/ Active(o) /\ db[o].items[i] = "open" /\ db'[o].items[i] = "durable"

\* An Operation that is active is finished, the others are as they were.
FinishedAs(o, kind, items) ==
  /\ Others(o) /\ db'[o].items = db[o].items
  /\ \A i \in Items : SameItem(o, i)
  /\ \/ ~Active(o) /\ db'[o] = db[o]
     \/ /\ Active(o) /\ db'[o].state = "finished"
        /\ db'[o].kind = kind /\ db'[o].told = items

SameTask(r, i) ==
  /\ task'[r].op = task[r].op
  /\ task'[r].at[i] = task[r].at[i] /\ task'[r].out[i] = task[r].out[i]

\* Of the tasks, the step moves item i of task r alone, to stage s with x to say.
Moves(r, i, s, x) ==
  /\ task' \in [Rs -> TaskRecords]
  /\ task'[r].op = task[r].op /\ task'[r].at[i] = s /\ task'[r].out[i] = x
  /\ \A q \in Rs, j \in Items : q # r \/ j # i => SameTask(q, j)

\* The tasks go on as they are or are dropped.
TasksKept ==
  \A r \in Rs : task'[r].op = NoOperation \/ \A i \in Items : SameTask(r, i)

\* What happened to an input stays so.
Grown(o, i) ==
  /\ Everywhere(o, i) \subseteq Everywhere(o, i)' \/ <<o, i>> \in lost'
  /\ <<o, i>> \in missed => <<o, i>> \in missed'
  /\ <<o, i>> \in lost => <<o, i>> \in lost'
  /\ o \in late => o \in late'
  /\ acceptor[o][i] # "write" =>
       /\ acceptor'[o][i] # "write"
       /\ "acceptor" \notin Everywhere(o, i) => "acceptor" \notin Everywhere(o, i)'

\* The worker's replica loses nothing.
HereKept == \A o \in Operations, i \in Items : here[o][i] \subseteq here'[o][i]

\* The worker is the same, and at most one mishap happens.
Counted == token' = token /\ (mishaps' = mishaps \/ Mishap)

\* What the proofs use of the constants.
LEMMA Numbers ==
  /\ MaxMishaps \in Nat /\ MaxCancels \in Nat
  /\ NoOperation \notin Operations
  /\ Ends \subseteq {"succeeded", "failed", "cancelled"}
  /\ Rs = {"main", "stray"}
BY ReconcileAssumption DEF Rs

\* An input that has grown is still durable.
LEMMA DurableGrows ==
  ASSUME NEW a, NEW b, a \subseteq b
  PROVE  /\ HasTurn(a) => HasTurn(b)
         /\ InputDurable(a) => InputDurable(b)
BY DEF HasTurn, InputDurable

\* What an item was said to be stays true.
LEMMA TrueStays ==
  ASSUME NEW o, NEW i, NEW x, ItemTrue(o, i, x), Grown(o, i)
  PROVE  /\ ItemTrue(o, i, x)'
         /\ Written(o, i) => Written(o, i)'
<1>1. Everywhere(o, i) \subseteq Everywhere(o, i)' =>
        (InputDurable(Everywhere(o, i)) => InputDurable(Everywhere(o, i)'))
  BY DurableGrows
<1>2. Written(o, i) => Written(o, i)'
  BY <1>1 DEF Written, Grown, InputDurable, HasTurn
<1>3. x \in {"succeeded", "cancelled"} => x \in Everywhere(o, i)' \/ <<o, i>> \in lost'
  BY DEF ItemTrue, Grown
<1> QED
  BY <1>2, <1>3 DEF ItemTrue, Grown

\* A coordinator that stays the same stays numbered.
LEMMA NumberedKeeps ==
  ASSUME IInv, Counted,
         \A p \in Operations : Active(p)' => Active(p) /\ db'[p].kind = db[p].kind
  PROVE  Numbered'
<1>1. Numbered /\ mishaps \in Nat /\ token \in Int
  BY Numbers DEF IInv, TypeOK, Tokens
<1> QED
  BY <1>1 DEF Numbered, Counted, Mishap

\* A mishap is counted.
LEMMA MishapType ==
  ASSUME TypeOK, mishaps' = mishaps \/ Mishap
  PROVE  mishaps' \in 0..MaxMishaps
BY Numbers DEF TypeOK, Mishap

\* AcceptorGoes moves one item.
LEMMA UpdatedStage ==
  ASSUME TypeOK, NEW o \in Operations, NEW i \in Items, NEW s \in WriterStages,
         AcceptorGoes(o, i, s)
  PROVE  /\ acceptor' \in [Operations -> [Items -> WriterStages]]
         /\ acceptor'[o][i] = s /\ Only(acceptor, acceptor', o, i)
<1>1. acceptor \in [Operations -> [Items -> WriterStages]]
  BY DEF TypeOK, WriterStages
<1>2. /\ acceptor[o] \in [Items -> WriterStages]
      /\ [acceptor[o] EXCEPT ![i] = s] \in [Items -> WriterStages]
  BY <1>1
<1> QED
  BY <1>1, <1>2 DEF Only, AcceptorGoes

\* The task of nothing is a task.
LEMMA IdleTask == Idle \in TaskRecords /\ Idle.op = NoOperation
BY DEF Idle, TaskRecords, Stages, Lists, ItemStates, OpenItem

\* Goes moves an item and leaves what is said of it.
LEMMA GoesTo ==
  ASSUME TypeOK, NEW r \in Rs, NEW i \in Items, NEW s \in Stages, Goes(r, i, s)
  PROVE  Moves(r, i, s, task[r].out[i])
BY DEF TypeOK, TaskRecords, Lists, Goes, Moves, SameTask, Rs

\* A task that is replaced at one item, stage and result, moves that item alone.
LEMMA Moved ==
  ASSUME TypeOK, NEW r \in Rs, NEW i \in Items, NEW s \in Stages, NEW x \in ItemStates,
         task' = [task EXCEPT ![r].at[i] = s, ![r].out[i] = x]
  PROVE  Moves(r, i, s, x)
<1> DEFINE t == [task[r] EXCEPT !.at[i] = s, !.out[i] = x]
<1>1. task \in [Rs -> TaskRecords]
  BY DEF TypeOK, Rs
<1>2. /\ t \in TaskRecords /\ t.op = task[r].op /\ t.at[i] = s /\ t.out[i] = x
      /\ \A j \in Items \ {i} : t.at[j] = task[r].at[j] /\ t.out[j] = task[r].out[j]
  BY <1>1 DEF TaskRecords, Lists, Stages
<1>3. task' = [task EXCEPT ![r] = t]
  BY <1>1
<1> HIDE DEF t
<1> QED
  BY <1>1, <1>2, <1>3 DEF Moves, SameTask

\* Returns moves an item to its end.
LEMMA ReturnsWith ==
  ASSUME TypeOK, NEW r \in Rs, NEW i \in Items, NEW x \in ItemStates, Returns(r, i, x)
  PROVE  Moves(r, i, "done", x)
BY Moved DEF Returns, Stages

\* dropInactiveResources aborts tasks and does nothing else to them.
LEMMA AbortedTasks ==
  ASSUME TypeOK, NEW active \in SUBSET Operations, DropInactive(active, task)
  PROVE  /\ task' \in [Rs -> TaskRecords] /\ TasksKept
         /\ deadlineTimer' \subseteq Operations /\ retryTimer' \subseteq Operations \X Items
<1>1. /\ DOMAIN task = Rs /\ task \in [Rs -> TaskRecords]
      /\ deadlineTimer \subseteq Operations /\ retryTimer \subseteq Operations \X Items
  BY DEF TypeOK, Rs
<1>2. task' = [r \in Rs |->
         [task[r] EXCEPT !.aborted = @ \/ (task[r].op # NoOperation /\ task[r].op \notin active)]]
  BY <1>1 DEF DropInactive
<1>3. \A r \in Rs : \E b \in BOOLEAN : task'[r] = [task[r] EXCEPT !.aborted = b]
  <2> SUFFICES ASSUME NEW r \in Rs
               PROVE  \E b \in BOOLEAN : task'[r] = [task[r] EXCEPT !.aborted = b]
    OBVIOUS
  <2> DEFINE c == task[r].aborted \/ (task[r].op # NoOperation /\ task[r].op \notin active)
  <2>1. c \in BOOLEAN
    BY Zenon
  <2>2. task'[r] = [task[r] EXCEPT !.aborted = c]
    BY <1>2
  <2> QED
    BY <2>1, <2>2
<1>4. \A r \in Rs : /\ task'[r] \in TaskRecords /\ task'[r].op = task[r].op
                       /\ task'[r].at = task[r].at /\ task'[r].out = task[r].out
  <2> SUFFICES ASSUME NEW r \in Rs
               PROVE  /\ task'[r] \in TaskRecords /\ task'[r].op = task[r].op
                      /\ task'[r].at = task[r].at /\ task'[r].out = task[r].out
    OBVIOUS
  <2>1. PICK b \in BOOLEAN : task'[r] = [task[r] EXCEPT !.aborted = b]
    BY <1>3
  <2>2. task[r] \in TaskRecords
    BY <1>1
  <2> QED
    BY <2>1, <2>2 DEF TaskRecords
<1>5. task' \in [Rs -> TaskRecords] /\ TasksKept
  BY <1>1, <1>2, <1>4 DEF TasksKept, SameTask
<1> QED
  BY <1>1, <1>5 DEF DropInactive

\* A row is written, the others are as they were.
LEMMA Writes ==
  ASSUME TypeOK, NEW o \in Operations, NEW row \in Rows, Write(o, row)
  PROVE  db' \in [Operations -> Rows] /\ db'[o] = row /\ Others(o) /\ notified' \in BOOLEAN
<1>1. notified' \in BOOLEAN
  BY Zenon DEF TypeOK, Write
<1> QED
  BY <1>1 DEF TypeOK, Write, Others

\* What Finished makes of a row.
LEMMA FinishedRow ==
  ASSUME TypeOK, NEW o \in Operations, NEW kind \in {"result", "error", "cancelled"},
         NEW items \in Lists
  PROVE  LET row == Finished(o, kind, items) IN
         /\ row \in Rows
         /\ row.items = db[o].items /\ row.claim = db[o].claim /\ row.lapsed = db[o].lapsed
         /\ Active(o) => row.state = "finished" /\ row.kind = kind /\ row.told = items
         /\ ~Active(o) => row = db[o]
BY DEF TypeOK, Rows, Finished, Active

\* What Durable makes of a row: the item is marked, or nothing of it but the claim changes.
LEMMA DurableRow ==
  ASSUME TypeOK, NEW o \in Operations, NEW i \in Items, NEW by
  PROVE  LET row == Durable(o, i, by) IN
         /\ row \in Rows
         /\ row.state = db[o].state /\ row.kind = db[o].kind /\ row.told = db[o].told
         /\ \A j \in Items : j # i => /\ row.items[j] = db[o].items[j]
                                     /\ row.claim[j] = db[o].claim[j]
                                     /\ row.lapsed[j] = db[o].lapsed[j]
         /\ \/ row.items = db[o].items
            \/ Active(o) /\ db[o].items[i] = "open" /\ row.items[i] = "durable"
<1>1. CASE ~(db[o].items[i] = "open" /\ (by # 0 => db[o].claim[i] = by))
  <2>1. Durable(o, i, by) = db[o]
    BY <1>1 DEF Durable
  <2> QED
    BY <2>1 DEF TypeOK
<1>2. CASE db[o].items[i] = "open" /\ (by # 0 => db[o].claim[i] = by)
  <2>1. PICK x : x = IF Active(o) THEN "durable" ELSE db[o].items[i]
    OBVIOUS
  <2>2. Durable(o, i, by) = [db[o] EXCEPT !.items[i] = x, !.claim[i] = 0, !.lapsed[i] = FALSE]
    BY <1>2, <2>1 DEF Durable
  <2>3. db[o] \in Rows /\ x \in ItemStates /\ 0 \in Tokens
    BY <1>2, <2>1, Numbers DEF TypeOK, ItemStates, OpenItem, Tokens
  <2>4. LET row == [db[o] EXCEPT !.items[i] = x, !.claim[i] = 0, !.lapsed[i] = FALSE] IN
        /\ row \in Rows
        /\ row.state = db[o].state /\ row.kind = db[o].kind /\ row.told = db[o].told
        /\ \A j \in Items : j # i => /\ row.items[j] = db[o].items[j]
                                    /\ row.claim[j] = db[o].claim[j]
                                    /\ row.lapsed[j] = db[o].lapsed[j]
        /\ row.items[i] = x
        /\ x = db[o].items[i] => row.items = db[o].items
    BY <2>3 DEF Rows, Lists
  <2> QED
    BY <1>2, <2>1, <2>2, <2>4
<1> QED
  BY <1>1, <1>2

\* markItemDurable marks one item.
LEMMA Marks ==
  ASSUME TypeOK, NEW o \in Operations, NEW i \in Items, NEW by, Write(o, Durable(o, i, by))
  PROVE  db' \in [Operations -> Rows] /\ notified' \in BOOLEAN /\ Marked(o, i)
<1>1. PICK row : row = Durable(o, i, by)
  OBVIOUS
<1>2. /\ db' \in [Operations -> Rows] /\ db'[o] = row /\ Others(o)
      /\ notified' \in BOOLEAN
  BY <1>1, DurableRow, Writes
<1> QED
  BY <1>1, <1>2, DurableRow DEF Marked, SameItem

\* finish ends an Operation that is active.
LEMMA Finishes ==
  ASSUME TypeOK, NEW o \in Operations, NEW kind \in {"result", "error", "cancelled"},
         NEW items \in Lists, Write(o, Finished(o, kind, items))
  PROVE  db' \in [Operations -> Rows] /\ notified' \in BOOLEAN /\ FinishedAs(o, kind, items)
<1>1. PICK row : row = Finished(o, kind, items)
  OBVIOUS
<1>2. /\ db' \in [Operations -> Rows] /\ db'[o] = row /\ Others(o)
      /\ notified' \in BOOLEAN
  BY <1>1, FinishedRow, Writes
<1> QED
  BY <1>1, <1>2, FinishedRow DEF FinishedAs, SameItem

\* The invariant of one item of one Operation.
LEMMA Cells ==
  ASSUME IInv, NEW o \in Operations, NEW i \in Items
  PROVE  /\ here[o][i] \in Inputs /\ there[o][i] \in Inputs
         /\ acceptor[o][i] \in WriterStages
         /\ db[o] \in Rows /\ db[o].items[i] \in ItemStates /\ read[o][i] \in ItemStates
         /\ Accepting(o, i) /\ OneWriter(o, i) /\ Listed(o, i)
BY DEF IInv, TypeOK, Sound, Rows, Lists, WriterStages

\* The invariant of one item of one task.
LEMMA TaskCells ==
  ASSUME IInv, NEW r \in Rs, NEW i \in Items
  PROVE  /\ Op(r) \in Operations \cup {NoOperation}
         /\ task[r].at[i] \in Stages /\ task[r].out[i] \in ItemStates
         /\ InTask(r, i)
BY DEF IInv, TypeOK, TaskRecords, Lists, Op, Rs

\* An acceptor that ends leaves its item sound.
LEMMA AcceptorDone ==
  ASSUME IInv, NEW o \in Operations, NEW i \in Items, acceptor'[o][i] = "done",
         NoTurn(o, i), read'[o][i] = read[o][i],
         SameItem(o, i), Active(o)' => Active(o), Grown(o, i)
  PROVE  Sound(o, i)'
<1>1. Accepting(o, i) /\ OneWriter(o, i) /\ Listed(o, i)
  BY Cells
<1>2. Accepting(o, i)' /\ OneWriter(o, i)'
  BY <1>1 DEF Accepting, OneWriter, NoTurn, Grown
<1>3. Listed(o, i)'
  <2>1. ItemTrue(o, i, db[o].items[i])' /\ ItemTrue(o, i, read[o][i])'
    <3>1. PICK x, y : x = db[o].items[i] /\ y = read[o][i]
      OBVIOUS
    <3>2. ItemTrue(o, i, x)' /\ ItemTrue(o, i, y)'
      BY <1>1, <3>1, TrueStays DEF Listed
    <3> QED
      BY <3>1, <3>2 DEF ItemTrue, SameItem
  <2> QED
    BY <1>1, <2>1 DEF Listed, SameItem
<1> QED
  BY <1>2, <1>3 DEF Sound

\* The list says what it said of an item, or that its input is durable.
LEMMA ListKeeps ==
  ASSUME IInv, NEW o \in Operations, NEW i \in Items, Grown(o, i), read'[o][i] = read[o][i],
         Active(o)' => Active(o),
         \/ db'[o].items[i] = db[o].items[i]
         \/ /\ Active(o) /\ db[o].items[i] = "open" /\ db'[o].items[i] = "durable"
            /\ Written(o, i)
  PROVE  Listed(o, i)'
<1>1. Listed(o, i)
  BY Cells
<1>2. PICK x, y : x = db'[o].items[i] /\ y = read[o][i]
  OBVIOUS
<1>3. ItemTrue(o, i, x) /\ ItemTrue(o, i, y)
  BY <1>1, <1>2 DEF Listed, ItemTrue
<1>4. ItemTrue(o, i, x)' /\ ItemTrue(o, i, y)'
  BY <1>3, TrueStays
<1> QED
  BY <1>1, <1>2, <1>4 DEF Listed, OpenItem

\* An item that is marked, or whose claim changes, is sound when the acceptor has
\* written, or is known to be late, and the input is in both parts.
LEMMA MarkedSound ==
  ASSUME IInv, NEW o \in Operations, NEW i \in Items, Marked(o, i),
         acceptor[o][i] # "write" \/ <<o, i>> \in missed',
         Written(o, i) \/ db'[o].items = db[o].items,
         acceptor'[o][i] \in {acceptor[o][i], "done"},
         there'[o][i] = there[o][i], NoTurn(o, i), read'[o][i] = read[o][i],
         Grown(o, i)
  PROVE  Sound(o, i)'
<1>1. Accepting(o, i) /\ OneWriter(o, i) /\ Listed(o, i)
  BY Cells
<1>2. Accepting(o, i)' /\ OneWriter(o, i)'
  BY <1>1 DEF Accepting, OneWriter, Marked, NoTurn, Grown
<1>3. Listed(o, i)'
  BY ListKeeps DEF Marked, Active
<1> QED
  BY <1>2, <1>3 DEF Sound

\* An item that is as it was is sound when nothing of it was undone.
LEMMA PairKeeps ==
  ASSUME IInv, NEW o \in Operations, NEW i \in Items, SamePair(o, i), Grown(o, i)
  PROVE  Sound(o, i)'
<1>1. Accepting(o, i) /\ OneWriter(o, i) /\ Listed(o, i)
  BY Cells
<1>2. Accepting(o, i)' /\ OneWriter(o, i)'
  BY <1>1 DEF Accepting, OneWriter, SamePair, SameItem, NoTurn, Grown
<1>3. Listed(o, i)'
  BY ListKeeps DEF SamePair, SameItem
<1> QED
  BY <1>2, <1>3 DEF Sound

\* What an item's task has found out stays true.
LEMMA TaskKeeps ==
  ASSUME IInv, NEW r \in Rs, NEW i \in Items, SameTask(r, i), HereKept,
         Op(r) # NoOperation => Grown(Op(r), i)
  PROVE  InTask(r, i)'
<1> SUFFICES ASSUME Op(r) # NoOperation
             PROVE  InTask(r, i)'
  BY DEF InTask, SameTask, Op
<1>1. PICK o, at, x : o = Op(r) /\ at = task[r].at[i] /\ x = task[r].out[i]
  OBVIOUS
<1>2. o \in Operations /\ InTask(r, i) /\ Grown(o, i)
  BY <1>1, TaskCells
<1>3. Op(r)' = o /\ task'[r].at[i] = at /\ task'[r].out[i] = x
  BY <1>1 DEF SameTask, Op
<1>4. ItemTrue(o, i, x)' /\ (Written(o, i) => Written(o, i)')
  BY <1>1, <1>2, TrueStays DEF InTask
<1>5. /\ HasTurn(here[o][i]) => HasTurn(here'[o][i])
      /\ InputDurable(here[o][i]) => InputDurable(here'[o][i])
  BY <1>2, DurableGrows DEF HereKept
<1>6. /\ at \in {"sync", "write", "pointer", "markClaimed"} =>
           acceptor'[o][i] # "write" \/ <<o, i>> \in missed'
      /\ at = "write" /\ ~HasTurn(here'[o][i]) =>
           "acceptor" \notin Everywhere(o, i)' \/ <<o, i>> \in missed'
  BY <1>1, <1>2, <1>5 DEF InTask, Grown
<1>7. /\ at = "pointer" => HasTurn(here'[o][i])
      /\ at \in {"mark", "markClaimed"} => InputDurable(here'[o][i])
      /\ at = "history" => Written(o, i)'
  BY <1>1, <1>2, <1>4, <1>5 DEF InTask
<1> QED
  BY <1>3, <1>4, <1>6, <1>7 DEF InTask, ItemTrue

\* A step that leaves the replicas undoes nothing and adds no turn.
LEMMA StillGrown ==
  ASSUME NEW o, NEW i,
         here'[o][i] = here[o][i], there'[o][i] = there[o][i], sent'[o][i] = sent[o][i],
         acceptor[o][i] # "write" => acceptor'[o][i] # "write",
         o \in late => o \in late', lost' = lost, missed \subseteq missed'
  PROVE  Grown(o, i) /\ NoTurn(o, i)
BY DEF Grown, NoTurn, Everywhere

\* What a step must show to keep the invariant.
LEMMA Keeps ==
  ASSUME IInv, TypeOK', Numbered',
         \A o \in Operations, i \in Items : Grown(o, i) /\ (SamePair(o, i) \/ Sound(o, i)'),
         HereKept \/ \A r \in Rs : task'[r].op = NoOperation,
         \A r \in Rs, i \in Items : task'[r].op = NoOperation \/ SameTask(r, i) \/ InTask(r, i)',
         \A i \in Items :
           \/ task'["main"].op = NoOperation
           \/ Told(i)'
           \/ /\ SameTask("main", i)
              /\ \A o \in Operations : read'[o] = read[o]
              /\ task["main"].at[i] = "finish" =>
                   /\ \A j \in Items : SameTask("main", j)
                   /\ \A o \in Operations :
                        Active(o)' =>
                          Active(o) /\ db[o].items[i] \in {"open", db'[o].items[i]},
         \A i \in Items :
           \/ task'["stray"].op = NoOperation
           \/ task'["stray"].at[i] # "finish"
           \/ SameTask("stray", i),
         \A o \in Operations :
           \/ ResultTrue(o)'
           \/ /\ db'[o].kind = db[o].kind /\ db'[o].told = db[o].told
              /\ Active(o) \/ db'[o].items = db[o].items
  PROVE  IInv'
<1>1. \A o \in Operations, i \in Items : Sound(o, i)'
  BY PairKeeps
<1>2. \A r \in Rs, i \in Items : InTask(r, i)'
  <2> SUFFICES ASSUME NEW r \in Rs, NEW i \in Items
               PROVE  InTask(r, i)'
    OBVIOUS
  <2>1. CASE task'[r].op = NoOperation
    BY <2>1 DEF InTask, Op
  <2>2. CASE SameTask(r, i) /\ task'[r].op # NoOperation
    BY <2>2, TaskKeeps, TaskCells
  <2> QED
    BY <2>1, <2>2
<1>3. ASSUME NEW i \in Items
      PROVE  Told(i)' /\ (Op("stray")' # NoOperation => task'["stray"].at[i] # "finish")
  <2>1. Op("main") \in Operations \cup {NoOperation} /\ Told(i)
    BY TaskCells DEF Rs, IInv
  <2>2. Told(i)'
    <3>1. CASE task'["main"].op = NoOperation
      BY <3>1 DEF Told, Op
    <3>2. CASE /\ SameTask("main", i)
               /\ \A o \in Operations : read'[o] = read[o]
               /\ task["main"].at[i] = "finish" =>
                    /\ \A j \in Items : SameTask("main", j)
                    /\ \A o \in Operations :
                         Active(o)' =>
                           Active(o) /\ db[o].items[i] \in {"open", db'[o].items[i]}
      BY <2>1, <3>2 DEF Told, Op, SameTask, OpenItem
    <3> QED
      BY <3>1, <3>2
  <2>3. Op("stray")' # NoOperation => task'["stray"].at[i] # "finish"
    BY DEF IInv, Op, SameTask
  <2> QED
    BY <2>2, <2>3
<1>4. ASSUME NEW o \in Operations
      PROVE  ResultTrue(o)'
  <2>1. CASE /\ db'[o].kind = db[o].kind /\ db'[o].told = db[o].told
             /\ Active(o) \/ db'[o].items = db[o].items
    <3>1. ResultTrue(o) /\ (Active(o) => db[o].kind = "none")
      BY DEF IInv, Numbered
    <3>2. \A i \in Items : Grown(o, i)
      OBVIOUS
    <3> QED
      BY <2>1, <3>1, <3>2 DEF ResultTrue, Grown
  <2> QED
    BY <2>1
<1> QED
  BY <1>1, <1>2, <1>3, <1>4 DEF IInv


\* A step that touches timers, deadlines and tasks that are dropped keeps it.
LEMMA WaitKeeps ==
  ASSUME IInv, TypeOK', TasksKept, late \subseteq late',
         UNCHANGED <<db, acceptor, here, there, sent, read, past>>, Counted
  PROVE  IInv'
<1>1. \A p \in Operations, j \in Items : Grown(p, j) /\ SamePair(p, j)
  BY StillGrown DEF SamePair, SameItem, Active, past
<1>2. Numbered'
  BY NumberedKeeps DEF Active
<1>3. \A r \in Rs, j \in Items : task'[r].op = NoOperation \/ SameTask(r, j)
  BY DEF TasksKept
<1>4. \A j \in Items :
        \/ task'["main"].op = NoOperation
        \/ /\ SameTask("main", j) /\ (\A k \in Items : SameTask("main", k))
           /\ \A o \in Operations :
                Active(o)' => Active(o) /\ db[o].items[j] \in {"open", db'[o].items[j]}
  BY DEF TasksKept, Rs, Active
<1>5. HereKept
  BY DEF HereKept
<1> QED
  BY <1>1, <1>2, <1>3, <1>4, <1>5, Keeps DEF Rs

\* A step apart from the coordinator, on replicas and marks, keeps it.
LEMMA ApartKeeps ==
  ASSUME IInv, TypeOK', UNCHANGED <<read, task>>, Counted, HereKept,
         \A p \in Operations, j \in Items : Grown(p, j),
         \A p \in Operations, j \in Items : SamePair(p, j) \/ Sound(p, j)',
         \A p \in Operations :
           \/ db'[p] = db[p]
           \/ /\ db'[p].state = db[p].state /\ db'[p].kind = db[p].kind /\ db'[p].told = db[p].told
              /\ Active(p) \/ db'[p].items = db[p].items
              /\ \A j \in Items : db[p].items[j] \in {"open", db'[p].items[j]}
  PROVE  IInv'
<1>1. \A p \in Operations :
        /\ db'[p].kind = db[p].kind /\ db'[p].told = db[p].told
        /\ Active(p) \/ db'[p].items = db[p].items
        /\ Active(p)' => Active(p)
        /\ \A j \in Items : db[p].items[j] \in {"open", db'[p].items[j]}
  BY DEF Active
<1>2. Numbered'
  BY <1>1, NumberedKeeps
<1>3. \A r \in Rs, j \in Items : SameTask(r, j)
  BY DEF SameTask
<1> QED
  BY <1>1, <1>2, <1>3, Keeps DEF Rs

-----------------------------------------------------------------------------
(* Replicas, targets and the acceptor                                      *)

\* A part enters one item of a replica.
Entered(f, g, o, i, part) == g = [f EXCEPT ![o][i] = @ \cup part]

\* Nothing else changes.
LEMMA Enters ==
  ASSUME NEW f \in [Operations -> [Items -> Inputs]], NEW o \in Operations, NEW i \in Items,
         NEW part \in Inputs, NEW g, Entered(f, g, o, i, part)
  PROVE  /\ g \in [Operations -> [Items -> Inputs]] /\ Only(f, g, o, i)
         /\ g[o][i] = f[o][i] \cup part
         /\ \A p \in Operations, j \in Items : f[p][j] \subseteq g[p][j]
<1>1. PICK x : x = f[o][i] \cup part
  OBVIOUS
<1>2. f[o][i] \in Inputs
  OBVIOUS
<1>3. x \in Inputs
  BY <1>1, <1>2 DEF Inputs
<1>4. g = [f EXCEPT ![o][i] = x]
  BY <1>1 DEF Entered
<1>5. PICK h : h = [f[o] EXCEPT ![i] = x]
  OBVIOUS
<1>6. f[o] \in [Items -> Inputs]
  OBVIOUS
<1>7. h \in [Items -> Inputs] /\ h[i] = x /\ \A j \in Items \ {i} : h[j] = f[o][j]
  BY <1>3, <1>5, <1>6
<1>8. g = [f EXCEPT ![o] = h]
  BY <1>4, <1>5
<1>9. g \in [Operations -> [Items -> Inputs]] /\ g[o][i] = x /\ Only(f, g, o, i)
  BY <1>7, <1>8 DEF Only
<1>10. \A p \in Operations, j \in Items : f[p][j] \subseteq g[p][j]
  BY <1>1, <1>9 DEF Only
<1> QED
  BY <1>1, <1>9, <1>10

\* A part that arrives was written before.
LEMMA ArriveKeeps ==
  ASSUME IInv, NEW o \in Operations, NEW i \in Items, Arrive(o, i)
  PROVE  IInv'
<1>1. PICK part \in Parts(there[o][i]) \cup Parts(sent[o][i]) :
        here' = [here EXCEPT ![o][i] = @ \cup part]
  BY DEF Arrive
<1>2. /\ here \in [Operations -> [Items -> Inputs]]
      /\ there[o][i] \in Inputs /\ sent[o][i] \in Inputs
  BY DEF IInv, TypeOK
<1>3. part \in Inputs /\ (part \subseteq there[o][i] \/ part \subseteq sent[o][i])
  BY <1>1, <1>2 DEF Parts, Document, Metadata, Inputs
<1>4. /\ here' \in [Operations -> [Items -> Inputs]] /\ Only(here, here', o, i)
      /\ here'[o][i] = here[o][i] \cup part
      /\ \A p \in Operations, j \in Items : here[p][j] \subseteq here'[p][j]
  <2>1. Entered(here, here', o, i, part)
    BY <1>1 DEF Entered
  <2> QED
    BY <1>2, <1>3, <2>1, Enters
<1>5. UNCHANGED <<db, acceptor, there, sent, read, task, late, past>> /\ Counted
  BY DEF Arrive, chain, bounds, past, Counted
<1>6. TypeOK'
  BY <1>4, <1>5 DEF IInv, TypeOK, Arrive, Wake, timers, chain, bounds
<1>7. \A p \in Operations, j \in Items : Everywhere(p, j)' = Everywhere(p, j)
  BY <1>3, <1>4, <1>5 DEF Everywhere, Only
<1>8. \A p \in Operations, j \in Items : Grown(p, j) /\ SamePair(p, j)
  BY <1>5, <1>7 DEF Grown, SamePair, SameItem, NoTurn, Active, past
<1>9. HereKept
  BY <1>4 DEF HereKept
<1> QED
  BY <1>5, <1>6, <1>8, <1>9, ApartKeeps

\* The end of a target's turn is no turn.
LEMMA RunEndsKeeps ==
  ASSUME IInv, NEW o \in Operations, NEW i \in Items, RunEnds(o, i)
  PROVE  IInv'
<1>1. PICK end \in Ends : here' = [here EXCEPT ![o][i] = @ \cup {end}]
  BY DEF RunEnds
<1>2. here \in [Operations -> [Items -> Inputs]] /\ {end} \in Inputs /\ end \notin Authors
  BY Numbers DEF IInv, TypeOK, Inputs, Authors
<1>3. /\ here' \in [Operations -> [Items -> Inputs]] /\ Only(here, here', o, i)
      /\ here'[o][i] = here[o][i] \cup {end}
      /\ \A p \in Operations, j \in Items : here[p][j] \subseteq here'[p][j]
  <2>1. Entered(here, here', o, i, {end})
    BY <1>1 DEF Entered
  <2> QED
    BY <1>2, <2>1, Enters
<1>4. UNCHANGED <<db, acceptor, there, sent, read, task, late, past>> /\ Counted
  BY DEF RunEnds, chain, bounds, past, Counted
<1>5. TypeOK'
  BY <1>3, <1>4 DEF IInv, TypeOK, RunEnds, Wake, timers, chain, bounds
<1>6. \A p \in Operations, j \in Items :
        Everywhere(p, j) \subseteq Everywhere(p, j)' /\ NoTurn(p, j)
  BY <1>2, <1>3, <1>4 DEF Everywhere, Only, NoTurn
<1>7. \A p \in Operations, j \in Items : Grown(p, j) /\ SamePair(p, j)
  BY <1>4, <1>6 DEF Grown, SamePair, SameItem, NoTurn, Authors, Active, past
<1>8. HereKept
  BY <1>3 DEF HereKept
<1> QED
  BY <1>4, <1>5, <1>7, <1>8, ApartKeeps

\* The acceptor writes its turn where no turn is, or where it is known to be late;
\* or it fails.
LEMMA AcceptorWritesKeeps ==
  ASSUME IInv, NEW o \in Operations, NEW i \in Items, AcceptorWrites(o, i)
  PROVE  IInv'
<1>1. /\ there' \in [Operations -> [Items -> Inputs]] /\ Only(there, there', o, i)
      /\ acceptor' \in [Operations -> [Items -> WriterStages]] /\ Only(acceptor, acceptor', o, i)
      /\ acceptor[o][i] = "write"
      /\ \/ there'[o][i] = there[o][i] \cup {"acceptor"} /\ acceptor'[o][i] = "pointer"
         \/ there'[o][i] = there[o][i] /\ acceptor'[o][i] = "done"
      /\ UNCHANGED <<db, here, sent, read, task, late, past>> /\ Counted
  <2>1. there \in [Operations -> [Items -> Inputs]] /\ {"acceptor"} \in Inputs /\ TypeOK
    BY DEF IInv, TypeOK, Inputs, Authors
  <2>2. \A s \in WriterStages : AcceptorGoes(o, i, s) =>
          /\ acceptor' \in [Operations -> [Items -> WriterStages]]
          /\ Only(acceptor, acceptor', o, i) /\ acceptor'[o][i] = s
    BY <2>1, UpdatedStage
  <2>3. /\ UNCHANGED <<db, here, sent, read, task, late, past>> /\ Counted
        /\ acceptor[o][i] = "write"
    BY DEF AcceptorWrites, chain, past, Counted
  <2>4. CASE there' = [there EXCEPT ![o][i] = @ \cup {"acceptor"}] /\ AcceptorGoes(o, i, "pointer")
    <3>1. Entered(there, there', o, i, {"acceptor"})
      BY <2>4 DEF Entered
    <3> QED
      BY <2>1, <2>2, <2>3, <2>4, <3>1, Enters DEF WriterStages
  <2>5. CASE there' = there /\ AcceptorGoes(o, i, "done")
    BY <2>1, <2>2, <2>3, <2>5 DEF WriterStages, Only
  <2> QED
    BY <2>4, <2>5 DEF AcceptorWrites
<1>2. mishaps' \in 0..MaxMishaps
  BY MishapType DEF IInv, AcceptorWrites
<1>3. TypeOK'
  BY <1>1, <1>2 DEF IInv, TypeOK, AcceptorWrites, timers, chain, past, WriterStages
<1>4. Everywhere(o, i)' \in {Everywhere(o, i), Everywhere(o, i) \cup {"acceptor"}}
  BY <1>1 DEF Everywhere
<1>5. \A p \in Operations, j \in Items : p # o \/ j # i =>
        Everywhere(p, j)' = Everywhere(p, j) /\ acceptor'[p][j] = acceptor[p][j]
  BY <1>1 DEF Everywhere, Only
<1>6. \A p \in Operations, j \in Items : Grown(p, j)
  BY <1>1, <1>4, <1>5 DEF Grown, past
<1>7. \A p \in Operations, j \in Items : SamePair(p, j) \/ Sound(p, j)'
  <2>1. Accepting(o, i) /\ OneWriter(o, i)
    BY Cells
  <2>2. Listed(o, i)'
    BY <1>1, <1>6, ListKeeps DEF Active
  <2>3. Accepting(o, i)' /\ OneWriter(o, i)'
    BY <1>1, <1>4, <2>1 DEF Accepting, OneWriter, Authors, past
  <2>4. Sound(o, i)'
    BY <2>2, <2>3 DEF Sound
  <2> QED
    BY <1>1, <1>5, <2>4 DEF SamePair, SameItem, NoTurn, Active, Only
<1>8. HereKept
  BY <1>1 DEF HereKept
<1> QED
  BY <1>1, <1>3, <1>6, <1>7, <1>8, ApartKeeps

\* The acceptor writes the pointer to its turn.
LEMMA AcceptorPointsKeeps ==
  ASSUME IInv, NEW o \in Operations, NEW i \in Items, AcceptorPoints(o, i)
  PROVE  IInv'
<1>1. /\ there' \in [Operations -> [Items -> Inputs]] /\ Only(there, there', o, i)
      /\ there'[o][i] = there[o][i] \cup {"pointer"}
      /\ acceptor' \in [Operations -> [Items -> WriterStages]] /\ Only(acceptor, acceptor', o, i)
      /\ acceptor[o][i] = "pointer" /\ acceptor'[o][i] = "mark"
      /\ UNCHANGED <<db, here, sent, read, task, late, past>> /\ Counted
  <2>1. there \in [Operations -> [Items -> Inputs]] /\ {"pointer"} \in Inputs /\ TypeOK
    BY DEF IInv, TypeOK, Inputs
  <2>2. AcceptorGoes(o, i, "mark") =>
          /\ acceptor' \in [Operations -> [Items -> WriterStages]]
          /\ Only(acceptor, acceptor', o, i) /\ acceptor'[o][i] = "mark"
    BY <2>1, UpdatedStage DEF WriterStages
  <2>3. Entered(there, there', o, i, {"pointer"})
    BY DEF AcceptorPoints, Entered
  <2> QED
    BY <2>1, <2>2, <2>3, Enters DEF AcceptorPoints, chain, bounds, past, Counted
<1>2. TypeOK'
  BY <1>1 DEF IInv, TypeOK, AcceptorPoints, timers, chain, bounds, WriterStages
<1>3. Everywhere(o, i)' = Everywhere(o, i) \cup {"pointer"}
  BY <1>1 DEF Everywhere
<1>4. \A p \in Operations, j \in Items : p # o \/ j # i =>
        Everywhere(p, j)' = Everywhere(p, j) /\ acceptor'[p][j] = acceptor[p][j]
  BY <1>1 DEF Everywhere, Only
<1>5. \A p \in Operations, j \in Items : Grown(p, j)
  BY <1>1, <1>3, <1>4 DEF Grown, past
<1>6. \A p \in Operations, j \in Items : SamePair(p, j) \/ Sound(p, j)'
  <2>1. Accepting(o, i) /\ OneWriter(o, i)
    BY Cells
  <2>2. Listed(o, i)'
    BY <1>1, <1>5, ListKeeps DEF Active
  <2>3. InputDurable(there'[o][i])
    BY <1>1, <2>1 DEF Accepting, InputDurable, HasTurn, Authors
  <2>4. Accepting(o, i)' /\ OneWriter(o, i)'
    BY <1>1, <1>3, <2>1, <2>3 DEF Accepting, OneWriter, Authors, past
  <2>5. Sound(o, i)'
    BY <2>2, <2>4 DEF Sound
  <2> QED
    BY <1>1, <1>4, <2>5 DEF SamePair, SameItem, NoTurn, Active, Only
<1>7. HereKept
  BY <1>1 DEF HereKept
<1> QED
  BY <1>1, <1>2, <1>5, <1>6, <1>7, ApartKeeps

\* The acceptor marks what it has written.
LEMMA AcceptorMarksKeeps ==
  ASSUME IInv, NEW o \in Operations, NEW i \in Items, AcceptorMarks(o, i)
  PROVE  IInv'
<1>1. /\ db' \in [Operations -> Rows] /\ notified' \in BOOLEAN /\ Marked(o, i)
      /\ acceptor' \in [Operations -> [Items -> WriterStages]] /\ Only(acceptor, acceptor', o, i)
      /\ acceptor[o][i] = "mark" /\ acceptor'[o][i] = "done"
      /\ UNCHANGED <<here, there, sent, read, task, late, past>> /\ Counted
  BY Marks, UpdatedStage DEF IInv, TypeOK, AcceptorMarks, Others, NoWrite, Marked,
     SameItem, WriterStages, docs, timers, chain, past, Counted
<1>2. mishaps' \in 0..MaxMishaps /\ trouble' \subseteq {"read", "store"}
  <2>1. mishaps' \in 0..MaxMishaps
    BY MishapType DEF IInv, AcceptorMarks
  <2> QED
    BY <2>1 DEF IInv, TypeOK, AcceptorMarks
<1>3. TypeOK'
  BY <1>1, <1>2 DEF IInv, TypeOK, AcceptorMarks, docs, timers, chain, past, WriterStages
<1>4. \A p \in Operations, j \in Items : Grown(p, j) /\ NoTurn(p, j)
  BY <1>1, StillGrown DEF Only, past
<1>5. \A p \in Operations, j \in Items : SamePair(p, j) \/ Sound(p, j)'
  <2>1. InputDurable(there[o][i])
    BY <1>1, Cells DEF Accepting
  <2>2. Written(o, i)
    BY <2>1, DurableGrows DEF Written, Everywhere
  <2>3. Sound(o, i)'
    BY <1>1, <1>4, <2>2, MarkedSound
  <2> QED
    BY <1>1, <1>4, <2>3 DEF SamePair, Active, Only, Marked, Others, SameItem
<1>6. HereKept
  BY <1>1 DEF HereKept
<1> QED
  BY <1>1, <1>3, <1>4, <1>5, <1>6, ApartKeeps DEF Marked, Others, SameItem

\* Every item was rejected, so the result tells the list as it is.
LEMMA AcceptorFinishesKeeps ==
  ASSUME IInv, NEW o \in Operations, AcceptorFinishes(o)
  PROVE  IInv'
<1>1. /\ db' \in [Operations -> Rows] /\ notified' \in BOOLEAN
      /\ FinishedAs(o, "result", [j \in Items |-> "failed"])
      /\ \A j \in Items : acceptor[o][j] = "rejected"
      /\ acceptor' \in [Operations -> [Items -> WriterStages]]
      /\ \A p \in Operations, j \in Items : acceptor'[p][j] = IF p = o THEN "done" ELSE acceptor[p][j]
      /\ UNCHANGED <<here, there, sent, read, task, late, past>> /\ Counted
  <2>1. TypeOK /\ [j \in Items |-> "failed"] \in Lists
    BY DEF IInv, Lists, ItemStates
  <2>2. /\ db' \in [Operations -> Rows] /\ notified' \in BOOLEAN
        /\ FinishedAs(o, "result", [j \in Items |-> "failed"])
    BY <2>1, Finishes DEF AcceptorFinishes
  <2>3. acceptor' = [acceptor EXCEPT ![o] = [j \in Items |-> "done"]]
    BY DEF AcceptorFinishes
  <2> QED
    BY <2>1, <2>2, <2>3 DEF TypeOK, WriterStages, AcceptorFinishes, docs, timers,
       chain, bounds, past, Counted
<1>2. TypeOK'
  BY <1>1, Numbers DEF IInv, TypeOK, AcceptorFinishes, docs, timers, chain, bounds, Rs,
     WriterStages
<1>3. Numbered'
  <2>1. \A p \in Operations : Active(p)' => Active(p) /\ db'[p].kind = db[p].kind
    BY <1>1 DEF Active, Others, FinishedAs
  <2> QED
    BY <1>1, <2>1, NumberedKeeps
<1>4. HereKept /\ \A p \in Operations, j \in Items : Grown(p, j) /\ NoTurn(p, j)
  BY <1>1, StillGrown DEF HereKept, past
<1>5. \A p \in Operations, j \in Items : SamePair(p, j) \/ Sound(p, j)'
  <2>1. \A p \in Operations, j \in Items :
          /\ acceptor'[p][j] \in {acceptor[p][j], "done"}
          /\ SameItem(p, j) /\ (Active(p)' => Active(p))
    BY <1>1 DEF SameItem, Active, Others, FinishedAs
  <2>2. \A p \in Operations, j \in Items : acceptor'[p][j] = "done" => Sound(p, j)'
    BY <1>1, <1>4, <2>1, AcceptorDone
  <2>3. \A p \in Operations, j \in Items : acceptor'[p][j] = acceptor[p][j] => SamePair(p, j)
    BY <1>1, <1>4, <2>1 DEF SamePair
  <2> QED
    BY <2>1, <2>2, <2>3
<1>6. \A q \in Rs, j \in Items : task'[q].op = NoOperation \/ SameTask(q, j) \/ InTask(q, j)'
  BY <1>1 DEF SameTask
<1>7. \A p \in Operations :
        \/ ResultTrue(p)'
        \/ /\ db'[p].kind = db[p].kind /\ db'[p].told = db[p].told
           /\ Active(p) \/ db'[p].items = db[p].items
  <2>1. ResultTrue(o) /\ (Active(o) => db[o].kind = "none")
    BY DEF IInv, Numbered
  <2>2. db[o].items \in Lists /\ \A j \in Items : db[o].items[j] = "failed"
    <3>1. db[o] \in Rows
      BY DEF IInv, TypeOK
    <3> QED
      BY <1>1, <3>1, Cells DEF Accepting, Rows
  <2>3. db[o].items = [j \in Items |-> "failed"]
    BY <2>2 DEF Lists
  <2>4. ResultTrue(o)'
    BY <1>1, <2>1, <2>3 DEF ResultTrue, FinishedAs, Active, OpenItem
  <2> QED
    BY <1>1, <2>4 DEF Others, FinishedAs
<1> QED
  BY <1>1, <1>2, <1>3, <1>4, <1>5, <1>6, <1>7, Keeps DEF Active, Others, FinishedAs, SameItem,
     SameTask, Rs

\* The acceptor's process ends, with a part of its replica left.
LEMMA AcceptorEndsKeeps ==
  ASSUME IInv, NEW o \in Operations, AcceptorEnds(o)
  PROVE  IInv'
<1>1. /\ acceptor' \in [Operations -> [Items -> WriterStages]]
      /\ \A j \in Items : acceptor'[o][j] = "done"
      /\ \A p \in Operations \ {o} : acceptor'[p] = acceptor[p] /\ there'[p] = there[p]
      /\ there' \in [Operations -> [Items -> Inputs]]
      /\ \A p \in Operations, j \in Items : there'[p][j] \subseteq there[p][j]
      /\ UNCHANGED <<db, here, sent, read, task, late, missed>> /\ Counted
  <2>1. TypeOK /\ acceptor' = [acceptor EXCEPT ![o] = [j \in Items |-> "done"]]
    BY DEF IInv, AcceptorEnds
  <2>2. PICK kept \in [Items -> Inputs] :
          (\A j \in Items : kept[j] \subseteq there[o][j]) /\ there' = [there EXCEPT ![o] = kept]
    BY DEF AcceptorEnds
  <2> QED
    BY <2>1, <2>2 DEF TypeOK, WriterStages, AcceptorEnds, chain, Counted
<1>2. lost' \subseteq Operations \X Items /\ lost \subseteq lost'
  BY DEF IInv, TypeOK, AcceptorEnds, Loses
<1>3. mishaps' \in 0..MaxMishaps
  BY MishapType DEF IInv, AcceptorEnds
<1>4. TypeOK'
  BY <1>1, <1>2, <1>3 DEF IInv, TypeOK, AcceptorEnds, timers, chain, WriterStages
<1>5. \A p \in Operations, j \in Items :
        /\ Everywhere(p, j)' \subseteq Everywhere(p, j)
        /\ Everywhere(p, j)' = Everywhere(p, j) \/ <<p, j>> \in lost'
  <2>1. \A p \in Operations, j \in Items : Everywhere(p, j)' \subseteq Everywhere(p, j)
    BY <1>1 DEF Everywhere
  <2>2. lost' = lost \cup {p \in Operations \X Items :
                             Everywhere(p[1], p[2])' # Everywhere(p[1], p[2])}
    BY DEF AcceptorEnds, Loses
  <2> QED
    BY <2>1, <2>2
<1>6. \A p \in Operations, j \in Items : Grown(p, j) /\ NoTurn(p, j)
  BY <1>1, <1>2, <1>5 DEF Grown, NoTurn
<1>7. \A p \in Operations, j \in Items : SamePair(p, j) \/ Sound(p, j)'
  <2>1. \A p \in Operations, j \in Items : SameItem(p, j) /\ (Active(p)' => Active(p))
    BY <1>1 DEF SameItem, Active
  <2>2. \A j \in Items : Sound(o, j)'
    BY <1>1, <1>6, <2>1, AcceptorDone
  <2>3. \A p \in Operations \ {o}, j \in Items : SamePair(p, j)
    BY <1>1, <1>6, <2>1 DEF SamePair
  <2> QED
    BY <2>2, <2>3
<1>8. HereKept
  BY <1>1 DEF HereKept
<1> QED
  BY <1>1, <1>4, <1>6, <1>7, <1>8, ApartKeeps

\* A cancelled Operation tells the list as it is.
LEMMA CancelKeeps ==
  ASSUME IInv, NEW o \in Operations, Cancel(o)
  PROVE  IInv'
<1>1. /\ db' \in [Operations -> Rows] /\ notified' \in BOOLEAN
      /\ FinishedAs(o, "cancelled", db[o].items)
      /\ UNCHANGED <<acceptor, here, there, sent, read, task, late, past>> /\ Counted
  BY Numbers, Finishes DEF IInv, TypeOK, Cancel, Rows, docs, timers, chain, past,
     Counted
<1>2. TypeOK'
  BY <1>1, Numbers DEF IInv, TypeOK, Cancel, docs, timers, chain, past, Rs
<1>3. Numbered'
  <2>1. \A p \in Operations : Active(p)' => Active(p) /\ db'[p].kind = db[p].kind
    BY <1>1 DEF Active, Others, FinishedAs
  <2> QED
    BY <1>1, <2>1, NumberedKeeps
<1>4. HereKept /\ \A p \in Operations, j \in Items : Grown(p, j) /\ NoTurn(p, j)
  BY <1>1, StillGrown DEF HereKept, past
<1>5. \A p \in Operations, j \in Items : SamePair(p, j) \/ Sound(p, j)'
  BY <1>1, <1>4 DEF SamePair, SameItem, Active, Others, FinishedAs
<1>6. \A q \in Rs, j \in Items : task'[q].op = NoOperation \/ SameTask(q, j) \/ InTask(q, j)'
  BY <1>1 DEF SameTask
<1>7. \A p \in Operations :
        \/ ResultTrue(p)'
        \/ /\ db'[p].kind = db[p].kind /\ db'[p].told = db[p].told
           /\ Active(p) \/ db'[p].items = db[p].items
  <2>1. ResultTrue(o) /\ (Active(o) => db[o].kind = "none")
    BY DEF IInv, Numbered
  <2>2. ResultTrue(o)'
    BY <1>1, <1>4, <2>1 DEF ResultTrue, FinishedAs, Active, Grown
  <2> QED
    BY <1>1, <2>2 DEF Others, FinishedAs
<1> QED
  BY <1>1, <1>2, <1>3, <1>4, <1>5, <1>6, <1>7, Keeps DEF Active, Others, FinishedAs, SameItem,
     SameTask, Rs


-----------------------------------------------------------------------------
(* Wakes, deadlines and claims that lapse                                  *)

\* The store's watcher drops what is no longer active.
LEMMA StoreWatchKeeps ==
  ASSUME IInv, StoreWatch
  PROVE  IInv'
<1>1. /\ task' \in [Rs -> TaskRecords] /\ TasksKept
      /\ deadlineTimer' \subseteq Operations /\ retryTimer' \subseteq Operations \X Items
      /\ UNCHANGED <<db, acceptor, here, there, sent, read, late, past>> /\ Counted
  <2>1. TypeOK /\ ActiveOperations \in SUBSET Operations
    BY DEF IInv, ActiveOperations
  <2> QED
    BY <2>1, AbortedTasks DEF StoreWatch, bounds, docs, past, Counted
<1>2. TypeOK'
  <2>1. notified' = FALSE
    BY Zenon DEF StoreWatch
  <2>2. notified' \in BOOLEAN
    BY <2>1, Zenon
  <2>3. wakes' = 1 /\ UNCHANGED <<db, acceptor, docs, token, todo, read, bounds>>
    BY Zenon DEF StoreWatch, Wake
  <2> QED
    BY <1>1, <2>2, <2>3, Numbers DEF IInv, TypeOK, Rs, docs, bounds
<1> QED
  BY <1>1, <1>2, WaitKeeps DEF TasksKept, SameTask, Rs

\* A deadline passes for good.
LEMMA DeadlinePassesKeeps ==
  ASSUME IInv, NEW o \in Operations, DeadlinePasses(o)
  PROVE  IInv'
<1>1. /\ late' = late \cup {o}
      /\ UNCHANGED <<db, acceptor, here, there, sent, read, task, past>> /\ Counted
  BY Numbers DEF IInv, TypeOK, DeadlinePasses, docs, timers, chain, past, Counted
<1>2. TypeOK'
  BY <1>1, Numbers DEF IInv, TypeOK, DeadlinePasses, docs, timers, chain, past, Rs
<1> QED
  BY <1>1, <1>2, WaitKeeps DEF TasksKept, SameTask, Rs

\* The deadline's timer fires.
LEMMA DeadlineTimerKeeps ==
  ASSUME IInv, NEW o \in Operations, DeadlineTimer(o)
  PROVE  IInv'
<1>1. /\ deadlineTimer' \subseteq Operations /\ retryTimer' \subseteq Operations \X Items
      /\ UNCHANGED <<db, acceptor, here, there, sent, read, late, task, past>> /\ Counted
  BY Numbers DEF IInv, TypeOK, DeadlineTimer, docs, chain, bounds, past, Counted
<1>2. TypeOK'
  BY <1>1, Numbers DEF IInv, TypeOK, DeadlineTimer, Wake, docs, chain, bounds, Rs
<1> QED
  BY <1>1, <1>2, WaitKeeps DEF TasksKept, SameTask, Rs

\* The retry's timer fires.
LEMMA RetryTimerKeeps ==
  ASSUME IInv, NEW o \in Operations, NEW i \in Items, RetryTimer(o, i)
  PROVE  IInv'
<1>1. /\ deadlineTimer' \subseteq Operations /\ retryTimer' \subseteq Operations \X Items
      /\ UNCHANGED <<db, acceptor, here, there, sent, read, late, task, past>> /\ Counted
  BY Numbers DEF IInv, TypeOK, RetryTimer, docs, chain, bounds, past, Counted
<1>2. TypeOK'
  BY <1>1, Numbers DEF IInv, TypeOK, RetryTimer, Wake, docs, chain, bounds, Rs
<1> QED
  BY <1>1, <1>2, WaitKeeps DEF TasksKept, SameTask, Rs

\* A claim lapses; whose it is does not change.
LEMMA LapseKeeps ==
  ASSUME IInv, NEW o \in Operations, NEW i \in Items, Lapse(o, i)
  PROVE  IInv'
<1>1. /\ db' \in [Operations -> Rows] /\ Others(o) /\ \A j \in Items : SameItem(o, j)
      /\ db'[o].items = db[o].items /\ db'[o].state = db[o].state
      /\ db'[o].kind = db[o].kind /\ db'[o].told = db[o].told
      /\ UNCHANGED <<acceptor, here, there, sent, read, task, late, past>> /\ Counted
  <2>1. db \in [Operations -> Rows] /\ db[o] \in Rows
    BY DEF IInv, TypeOK
  <2>2. PICK row : row = [db[o] EXCEPT !.lapsed[i] = TRUE]
    OBVIOUS
  <2>3. /\ row \in Rows /\ row.state = db[o].state /\ row.kind = db[o].kind
        /\ row.told = db[o].told /\ row.items = db[o].items /\ row.claim = db[o].claim
    BY <2>1, <2>2 DEF Rows
  <2>4. db' = [db EXCEPT ![o] = row]
    BY <2>1, <2>2 DEF Lapse
  <2> QED
    BY <2>1, <2>3, <2>4 DEF Lapse, SameItem, Others, chain, docs, bounds, past, Counted
<1>2. TypeOK'
  BY <1>1 DEF IInv, TypeOK, Lapse, docs, timers, chain, bounds
<1>3. \A p \in Operations, j \in Items : Grown(p, j) /\ NoTurn(p, j)
  BY <1>1, StillGrown DEF past
<1>4. \A p \in Operations, j \in Items : SamePair(p, j)
  BY <1>1, <1>3 DEF SamePair, Active, Others, SameItem
<1>5. HereKept
  BY <1>1 DEF HereKept
<1> QED
  BY <1>1, <1>2, <1>3, <1>4, <1>5, ApartKeeps DEF Others

-----------------------------------------------------------------------------
(* A reconciliation and its Operation                                      *)

\* A reconciliation reads the lists, which say what is true.
LEMMA StartReconcileKeeps ==
  ASSUME IInv, StartReconcile
  PROVE  IInv'
<1>1. /\ task["main"].op = NoOperation /\ task' \in [Rs -> TaskRecords] /\ TasksKept
      /\ deadlineTimer' \subseteq Operations /\ retryTimer' \subseteq Operations \X Items
      /\ read' \in [Operations -> Lists]
      /\ \A p \in Operations, j \in Items : read'[p][j] = db[p].items[j]
      /\ UNCHANGED <<db, acceptor, here, there, sent, late, past>> /\ Counted
  <2>1. TypeOK /\ ActiveOperations \in SUBSET Operations
    BY DEF IInv, ActiveOperations
  <2>2. /\ task' \in [Rs -> TaskRecords] /\ TasksKept /\ deadlineTimer' \subseteq Operations
        /\ retryTimer' \subseteq Operations \X Items
    BY <2>1, AbortedTasks DEF StartReconcile
  <2>3. task["main"].op = NoOperation
    BY IdleTask DEF StartReconcile
  <2>4. read' = [p \in Operations |-> db[p].items]
    BY DEF StartReconcile
  <2> QED
    BY <2>1, <2>2, <2>3, <2>4 DEF TypeOK, Rows, StartReconcile, docs, bounds, past,
       Counted
<1>2. TypeOK'
  BY <1>1, Numbers DEF IInv, TypeOK, StartReconcile, ActiveOperations, docs, bounds, Rs
<1>3. Numbered'
  <2>1. \A p \in Operations : Active(p)' => Active(p) /\ db'[p].kind = db[p].kind
    BY <1>1 DEF Active
  <2> QED
    BY <1>1, <2>1, NumberedKeeps
<1>4. HereKept /\ \A p \in Operations, j \in Items : Grown(p, j) /\ NoTurn(p, j)
  BY <1>1, StillGrown DEF HereKept, past
<1>5. \A p \in Operations, j \in Items : SamePair(p, j) \/ Sound(p, j)'
  <2> SUFFICES ASSUME NEW p \in Operations, NEW j \in Items
               PROVE  Sound(p, j)'
    OBVIOUS
  <2>1. Accepting(p, j) /\ OneWriter(p, j) /\ Listed(p, j)
    BY Cells
  <2>2. read'[p][j] = db[p].items[j]
    BY <1>1
  <2>3. Accepting(p, j)' /\ OneWriter(p, j)'
    BY <1>1, <2>1, <2>2 DEF Accepting, OneWriter, Everywhere, past
  <2>4. PICK x : x = db[p].items[j]
    OBVIOUS
  <2>5. ItemTrue(p, j, x)'
    BY <1>4, <2>1, <2>4, TrueStays DEF Listed
  <2>6. Listed(p, j)'
    BY <1>1, <2>1, <2>2, <2>4, <2>5 DEF Listed
  <2> QED
    BY <2>3, <2>6 DEF Sound
<1>6. \A q \in Rs, j \in Items : task'[q].op = NoOperation \/ SameTask(q, j) \/ InTask(q, j)'
  BY <1>1 DEF SameTask, TasksKept
<1>7. \A p \in Operations :
        \/ ResultTrue(p)'
        \/ /\ db'[p].kind = db[p].kind /\ db'[p].told = db[p].told
           /\ Active(p) \/ db'[p].items = db[p].items
  BY <1>1 DEF IInv, TypeOK, Rows, Lists
<1> QED
  BY <1>1, <1>2, <1>3, <1>4, <1>5, <1>6, <1>7, Keeps DEF Active, SameTask, TasksKept, Rs

\* Every item starts with the list that was read.
LEMMA StartOperationKeeps ==
  ASSUME IInv, NEW o \in Operations, StartOperation(o)
  PROVE  IInv'
<1>1. /\ task' \in [Rs -> TaskRecords]
      /\ task'["main"].op = o /\ task'["stray"] = task["stray"]
      /\ \A j \in Items : task'["main"].at[j] = "check" /\ task'["main"].out[j] = read[o][j]
      /\ UNCHANGED <<db, acceptor, here, there, sent, read, late, past>> /\ Counted
  <2>1. TypeOK /\ o \in todo
    BY DEF IInv, StartOperation
  <2>2. PICK t : t = [op |-> o, at |-> [j \in Items |-> "check"], out |-> read[o], aborted |-> FALSE]
    OBVIOUS
  <2>3. /\ t \in TaskRecords /\ t.op = o
        /\ \A j \in Items : t.at[j] = "check" /\ t.out[j] = read[o][j]
    BY <2>1, <2>2 DEF TypeOK, TaskRecords, Lists, Stages
  <2>4. task' = [task EXCEPT !["main"] = t]
    BY <2>2 DEF StartOperation
  <2>5. /\ task' \in [Rs -> TaskRecords]
        /\ task'["main"] = t /\ task'["stray"] = task["stray"]
    BY <2>1, <2>3, <2>4 DEF TypeOK, Rs
  <2> QED
    BY <2>3, <2>5 DEF StartOperation, docs, bounds, past, Counted
<1>2. TypeOK'
  BY <1>1, Numbers DEF IInv, TypeOK, StartOperation, docs, bounds, Rs
<1>3. Numbered'
  <2>1. \A p \in Operations : Active(p)' => Active(p) /\ db'[p].kind = db[p].kind
    BY <1>1 DEF Active
  <2> QED
    BY <1>1, <2>1, NumberedKeeps
<1>4. HereKept /\ \A p \in Operations, j \in Items : Grown(p, j) /\ NoTurn(p, j)
  BY <1>1, StillGrown DEF HereKept, past
<1>5. \A p \in Operations, j \in Items : SamePair(p, j) \/ Sound(p, j)'
  BY <1>1, <1>4 DEF SamePair, SameItem, Active
<1>6. \A q \in Rs, j \in Items : task'[q].op = NoOperation \/ SameTask(q, j) \/ InTask(q, j)'
  <2>1. \A j \in Items : InTask("main", j)'
    <3> SUFFICES ASSUME NEW j \in Items
                 PROVE  InTask("main", j)'
      OBVIOUS
    <3>1. PICK x : x = read[o][j]
      OBVIOUS
    <3>2. ItemTrue(o, j, x)'
      BY <1>4, <3>1, Cells, TrueStays DEF Listed
    <3> QED
      BY <1>1, <3>1, <3>2 DEF InTask, Op, ItemTrue
  <2> QED
    BY <1>1, <2>1 DEF SameTask, Rs
<1>7. \A p \in Operations :
        \/ ResultTrue(p)'
        \/ /\ db'[p].kind = db[p].kind /\ db'[p].told = db[p].told
           /\ Active(p) \/ db'[p].items = db[p].items
  BY <1>1 DEF IInv, TypeOK, Rows, Lists
<1>8. \A j \in Items : Told(j)'
  BY <1>1 DEF Told, Op
<1> QED
  BY <1>1, <1>2, <1>3, <1>4, <1>5, <1>6, <1>7, <1>8, Keeps DEF SameTask

-----------------------------------------------------------------------------
(* The items of an Operation                                               *)

\* What the list says of an item that moves to stage s with x to say.
ToldAs(o, i, s, x) ==
  /\ read[o][i] \notin OpenItem => x = read[o][i]
  /\ s # "done" => read[o][i] \in OpenItem

\* What is known of an item whose task is at a stage before the end.
LEMMA Item ==
  ASSUME IInv, NEW r \in Rs, NEW i \in Items, NEW stage \in Stages \ {"finish"}, At(r, i, stage)
  PROVE  /\ Op(r) \in Operations /\ task[r].at[i] = stage /\ task[r].out[i] \in ItemStates
         /\ InTask(r, i)
         /\ r = "main" => /\ Told(i)
                         /\ \A j \in Items : task["main"].at[j] # "finish"
<1>1. /\ Op(r) \in Operations /\ task[r].at[i] = stage /\ task[r].out[i] \in ItemStates
      /\ InTask(r, i)
  BY TaskCells DEF At
<1>2. ASSUME r = "main"
      PROVE  Told(i) /\ \A j \in Items : task["main"].at[j] # "finish"
  <2>1. \A j \in Items : Told(j)
    BY DEF IInv
  <2> QED
    BY <1>1, <1>2, <2>1, Numbers DEF Told
<1> QED
  BY <1>1, <1>2

\* What the step of one item's task must show to keep the invariant.
LEMMA ItemKeeps ==
  ASSUME IInv, NEW r \in Rs, NEW i \in Items, NEW stage \in Stages \ {"finish"}, At(r, i, stage),
         NEW s \in Stages \ {"check", "fold", "finish"}, NEW x \in ItemStates,
         Moves(r, i, s, x), TypeOK',
         UNCHANGED read, Counted, HereKept,
         \A p \in Operations, j \in Items : Grown(p, j) /\ (SamePair(p, j) \/ Sound(p, j)'),
         \A p \in Operations :
           /\ db'[p].state = db[p].state /\ db'[p].kind = db[p].kind /\ db'[p].told = db[p].told
           /\ Active(p) \/ db'[p].items = db[p].items
           /\ \A j \in Items : db[p].items[j] \in {"open", db'[p].items[j]},
         InTask(r, i)',
         r = "main" => ToldAs(Op(r), i, s, x)
  PROVE  IInv'
<1>1. /\ Op(r) \in Operations
      /\ r = "main" => Told(i) /\ \A j \in Items : task["main"].at[j] # "finish"
  BY Item
<1>2. Numbered'
  BY NumberedKeeps DEF Active
<1>3. \A q \in Rs, j \in Items : SameTask(q, j) \/ InTask(q, j)'
  BY DEF Moves
<1>4. r = "main" => Told(i)'
  BY <1>1 DEF Told, ToldAs, Moves, Op
<1>5. \A j \in Items :
        \/ Told(j)'
        \/ /\ SameTask("main", j) /\ \A o \in Operations : read'[o] = read[o]
           /\ task["main"].at[j] = "finish" =>
                /\ \A k \in Items : SameTask("main", k)
                /\ \A o \in Operations :
                     Active(o)' =>
                       Active(o) /\ db[o].items[j] \in {"open", db'[o].items[j]}
  BY <1>1, <1>4 DEF Moves, Rs, Active
<1>6. \A j \in Items : task'["stray"].at[j] # "finish" \/ SameTask("stray", j)
  BY DEF Moves, Rs
<1> QED
  BY <1>2, <1>3, <1>5, <1>6, Keeps

\* The same, of a step that writes neither the store nor a replica.
LEMMA QuietKeeps ==
  ASSUME IInv, NEW r \in Rs, NEW i \in Items, NEW stage \in Stages \ {"finish"}, At(r, i, stage),
         NEW s \in Stages \ {"check", "fold", "finish"}, NEW x \in ItemStates,
         Moves(r, i, s, x), TypeOK',
         UNCHANGED <<db, acceptor, here, there, sent, read, late, past>>, Counted,
         InTask(r, i)',
         r = "main" => ToldAs(Op(r), i, s, x)
  PROVE  IInv'
<1>1. \A p \in Operations, j \in Items : Grown(p, j) /\ SamePair(p, j)
  BY StillGrown DEF SamePair, SameItem, Active, past
<1>2. HereKept
  BY DEF HereKept
<1> QED
  BY <1>1, <1>2, ItemKeeps

\* The target's history says how the turn ended.
LEMMA HistoryKeeps ==
  ASSUME IInv, NEW r \in Rs, NEW i \in Items, History(r, i)
  PROVE  IInv'
<1>1. PICK o : o = Op(r)
  OBVIOUS
<1>2. PICK x : /\ Returns(r, i, x)
               /\ \/ x \in here[o][i] \cap Ends
                  \/ x = "timeout" /\ o \in late
                  \/ x = "durable"
  BY <1>1 DEF History, Late
<1>3. /\ At(r, i, "history")
      /\ UNCHANGED <<db, acceptor, docs, token, wakes, todo, read, timers, notified, bounds>>
  BY DEF History
<1>4. /\ o \in Operations /\ task[r].at[i] = "history" /\ InTask(r, i)
      /\ r = "main" => Told(i)
  BY <1>1, <1>3, Item DEF Stages
<1>5. Written(o, i) /\ o # NoOperation
  BY <1>1, <1>4, Numbers DEF InTask
<1>6. x \in ItemStates /\ ItemTrue(o, i, x)
  BY <1>2, <1>5, Numbers DEF ItemStates, OpenItem, ItemTrue, Everywhere
<1>7. Moves(r, i, "done", x)
  BY <1>2, <1>6, ReturnsWith DEF IInv
<1>8. Grown(o, i)
  BY <1>3, StillGrown DEF docs, bounds
<1>9. InTask(r, i)'
  <2>1. ItemTrue(o, i, x)'
    BY <1>6, <1>8, TrueStays
  <2>2. Op(r)' = o /\ task'[r].at[i] = "done" /\ task'[r].out[i] = x
    BY <1>1, <1>7 DEF Moves, Op
  <2> QED
    BY <2>1, <2>2 DEF InTask, ItemTrue
<1>10. r = "main" => ToldAs(Op(r), i, "done", x)
  BY <1>1, <1>4, <1>5 DEF Told, ToldAs
<1>11. TypeOK'
  BY <1>3, <1>7 DEF IInv, TypeOK, Moves, Rs, docs, timers, bounds
<1> QED
  BY <1>3, <1>6, <1>7, <1>9, <1>10, <1>11, QuietKeeps DEF Stages, docs, bounds, past, Counted

\* The coordinator marks an input that it has found or written.
LEMMA MarkKeeps ==
  ASSUME IInv, NEW r \in Rs, NEW i \in Items, Mark(r, i)
  PROVE  IInv'
<1>1. PICK stage \in {"mark", "markClaimed"} : At(r, i, stage)
  BY DEF Mark
<1>2. PICK o : o = Op(r)
  OBVIOUS
<1>3. /\ o \in Operations /\ task[r].at[i] = stage /\ InTask(r, i)
      /\ r = "main" => Told(i)
  BY <1>1, <1>2, Item DEF Stages
<1>4. PICK by : Write(o, Durable(o, i, by))
  BY <1>2 DEF Mark
<1>5. /\ task' = [task EXCEPT ![r].at[i] = "history", ![r].out[i] = "durable"]
      /\ retryTimer' \subseteq retryTimer
      /\ UNCHANGED <<acceptor, docs, token, wakes, todo, read, deadlineTimer, bounds>>
  BY DEF Mark, Disarm
<1>6. Moves(r, i, "history", "durable")
  <2>1. TypeOK /\ "durable" \in ItemStates /\ "history" \in Stages
    BY DEF IInv, ItemStates, OpenItem, Stages
  <2> QED
    BY <1>5, <2>1, Moved
<1>7. db' \in [Operations -> Rows] /\ notified' \in BOOLEAN /\ Marked(o, i)
  BY <1>3, <1>4, Marks DEF IInv
<1>8. (acceptor[o][i] # "write" \/ <<o, i>> \in missed) /\ Written(o, i)
  <2>1. InputDurable(here[o][i]) /\ Accepting(o, i)
    BY <1>2, <1>3, Numbers, Cells DEF InTask
  <2>2. HasTurn(Everywhere(o, i)) /\ Written(o, i)
    BY <2>1, DurableGrows DEF Written, Everywhere, InputDurable
  <2> QED
    BY <2>1, <2>2 DEF HasTurn, Accepting
<1>9. TypeOK'
  BY <1>5, <1>6, <1>7 DEF IInv, TypeOK, Moves, Rs, docs, bounds
<1>10. HereKept /\ \A p \in Operations, j \in Items : Grown(p, j) /\ NoTurn(p, j)
  BY <1>5, StillGrown DEF HereKept, docs, bounds
<1>11. \A p \in Operations, j \in Items : SamePair(p, j) \/ Sound(p, j)'
  <2>1. Sound(o, i)'
    BY <1>3, <1>5, <1>7, <1>8, <1>10, MarkedSound DEF docs, bounds
  <2> QED
    BY <1>3, <1>5, <1>7, <1>10, <2>1 DEF SamePair, Active, Marked, Others, SameItem, docs
<1>12. InTask(r, i)' /\ (r = "main" => ToldAs(o, i, "history", "durable"))
  <2>1. Written(o, i)'
    BY <1>3, <1>8, <1>10, TrueStays DEF Listed, Sound, IInv
  <2>2. Op(r)' = o /\ task'[r].at[i] = "history" /\ task'[r].out[i] = "durable"
    BY <1>2, <1>6 DEF Moves, Op
  <2>3. InTask(r, i)'
    BY <2>1, <2>2 DEF InTask, ItemTrue
  <2> QED
    BY <1>2, <1>3, <2>3, Numbers DEF Told, ToldAs
<1>13. \A p \in Operations :
         /\ db'[p].state = db[p].state /\ db'[p].kind = db[p].kind /\ db'[p].told = db[p].told
         /\ Active(p) \/ db'[p].items = db[p].items
         /\ \A j \in Items : db[p].items[j] \in {"open", db'[p].items[j]}
  BY <1>3, <1>7 DEF Marked, Others, SameItem
<1> QED
  BY <1>1, <1>2, <1>5, <1>6, <1>9, <1>10, <1>11, <1>12, <1>13, ItemKeeps DEF Stages, ItemStates,
     OpenItem, docs, bounds, past, Counted

\* A catch-up brings what was pushed; the worker goes on to write only after it.
LEMMA SyncKeeps ==
  ASSUME IInv, NEW r \in Rs, NEW i \in Items, Sync(r, i)
  PROVE  IInv'
<1>1. PICK o : o = Op(r)
  OBVIOUS
<1>2. /\ o \in Operations /\ InTask(r, i) /\ task[r].at[i] = "sync" /\ task[r].out[i] \in ItemStates
      /\ At(r, i, "sync") /\ (r = "main" => Told(i))
  BY <1>1, Item DEF Sync, Stages
<1>3. /\ acceptor[o][i] # "write" \/ <<o, i>> \in missed
      /\ ItemTrue(o, i, task[r].out[i])
      /\ r = "main" => read[o][i] \in OpenItem
  BY <1>1, <1>2, Numbers DEF InTask, Told
<1>4. UNCHANGED <<db, acceptor, there, token, wakes, todo, read, deadlineTimer,
                  notified, late, cancels, trouble, lost>>
  BY DEF Sync
<1>5. /\ here' \in [Operations -> [Items -> Inputs]] /\ sent' \in [Operations -> [Items -> Inputs]]
      /\ \A p \in Operations, j \in Items :
           /\ here[p][j] \subseteq here'[p][j] /\ sent[p][j] \subseteq sent'[p][j]
           /\ here'[p][j] \subseteq here[p][j] \cup sent'[p][j]
           /\ sent'[p][j] \subseteq sent[p][j] \cup there[p][j]
  <2>1. /\ here \in [Operations -> [Items -> Inputs]] /\ sent \in [Operations -> [Items -> Inputs]]
        /\ there[o][i] \in Inputs /\ o \in Operations
    BY <1>2 DEF IInv, TypeOK
  <2>2. CASE here' = here /\ sent' = sent
    BY <2>1, <2>2
  <2>3. CASE /\ \E pushed \in {{}, Document(there[o][i])} : Entered(sent, sent', o, i, pushed)
             /\ Entered(here, here', o, i, Document(sent'[o][i]))
    <3>1. PICK pushed : Entered(sent, sent', o, i, pushed) /\ pushed \in {{}, Document(there[o][i])}
      BY <2>3
    <3>2. /\ o \in Operations /\ pushed \in Inputs /\ Entered(sent, sent', o, i, pushed)
          /\ here \in [Operations -> [Items -> Inputs]] /\ sent \in [Operations -> [Items -> Inputs]]
      BY <1>2, <2>1, <3>1 DEF Document, Inputs
    <3>3. /\ sent' \in [Operations -> [Items -> Inputs]] /\ Only(sent, sent', o, i)
          /\ sent'[o][i] = sent[o][i] \cup pushed
      BY <3>2, Enters, SMTT(30)
    <3>4. PICK new : new = Document(sent'[o][i])
      OBVIOUS
    <3>5. sent'[o][i] \in Inputs
      BY <1>2, <3>3
    <3>6. new \in Inputs /\ new \subseteq sent'[o][i]
      BY <3>4, <3>5 DEF Document, Inputs
    <3>7. Entered(here, here', o, i, new)
      BY <2>3, <3>4
    <3>8. /\ here' \in [Operations -> [Items -> Inputs]] /\ Only(here, here', o, i)
          /\ here'[o][i] = here[o][i] \cup new
      BY <3>2, <3>6, <3>7, Enters, SMTT(30)
    <3>9. pushed \subseteq there[o][i]
      BY <3>1 DEF Document
    <3> QED
      BY <3>3, <3>6, <3>8, <3>9 DEF Only
  <2>4. \/ here' = here /\ sent' = sent
        \/ /\ \E pushed \in {{}, Document(there[o][i])} : Entered(sent, sent', o, i, pushed)
           /\ Entered(here, here', o, i, Document(sent'[o][i]))
    BY <1>1 DEF Sync, Entered
  <2> QED
    BY <2>2, <2>3, <2>4
<1>6. mishaps' \in 0..MaxMishaps /\ retryTimer' \subseteq Operations \X Items /\ Counted
  <2>1. retryTimer \subseteq Operations \X Items
    BY DEF IInv, TypeOK
  <2>2. mishaps' = mishaps \/ Mishap
    BY DEF Sync
  <2>3. retryTimer' \subseteq retryTimer \cup {<<o, i>>}
    BY <1>1 DEF Sync, Arm, Disarm, TooLate
  <2> QED
    BY <1>2, <1>4, <2>1, <2>2, <2>3, MishapType DEF IInv, Counted
<1>7. /\ missed \subseteq missed' /\ missed' \subseteq Operations \X Items
      /\ Goes(r, i, "write") /\ "acceptor" \in Everywhere(o, i) \ here'[o][i] => <<o, i>> \in missed'
  <2>1. missed \subseteq Operations \X Items /\ task \in [Rs -> TaskRecords]
    BY DEF IInv, TypeOK, Rs
  <2>2. \/ missed' = missed
        \/ missed' = missed \cup {p \in {<<o, i>>} :
             task'[r].at[i] = "write" /\ "acceptor" \in Everywhere(o, i) \ here'[o][i]}
    BY <1>1 DEF Sync
  <2>3. Goes(r, i, "write") => task'[r].at[i] = "write"
    BY GoesTo DEF Moves, IInv, Stages
  <2>4. Goes(r, i, "write") =>
          missed' = missed \cup {p \in {<<o, i>>} :
             task'[r].at[i] = "write" /\ "acceptor" \in Everywhere(o, i) \ here'[o][i]}
    <3>1. \A s \in {"done", "markClaimed", "write"} : Goes(r, i, s) => task'[r].at[i] = s
      BY GoesTo DEF Moves, IInv, Stages
    <3>2. Returns(r, i, "timeout") => task'[r].at[i] = "done"
      BY ReturnsWith DEF Moves, IInv, ItemStates
    <3> QED
      BY <1>1, <3>1, <3>2 DEF Sync, ReturnsAsRead, TooLate
  <2> QED
    BY <1>2, <2>1, <2>2, <2>3, <2>4
<1>8. \/ Goes(r, i, "done")
      \/ Goes(r, i, "markClaimed") /\ InputDurable(here'[o][i])
      \/ Goes(r, i, "write")
      \/ Returns(r, i, "timeout") /\ o \in late
  BY <1>1 DEF Sync, ReturnsAsRead, TooLate, Late
<1>9. PICK s \in {"done", "markClaimed", "write"}, x \in ItemStates :
        /\ Moves(r, i, s, x)
        /\ x = task[r].out[i] \/ (s = "done" /\ x = "timeout" /\ o \in late)
        /\ s = "markClaimed" => InputDurable(here'[o][i])
        /\ s = "write" => Goes(r, i, "write")
  <2>1. TypeOK /\ {"done", "markClaimed", "write"} \subseteq Stages /\ "timeout" \in ItemStates
    BY DEF IInv, Stages, ItemStates
  <2>2. \A s \in {"done", "markClaimed", "write"} : Goes(r, i, s) => Moves(r, i, s, task[r].out[i])
    BY <2>1, GoesTo
  <2>3. Returns(r, i, "timeout") => Moves(r, i, "done", "timeout")
    BY <2>1, ReturnsWith
  <2>4. CASE Goes(r, i, "done")
    BY <1>2, <2>2, <2>4
  <2>5. CASE Goes(r, i, "markClaimed") /\ InputDurable(here'[o][i])
    BY <1>2, <2>2, <2>5
  <2>6. CASE Goes(r, i, "write")
    BY <1>2, <2>2, <2>6
  <2>7. CASE Returns(r, i, "timeout") /\ o \in late
    BY <2>1, <2>3, <2>7
  <2> QED
    BY <1>8, <2>4, <2>5, <2>6, <2>7
<1>10. TypeOK'
  BY <1>4, <1>5, <1>6, <1>7, <1>9 DEF IInv, TypeOK, Moves, Rs
<1>11. \A p \in Operations, j \in Items : Everywhere(p, j)' = Everywhere(p, j)
  BY <1>4, <1>5 DEF Everywhere
<1>12. \A p \in Operations, j \in Items : Grown(p, j) /\ SamePair(p, j)
  BY <1>4, <1>7, <1>11 DEF Grown, SamePair, SameItem, NoTurn, Active
<1>13. InTask(r, i)'
  <2>1. ItemTrue(o, i, x)
    BY <1>3, <1>9 DEF ItemTrue
  <2>2. ItemTrue(o, i, x)'
    BY <1>2, <1>12, <2>1, TrueStays
  <2>3. acceptor'[o][i] # "write" \/ <<o, i>> \in missed'
    BY <1>3, <1>4, <1>7
  <2>4. s = "write" /\ ~HasTurn(here'[o][i]) =>
          "acceptor" \notin Everywhere(o, i)' \/ <<o, i>> \in missed'
    BY <1>2, <1>7, <1>9, <1>11 DEF HasTurn, Authors
  <2>5. Op(r)' = o /\ task'[r].at[i] = s /\ task'[r].out[i] = x
    BY <1>1, <1>9 DEF Moves, Op
  <2> QED
    BY <1>9, <2>2, <2>3, <2>4, <2>5 DEF InTask, ItemTrue
<1>14. r = "main" => ToldAs(o, i, s, x)
  BY <1>3 DEF ToldAs
<1>15. HereKept /\ \A p \in Operations : \A j \in Items : db[p].items[j] \in {"open", db'[p].items[j]}
  BY <1>4, <1>5 DEF HereKept
<1> QED
  BY <1>1, <1>2, <1>4, <1>6, <1>9, <1>10, <1>12, <1>13, <1>14, <1>15, ItemKeeps DEF Stages

\* The worker writes a turn only where its replica has none.
LEMMA MaterializeKeeps ==
  ASSUME IInv, NEW r \in Rs, NEW i \in Items, Materialize(r, i)
  PROVE  IInv'
<1>1. PICK o : o = Op(r)
  OBVIOUS
<1>2. /\ o \in Operations /\ InTask(r, i) /\ task[r].at[i] = "write"
      /\ task[r].out[i] \in ItemStates
      /\ At(r, i, "write") /\ (r = "main" => Told(i))
  BY <1>1, Item DEF Materialize, Stages
<1>3. /\ acceptor[o][i] # "write" \/ <<o, i>> \in missed
      /\ ItemTrue(o, i, task[r].out[i])
      /\ ~HasTurn(here[o][i]) => "acceptor" \notin Everywhere(o, i) \/ <<o, i>> \in missed
      /\ r = "main" => read[o][i] \in OpenItem
  BY <1>1, <1>2, Numbers DEF InTask, Told
<1>4. UNCHANGED <<db, acceptor, there, sent, token, wakes, todo, read, deadlineTimer,
                  notified, late, cancels, trouble, past>>
  BY DEF Materialize
<1>5. PICK part \in {{}, {"worker"}} :
        /\ HasTurn(here[o][i]) => part = {}
        /\ \/ /\ Entered(here, here', o, i, part) /\ Goes(r, i, "pointer")
              /\ UNCHANGED <<retryTimer, mishaps>> /\ (~HasTurn(here[o][i]) => part = {"worker"})
           \/ /\ here' = here /\ Goes(r, i, "done") /\ Mishap
              /\ retryTimer' \subseteq retryTimer \cup {<<o, i>>}
  <2>1. here \in [Operations -> [Items -> Inputs]]
    BY DEF IInv, TypeOK
  <2>2. CASE /\ here' = [here EXCEPT ![o][i] = IF HasTurn(@) THEN @ ELSE @ \cup {"worker"}]
             /\ Goes(r, i, "pointer") /\ UNCHANGED <<retryTimer, mishaps>>
    <3>1. CASE HasTurn(here[o][i])
      <4>1. here[o][i] \cup {} = here[o][i]
        OBVIOUS
      <4>2. Entered(here, here', o, i, {})
        BY <2>2, <3>1, <4>1 DEF Entered
      <4> QED
        BY <2>2, <3>1, <4>2
    <3>2. CASE ~HasTurn(here[o][i])
      <4>1. Entered(here, here', o, i, {"worker"})
        BY <2>2, <3>2 DEF Entered
      <4> QED
        BY <2>2, <3>2, <4>1
    <3> QED
      BY <3>1, <3>2
  <2>3. CASE /\ here' = here /\ Goes(r, i, "done") /\ Mishap
             /\ retryTimer' \subseteq retryTimer \cup {<<o, i>>}
    BY <2>3
  <2>4. \/ /\ here' = [here EXCEPT ![o][i] = IF HasTurn(@) THEN @ ELSE @ \cup {"worker"}]
           /\ Goes(r, i, "pointer") /\ UNCHANGED <<retryTimer, mishaps>>
        \/ /\ here' = here /\ Goes(r, i, "done") /\ Mishap
           /\ retryTimer' \subseteq retryTimer \cup {<<o, i>>}
    BY <1>1 DEF Materialize, ReturnsAsRead, Arm
  <2> QED
    BY <2>2, <2>3, <2>4
<1>6. PICK s \in {"pointer", "done"} :
        /\ Moves(r, i, s, task[r].out[i])
        /\ \/ s = "pointer" /\ Entered(here, here', o, i, part) /\ Goes(r, i, "pointer")
              /\ (~HasTurn(here[o][i]) => part = {"worker"})
           \/ s = "done" /\ here' = here
  <2>1. TypeOK /\ {"done", "pointer"} \subseteq Stages
    BY DEF IInv, Stages
  <2>2. \A s \in {"done", "pointer"} : Goes(r, i, s) => Moves(r, i, s, task[r].out[i])
    BY <2>1, GoesTo
  <2> QED
    BY <1>5, <2>2
<1>7. /\ here' \in [Operations -> [Items -> Inputs]] /\ Only(here, here', o, i)
      /\ here'[o][i] \in {here[o][i], here[o][i] \cup part}
      /\ s = "pointer" => here'[o][i] = here[o][i] \cup part
      /\ \A p \in Operations, j \in Items : here[p][j] \subseteq here'[p][j]
  <2>1. here \in [Operations -> [Items -> Inputs]] /\ part \in Inputs
    BY DEF IInv, TypeOK, Inputs, Authors
  <2>2. CASE Entered(here, here', o, i, part)
    <3>1. o \in Operations /\ part \in Inputs /\ here \in [Operations -> [Items -> Inputs]]
      BY <1>2, <2>1
    <3>2. /\ here' \in [Operations -> [Items -> Inputs]] /\ Only(here, here', o, i)
          /\ here'[o][i] = here[o][i] \cup part
          /\ \A p \in Operations, j \in Items : here[p][j] \subseteq here'[p][j]
      BY <2>2, <3>1, Enters
    <3> QED
      BY <3>2
  <2>3. CASE here' = here /\ s = "done"
    BY <2>1, <2>3 DEF Only
  <2> QED
    BY <1>6, <2>2, <2>3
<1>8. TypeOK' /\ Counted
  <2>1. mishaps' = mishaps \/ Mishap
    BY <1>5
  <2>2. mishaps' \in 0..MaxMishaps
    BY <2>1, MishapType DEF IInv
  <2>3. retryTimer' \subseteq Operations \X Items
    BY <1>2, <1>5 DEF IInv, TypeOK
  <2> QED
    BY <1>4, <1>6, <1>7, <2>1, <2>2, <2>3 DEF IInv, TypeOK, Moves, Rs, past, Counted
<1>9. /\ Everywhere(o, i)' \in {Everywhere(o, i), Everywhere(o, i) \cup part}
      /\ \A p \in Operations, j \in Items : p # o \/ j # i =>
           Everywhere(p, j)' = Everywhere(p, j)
  BY <1>4, <1>7 DEF Everywhere, Only
<1>10. \A p \in Operations, j \in Items : Grown(p, j)
  BY <1>4, <1>9 DEF Grown, past
<1>11. \A p \in Operations, j \in Items : SamePair(p, j) \/ Sound(p, j)'
  <2>1. Accepting(o, i) /\ OneWriter(o, i)
    BY <1>2, Cells
  <2>2. Listed(o, i)'
    BY <1>2, <1>4, <1>10, ListKeeps DEF Active
  <2>3. Accepting(o, i)' /\ OneWriter(o, i)'
    <3>1. CASE part = {}
      <4>1. Everywhere(o, i)' = Everywhere(o, i)
        BY <1>9, <3>1
      <4> QED
        BY <1>4, <2>1, <4>1 DEF Accepting, OneWriter, past
    <3>2. CASE part = {"worker"}
      <4>1. "acceptor" \notin Everywhere(o, i) \/ <<o, i>> \in missed
        BY <1>3, <1>5, <3>2
      <4>2. "acceptor" \notin Everywhere(o, i)' \/ <<o, i>> \in missed'
        BY <1>4, <1>9, <3>2, <4>1 DEF past
      <4>3. OneWriter(o, i)'
        BY <4>2 DEF OneWriter, Authors
      <4>4. Accepting(o, i)'
        BY <1>3, <1>4, <2>1 DEF Accepting, past
      <4> QED
        BY <4>3, <4>4
    <3> QED
      BY <3>1, <3>2
  <2>4. Sound(o, i)'
    BY <2>2, <2>3 DEF Sound
  <2> QED
    BY <1>4, <1>9, <2>4 DEF SamePair, SameItem, NoTurn, Active
<1>12. InTask(r, i)' /\ (r = "main" => ToldAs(o, i, s, task[r].out[i]))
  <2>1. PICK y : y = task[r].out[i]
    OBVIOUS
  <2>2. ItemTrue(o, i, y)'
    BY <1>2, <1>3, <1>10, <2>1, TrueStays
  <2>3. Op(r)' = o /\ task'[r].at[i] = s /\ task'[r].out[i] = y
    BY <1>1, <1>6, <2>1 DEF Moves, Op
  <2>4. s = "pointer" => HasTurn(here'[o][i])
    BY <1>6, <1>7 DEF HasTurn, Authors
  <2>5. acceptor'[o][i] # "write" \/ <<o, i>> \in missed'
    BY <1>3, <1>4 DEF past
  <2> QED
    BY <1>3, <2>2, <2>3, <2>4, <2>5 DEF InTask, ItemTrue, ToldAs
<1>13. HereKept /\ \A p \in Operations : \A j \in Items : db[p].items[j] \in {"open", db'[p].items[j]}
  BY <1>4, <1>7 DEF HereKept
<1> QED
  BY <1>1, <1>2, <1>4, <1>6, <1>8, <1>10, <1>11, <1>12, <1>13, ItemKeeps DEF Stages

\* The worker writes the pointer to the turn of its replica.
LEMMA PointKeeps ==
  ASSUME IInv, NEW r \in Rs, NEW i \in Items, Point(r, i)
  PROVE  IInv'
<1>1. PICK o : o = Op(r)
  OBVIOUS
<1>2. /\ o \in Operations /\ InTask(r, i) /\ task[r].at[i] = "pointer"
      /\ task[r].out[i] \in ItemStates
      /\ At(r, i, "pointer") /\ (r = "main" => Told(i))
  BY <1>1, Item DEF Point, Stages
<1>3. /\ acceptor[o][i] # "write" \/ <<o, i>> \in missed
      /\ ItemTrue(o, i, task[r].out[i]) /\ HasTurn(here[o][i])
      /\ r = "main" => read[o][i] \in OpenItem
  BY <1>1, <1>2, Numbers DEF InTask, Told
<1>4. /\ wakes' = 1
      /\ UNCHANGED <<db, acceptor, there, sent, token, todo, read, timers, notified, bounds>>
  BY DEF Point, Wake
<1>5. /\ here' \in [Operations -> [Items -> Inputs]] /\ Only(here, here', o, i)
      /\ here'[o][i] = here[o][i] \cup {"pointer"}
      /\ \A p \in Operations, j \in Items : here[p][j] \subseteq here'[p][j]
  <2>1. here \in [Operations -> [Items -> Inputs]] /\ {"pointer"} \in Inputs
    BY DEF IInv, TypeOK, Inputs
  <2>2. Entered(here, here', o, i, {"pointer"})
    BY <1>1 DEF Point, Entered
  <2> QED
    BY <1>2, <2>1, <2>2, Enters
<1>6. PICK s \in {"markClaimed", "done"} : Moves(r, i, s, task[r].out[i])
  <2>1. TypeOK /\ {"done", "markClaimed"} \subseteq Stages
    BY DEF IInv, Stages
  <2>2. \A s \in {"done", "markClaimed"} : Goes(r, i, s) => Moves(r, i, s, task[r].out[i])
    BY <2>1, GoesTo
  <2> QED
    BY <2>2 DEF Point, ReturnsAsRead
<1>7. TypeOK'
  BY <1>4, <1>5, <1>6 DEF IInv, TypeOK, Moves, Rs, timers, bounds
<1>8. \A p \in Operations, j \in Items :
        Everywhere(p, j) \subseteq Everywhere(p, j)' /\ NoTurn(p, j)
  BY <1>4, <1>5 DEF Everywhere, Only, NoTurn, Authors
<1>9. \A p \in Operations, j \in Items : Grown(p, j) /\ SamePair(p, j)
  BY <1>4, <1>8 DEF Grown, SamePair, SameItem, NoTurn, Authors, Active, bounds
<1>10. InTask(r, i)' /\ (r = "main" => ToldAs(o, i, s, task[r].out[i]))
  <2>1. PICK y : y = task[r].out[i]
    OBVIOUS
  <2>2. ItemTrue(o, i, y)'
    BY <1>2, <1>3, <1>9, <2>1, TrueStays
  <2>3. Op(r)' = o /\ task'[r].at[i] = s /\ task'[r].out[i] = y
    BY <1>1, <1>6, <2>1 DEF Moves, Op
  <2>4. InputDurable(here'[o][i])
    BY <1>3, <1>5 DEF InputDurable, HasTurn
  <2>5. acceptor'[o][i] # "write" \/ <<o, i>> \in missed'
    BY <1>3, <1>4 DEF bounds
  <2> QED
    BY <1>3, <2>2, <2>3, <2>4, <2>5 DEF InTask, ItemTrue, ToldAs
<1>11. /\ HereKept /\ Counted
       /\ \A p \in Operations : \A j \in Items : db[p].items[j] \in {"open", db'[p].items[j]}
  BY <1>4, <1>5 DEF HereKept, Counted, bounds
<1> QED
  BY <1>1, <1>2, <1>4, <1>6, <1>7, <1>9, <1>10, <1>11, ItemKeeps DEF Stages

\* The coordinator claims only what is not the acceptor's, or takes it over from an
\* acceptor that it knows to be late.
LEMMA CheckKeeps ==
  ASSUME IInv, NEW r \in Rs, NEW i \in Items, Check(r, i)
  PROVE  IInv'
<1>1. PICK o : o = Op(r)
  OBVIOUS
<1>2. /\ o \in Operations /\ InTask(r, i) /\ task[r].at[i] = "check"
      /\ task[r].out[i] \in ItemStates
      /\ At(r, i, "check") /\ (r = "main" => Told(i))
  BY <1>1, Item DEF Check, Stages
<1>3. /\ ItemTrue(o, i, task[r].out[i])
      /\ r = "main" => task[r].out[i] = read[o][i]
  BY <1>1, <1>2, Numbers DEF InTask, Told
<1>4. UNCHANGED <<acceptor, docs, token, wakes, todo, read, deadlineTimer, late, mishaps, cancels,
                  trouble, lost>>
  BY DEF Check
<1>5. retryTimer' \subseteq Operations \X Items
  <2>1. retryTimer \subseteq Operations \X Items
    BY DEF IInv, TypeOK
  <2>2. retryTimer' \subseteq retryTimer \cup {<<o, i>>}
    BY <1>1 DEF Check, Arm, Disarm, TooLate
  <2> QED
    BY <1>2, <2>1, <2>2
<1>6. \/ NoWrite /\ Goes(r, i, "done")
      \/ NoWrite /\ Goes(r, i, "history") /\ task[r].out[i] = "durable"
      \/ NoWrite /\ Goes(r, i, "mark") /\ task[r].out[i] = "open" /\ InputDurable(here[o][i])
      \/ NoWrite /\ Returns(r, i, "timeout") /\ o \in late /\ task[r].out[i] = "open"
      \/ /\ Claimable(o, i) /\ Write(o, [db[o] EXCEPT !.claim[i] = token, !.lapsed[i] = FALSE])
         /\ Goes(r, i, "sync") /\ task[r].out[i] = "open"
  BY <1>1 DEF Check, ReturnsAsRead, TooLate, Late
<1>7. PICK s \in {"done", "history", "mark", "sync"}, x \in ItemStates :
        /\ Moves(r, i, s, x)
        /\ x = task[r].out[i] \/ (s = "done" /\ x = "timeout" /\ o \in late /\ task[r].out[i] = "open")
        /\ s = "history" => x = "durable"
        /\ s \in {"mark", "sync"} => x = "open"
        /\ s = "mark" => InputDurable(here[o][i])
        /\ \/ NoWrite /\ s # "sync"
           \/ s = "sync" /\ Claimable(o, i) /\ Write(o, [db[o] EXCEPT !.claim[i] = token, !.lapsed[i] = FALSE])
  <2>1. TypeOK /\ {"done", "history", "mark", "sync"} \subseteq Stages /\ "timeout" \in ItemStates
    BY DEF IInv, Stages, ItemStates
  <2>2. \A s \in {"done", "history", "mark", "sync"} : Goes(r, i, s) => Moves(r, i, s, task[r].out[i])
    BY <2>1, GoesTo
  <2>3. Returns(r, i, "timeout") => Moves(r, i, "done", "timeout")
    BY <2>1, ReturnsWith
  <2>4. task[r].out[i] \in ItemStates
    BY <1>2
  <2> DEFINE y == task[r].out[i]
             claims == Write(o, [db[o] EXCEPT !.claim[i] = token, !.lapsed[i] = FALSE])
  <2> HIDE DEF y, claims
  <2>5. y \in ItemStates /\ \A s \in {"done", "history", "mark", "sync"} : Goes(r, i, s) => Moves(r, i, s, y)
    BY <2>2, <2>4 DEF y
  <2>6. \/ NoWrite /\ Goes(r, i, "done")
        \/ NoWrite /\ Goes(r, i, "history") /\ y = "durable"
        \/ NoWrite /\ Goes(r, i, "mark") /\ y = "open" /\ InputDurable(here[o][i])
        \/ NoWrite /\ Returns(r, i, "timeout") /\ o \in late /\ y = "open"
        \/ Claimable(o, i) /\ claims /\ Goes(r, i, "sync") /\ y = "open"
    BY <1>6 DEF y, claims
  <2>7. \E s \in {"done", "history", "mark", "sync"}, x \in ItemStates :
          /\ Moves(r, i, s, x)
          /\ x = y \/ (s = "done" /\ x = "timeout" /\ o \in late /\ y = "open")
          /\ s = "history" => x = "durable"
          /\ s \in {"mark", "sync"} => x = "open"
          /\ s = "mark" => InputDurable(here[o][i])
          /\ (NoWrite /\ s # "sync") \/ (s = "sync" /\ Claimable(o, i) /\ claims)
    BY <2>1, <2>3, <2>5, <2>6
  <2> QED
    BY <2>7 DEF y, claims
<1>8. /\ db' \in [Operations -> Rows] /\ notified' \in BOOLEAN
      /\ db' = db \/ (Marked(o, i) /\ db'[o].items = db[o].items)
      /\ (db' = db /\ s # "sync") \/ acceptor[o][i] # "write" \/ <<o, i>> \in missed'
      /\ missed \subseteq missed' /\ missed' \subseteq Operations \X Items
  <2>0. /\ missed' = missed \cup {p \in {<<o, i>>} :
             task'[r].at[i] = "sync" /\ db[o].lapsed[i] /\ acceptor[o][i] = "write"}
        /\ missed \subseteq Operations \X Items
    BY <1>1 DEF Check, IInv, TypeOK
  <2>1. CASE NoWrite /\ s # "sync"
    BY <1>2, <2>0, <2>1 DEF IInv, TypeOK, NoWrite
  <2>2. CASE s = "sync" /\ Claimable(o, i) /\ Write(o, [db[o] EXCEPT !.claim[i] = token, !.lapsed[i] = FALSE])
    <3>1. db[o] \in Rows /\ token \in Tokens /\ 2 <= token /\ token \in Int /\ TypeOK
      BY <1>2, Numbers DEF IInv, TypeOK, Numbered, Tokens
    <3>2. PICK row : row = [db[o] EXCEPT !.claim[i] = token, !.lapsed[i] = FALSE]
      OBVIOUS
    <3>3. /\ row \in Rows /\ row.state = db[o].state /\ row.kind = db[o].kind
          /\ row.told = db[o].told /\ row.items = db[o].items
          /\ \A j \in Items \ {i} : row.claim[j] = db[o].claim[j]
      BY <3>1, <3>2 DEF Rows
    <3>4. /\ db' \in [Operations -> Rows] /\ db'[o] = row /\ Others(o)
          /\ notified' \in BOOLEAN
      BY <1>2, <2>2, <3>1, <3>2, <3>3, Writes
    <3>5. Marked(o, i) /\ db'[o].items = db[o].items
      BY <3>3, <3>4 DEF Marked, SameItem
    <3>7. acceptor[o][i] = "write" => db[o].lapsed[i] \/ <<o, i>> \in missed
      BY <1>2, <2>2, <3>1, Cells DEF Claimable, Accepting, Acceptor
    <3>8. acceptor[o][i] # "write" \/ <<o, i>> \in missed'
      BY <1>7, <2>0, <2>2, <3>7 DEF Moves
    <3> QED
      BY <1>2, <2>0, <3>4, <3>5, <3>8
  <2> QED
    BY <1>7, <2>1, <2>2
<1>9. TypeOK'
  BY <1>4, <1>5, <1>7, <1>8 DEF IInv, TypeOK, Moves, Rs, docs
<1>10. HereKept /\ \A p \in Operations, j \in Items : Grown(p, j) /\ NoTurn(p, j)
  BY <1>4, <1>8, StillGrown DEF HereKept, docs
<1>11. \A p \in Operations, j \in Items : SamePair(p, j) \/ Sound(p, j)'
  <2>1. CASE db' = db
    BY <1>4, <1>10, <2>1 DEF SamePair, SameItem, Active, docs
  <2>2. CASE /\ Marked(o, i) /\ db'[o].items = db[o].items
             /\ acceptor[o][i] # "write" \/ <<o, i>> \in missed'
    <3>1. Sound(o, i)'
      BY <1>2, <1>4, <1>10, <2>2, MarkedSound DEF docs
    <3> QED
      BY <1>2, <1>4, <1>10, <2>2, <3>1 DEF SamePair, Active, Marked, Others, SameItem, docs
  <2> QED
    BY <1>8, <2>1, <2>2
<1>12. InTask(r, i)' /\ (r = "main" => ToldAs(o, i, s, x))
  <2>1. Op(r)' = o /\ task'[r].at[i] = s /\ task'[r].out[i] = x /\ Op(r) = o
    BY <1>1, <1>7 DEF Moves, Op
  <2>2. ItemTrue(o, i, x) /\ Grown(o, i)
    BY <1>2, <1>3, <1>7, <1>10 DEF ItemTrue
  <2>3. ItemTrue(o, i, x)'
    BY <2>2, TrueStays
  <2>4. s = "history" => Written(o, i)'
    BY <1>7, <2>3 DEF ItemTrue
  <2>5. s = "sync" => acceptor'[o][i] # "write" \/ <<o, i>> \in missed'
    BY <1>4, <1>8
  <2> QED
    BY <1>3, <1>4, <1>7, <2>1, <2>3, <2>4, <2>5 DEF InTask, ItemTrue, ToldAs, OpenItem, docs
<1>13. \A p \in Operations :
         /\ db'[p].state = db[p].state /\ db'[p].kind = db[p].kind /\ db'[p].told = db[p].told
         /\ Active(p) \/ db'[p].items = db[p].items
         /\ \A j \in Items : db[p].items[j] \in {"open", db'[p].items[j]}
  BY <1>2, <1>8 DEF Marked, Others
<1>14. Counted
  BY <1>4 DEF Counted
<1> QED
  BY <1>1, <1>2, <1>4, <1>7, <1>9, <1>10, <1>11, <1>12, <1>13, <1>14, ItemKeeps DEF Stages

\* A failed item leaves the others to run on, or ends the Operation as an error.
LEMMA ItemFailsKeeps ==
  ASSUME IInv, NEW r \in Rs, NEW i \in Items, ItemFails(r, i)
  PROVE  IInv'
<1>1. PICK stage \in {"check", "history", "mark", "markClaimed"} : At(r, i, stage)
  BY DEF ItemFails
<1>2. PICK o : o = Op(r)
  OBVIOUS
<1>3. /\ o \in Operations /\ task[r].at[i] = stage /\ task[r].out[i] \in ItemStates
      /\ r = "main" => \A j \in Items : task["main"].at[j] # "finish"
  BY <1>1, <1>2, Item DEF Stages
<1>4. PICK t : t = [task[r] EXCEPT !.at[i] = "done"]
  OBVIOUS
<1>5. /\ task \in [Rs -> TaskRecords] /\ t \in TaskRecords /\ t.op = o
      /\ t.at[i] = "done" /\ t.out = task[r].out
      /\ \A j \in Items \ {i} : t.at[j] = task[r].at[j]
  <2>1. task \in [Rs -> TaskRecords]
    BY DEF IInv, TypeOK, Rs
  <2> QED
    BY <1>2, <1>4, <2>1 DEF TaskRecords, Stages, Op
<1>6. /\ mishaps' \in 0..MaxMishaps /\ trouble' \subseteq {"read", "store"}
      /\ UNCHANGED <<acceptor, docs, token, wakes, read, late, cancels, past>> /\ Counted
  <2>1. mishaps \in 0..MaxMishaps /\ trouble \subseteq {"read", "store"}
    BY DEF IInv, TypeOK
  <2>2. Mishap /\ \E what \in {"read", "store"} : trouble' = trouble \cup {what}
    BY DEF ItemFails
  <2> QED
    BY <2>1, <2>2, Numbers DEF ItemFails, Mishap, Counted
<1>7. CASE r = "stray" /\ task' = [task EXCEPT !["stray"] = t] /\ UNCHANGED <<db, notified, todo, timers>>
  <2>1. Moves("stray", i, "done", task[r].out[i])
    BY <1>2, <1>5, <1>7 DEF Moves, SameTask, Rs, Op
  <2>2. TypeOK'
    BY <1>5, <1>6, <1>7, <2>1 DEF IInv, TypeOK, Moves, Rs, docs, timers, past
  <2>3. InTask("stray", i)'
    <3>1. InTask(r, i)
      BY TaskCells
    <3> QED
      BY <1>2, <1>3, <1>6, <1>7, <2>1, <3>1, Numbers DEF InTask, ItemTrue, Written, Everywhere,
         Moves, Op, docs, past
  <2> QED
    BY <1>1, <1>3, <1>6, <1>7, <2>1, <2>2, <2>3, QuietKeeps DEF Stages, docs, past
<1>8. CASE /\ r = "main" /\ task' = [task EXCEPT !["main"] = Idle, !["stray"] = t]
           /\ todo' \subseteq Operations
           /\ deadlineTimer' \subseteq Operations /\ retryTimer' \subseteq Operations \X Items
           /\ db' \in [Operations -> Rows] /\ notified' \in BOOLEAN
           /\ db' = db \/ FinishedAs(o, "error", [j \in Items |-> "failed"])
  <2>1. /\ task' \in [Rs -> TaskRecords] /\ task'["main"].op = NoOperation /\ task'["stray"] = t
    BY <1>5, <1>8, IdleTask DEF Rs
  <2>2. TypeOK'
    BY <1>6, <1>8, <2>1 DEF IInv, TypeOK, Rs, docs, past
  <2>3. HereKept /\ \A p \in Operations, j \in Items : Grown(p, j) /\ NoTurn(p, j)
    BY <1>6, StillGrown DEF HereKept, docs, past
  <2>4. \A p \in Operations :
          /\ Active(p)' => Active(p) /\ db'[p].kind = db[p].kind
          /\ \A j \in Items : SameItem(p, j)
    BY <1>8 DEF SameItem, Active, Others, FinishedAs
  <2>5. Numbered'
    BY <1>6, <2>4, NumberedKeeps
  <2>6. \A p \in Operations, j \in Items : SamePair(p, j)
    BY <1>6, <2>3, <2>4 DEF SamePair, docs
  <2>7. \A j \in Items : InTask("stray", j)' /\ task'["stray"].at[j] # "finish"
    <3> SUFFICES ASSUME NEW j \in Items
                 PROVE  InTask("stray", j)' /\ task'["stray"].at[j] # "finish"
      OBVIOUS
    <3>1. InTask(r, j) /\ Grown(o, j)
      BY <1>3, <2>3, TaskCells
    <3>2. /\ Op("stray")' = o /\ task'["stray"].out[j] = task[r].out[j]
          /\ task'["stray"].at[j] \in {"done", task[r].at[j]}
      BY <1>5, <2>1 DEF Op
    <3>3. ItemTrue(o, j, task[r].out[j])
      BY <1>2, <1>3, <3>1, Numbers DEF InTask
    <3>4. PICK x : x = task[r].out[j]
      OBVIOUS
    <3>5. ItemTrue(o, j, x)'
      BY <3>1, <3>3, <3>4, TrueStays
    <3>6. task'["stray"].at[j] # "finish"
      BY <1>3, <1>8, <3>2
    <3>7. InTask("stray", j)'
      <4>1. Written(o, j)' = Written(o, j) /\ Everywhere(o, j)' = Everywhere(o, j)
        BY <1>6 DEF Written, Everywhere, docs, past
      <4> QED
        BY <1>2, <1>3, <1>6, <3>1, <3>2, <3>4, <3>5, <4>1, Numbers DEF InTask, docs, past
    <3> QED
      BY <3>6, <3>7
  <2>8. \A p \in Operations :
          \/ ResultTrue(p)'
          \/ /\ db'[p].kind = db[p].kind /\ db'[p].told = db[p].told
             /\ db'[p].items = db[p].items
    BY <1>3, <1>8 DEF ResultTrue, FinishedAs, Others
  <2> QED
    BY <2>1, <2>2, <2>3, <2>5, <2>6, <2>7, <2>8, Keeps DEF Rs
<1>9. /\ db \in [Operations -> Rows]
      /\ todo \subseteq Operations
      /\ deadlineTimer \subseteq Operations /\ retryTimer \subseteq Operations \X Items
      /\ notified \in BOOLEAN
  BY DEF IInv, TypeOK
<1>10. Write(o, Finished(o, "error", [j \in Items |-> "failed"])) =>
         /\ db' \in [Operations -> Rows] /\ notified' \in BOOLEAN
         /\ FinishedAs(o, "error", [j \in Items |-> "failed"])
  <2>1. [j \in Items |-> "failed"] \in Lists /\ TypeOK
    BY DEF IInv, Lists, ItemStates
  <2> QED
    BY <1>3, <2>1, Finishes
<1>11. \/ r = "stray" /\ task' = [task EXCEPT !["stray"] = t] /\ UNCHANGED <<db, notified, todo, timers>>
       \/ /\ r = "main" /\ task' = [task EXCEPT !["main"] = Idle, !["stray"] = t]
          /\ todo' = {} /\ UNCHANGED <<db, notified, timers>>
       \/ /\ r = "main" /\ task' = [task EXCEPT !["main"] = Idle, !["stray"] = t]
          /\ Write(o, Finished(o, "error", [j \in Items |-> "failed"]))
          /\ Forget(o) /\ UNCHANGED todo
  BY <1>2, <1>4 DEF ItemFails, GiveUp
<1> QED
  BY <1>7, <1>8, <1>9, <1>10, <1>11 DEF Forget, timers

\* What a failed reconciliation left running has ended.
LEMMA StrayEndsKeeps ==
  ASSUME IInv, StrayEnds
  PROVE  IInv'
<1>1. /\ task' \in [Rs -> TaskRecords]
      /\ task'["stray"].op = NoOperation /\ task'["main"] = task["main"]
      /\ UNCHANGED <<db, acceptor, here, there, sent, read, late, past>> /\ Counted
  <2>1. task \in [Rs -> TaskRecords] /\ task' = [task EXCEPT !["stray"] = Idle]
    BY DEF IInv, TypeOK, StrayEnds, Rs
  <2>2. UNCHANGED <<db, acceptor, here, there, sent, read, late, past>> /\ Counted
    BY DEF StrayEnds, docs, bounds, past, Counted
  <2> QED
    BY <2>1, <2>2, IdleTask DEF Rs
<1>2. TypeOK'
  BY <1>1, Numbers DEF IInv, TypeOK, StrayEnds, docs, timers, bounds, Rs
<1> QED
  BY <1>1, <1>2, WaitKeeps DEF TasksKept, SameTask, Rs

\* The list that is stored keeps what had ended, and is the stored one at the end.
LEMMA FoldKeeps ==
  ASSUME IInv, Fold
  PROVE  IInv'
<1>1. PICK o, out : o = Op("main") /\ out = task["main"].out
  OBVIOUS
<1>2. /\ o \in Operations /\ out \in Lists /\ TypeOK /\ task \in [Rs -> TaskRecords]
      /\ db[o] \in Rows /\ read[o] \in Lists
  BY <1>1, Numbers DEF Fold, AllDone, IInv, TypeOK, Rs, TaskRecords, Op
<1>3. \A j \in Items :
        /\ task["main"].at[j] = "done"
        /\ ItemTrue(o, j, out[j])
        /\ read[o][j] \notin OpenItem => out[j] = read[o][j]
        /\ Accepting(o, j) /\ OneWriter(o, j) /\ Listed(o, j)
  <2> SUFFICES ASSUME NEW j \in Items
               PROVE  /\ task["main"].at[j] = "done"
                      /\ ItemTrue(o, j, out[j])
                      /\ read[o][j] \notin OpenItem => out[j] = read[o][j]
                      /\ Accepting(o, j) /\ OneWriter(o, j) /\ Listed(o, j)
    OBVIOUS
  <2>1. InTask("main", j) /\ Told(j) /\ Accepting(o, j) /\ OneWriter(o, j) /\ Listed(o, j)
    BY <1>2, Cells, TaskCells, Numbers DEF IInv
  <2> QED
    BY <1>1, <1>2, <2>1, Numbers DEF InTask, Told, Fold, AllDone
<1>4. /\ mishaps' \in 0..MaxMishaps /\ trouble' \subseteq {"read", "store"}
      /\ todo' \subseteq Operations
      /\ UNCHANGED <<acceptor, docs, token, wakes, read, timers, late, cancels, past>> /\ Counted
  BY <1>2, Numbers DEF TypeOK, Fold, Mishap, GiveUp, Counted
<1>5. \/ UNCHANGED <<db, notified>>
      \/ Active(o) /\ Write(o, [db[o] EXCEPT !.items = out])
  BY <1>1 DEF Fold, NoWrite
<1>6. /\ db' \in [Operations -> Rows] /\ notified' \in BOOLEAN /\ Others(o)
      /\ db'[o].state = db[o].state /\ db'[o].kind = db[o].kind /\ db'[o].told = db[o].told
      /\ db'[o].claim = db[o].claim
      /\ db'[o].items = db[o].items \/ (Active(o) /\ db'[o].items = out)
  <2>1. CASE UNCHANGED <<db, notified>>
    BY <1>2, <2>1 DEF TypeOK, Others
  <2>2. CASE Active(o) /\ Write(o, [db[o] EXCEPT !.items = out])
    <3>1. PICK row : row = [db[o] EXCEPT !.items = out]
      OBVIOUS
    <3>2. /\ row \in Rows /\ row.state = db[o].state /\ row.kind = db[o].kind
          /\ row.told = db[o].told /\ row.claim = db[o].claim /\ row.lapsed = db[o].lapsed
          /\ row.items = out
      BY <1>2, <3>1 DEF Rows
    <3> QED
      BY <1>2, <2>2, <3>1, <3>2, Writes
  <2> QED
    BY <1>5, <2>1, <2>2
<1>7. PICK t : t = [task["main"] EXCEPT !.at = [j \in Items |-> "finish"]]
  OBVIOUS
<1>8. /\ t \in TaskRecords /\ t.op = o /\ t.out = out
      /\ \A j \in Items : t.at[j] = "finish"
  BY <1>1, <1>2, <1>7, Numbers DEF TaskRecords, Stages, Op
<1>9. \/ task' = [task EXCEPT !["main"] = Idle]
      \/ /\ task' = [task EXCEPT !["main"] = t]
         /\ \A j \in Items : out[j] \notin OpenItem
         /\ \/ Active(o) /\ db'[o].items = out
            \/ ~Active(o) \/ out = read[o]
  <2>1. Write(o, [db[o] EXCEPT !.items = out]) => db'[o].items = out
    BY <1>2 DEF Write, TypeOK, Rows
  <2> QED
    BY <1>1, <1>7, <2>1 DEF Fold, GiveUp
<1>10. HereKept /\ \A p \in Operations, j \in Items : Grown(p, j) /\ NoTurn(p, j)
  BY <1>4, StillGrown DEF HereKept, docs, past
<1>11. \A p \in Operations, j \in Items : SamePair(p, j) \/ Sound(p, j)'
  <2>1. ASSUME NEW j \in Items, db'[o].items = out, Active(o)
        PROVE  Sound(o, j)'
    <3>1. Accepting(o, j)' /\ OneWriter(o, j)'
      BY <1>3, <1>4, <1>6, <2>1 DEF Accepting, OneWriter, OpenItem, Everywhere, docs, past
    <3>2. Listed(o, j)'
      <4>1. PICK x, y : x = out[j] /\ y = read[o][j]
        OBVIOUS
      <4>2. ItemTrue(o, j, x)' /\ ItemTrue(o, j, y)'
        BY <1>2, <1>3, <1>10, <4>1, TrueStays DEF Listed
      <4> QED
        BY <1>3, <1>4, <2>1, <4>1, <4>2 DEF Listed
    <3> QED
      BY <3>1, <3>2 DEF Sound
  <2> QED
    BY <1>4, <1>6, <1>10, <2>1 DEF SamePair, SameItem, Active, Others, docs
<1>12. Numbered'
  BY <1>4, <1>6, NumberedKeeps DEF Active, Others
<1>13. TypeOK'
  <2>1. task' \in [Rs -> TaskRecords]
    BY <1>2, <1>8, <1>9, IdleTask DEF Rs
  <2> QED
    BY <1>2, <1>4, <1>6, <2>1 DEF TypeOK, Rs, docs, timers, past
<1>14. \A p \in Operations :
         /\ db'[p].kind = db[p].kind /\ db'[p].told = db[p].told
         /\ Active(p) \/ db'[p].items = db[p].items
  BY <1>6 DEF Others
<1>15. task'["stray"] = task["stray"]
  BY <1>2, <1>9 DEF Rs
<1>16. CASE task' = [task EXCEPT !["main"] = Idle]
  <2>1. task'["main"].op = NoOperation
    BY <1>2, <1>16, IdleTask DEF Rs
  <2> QED
    BY <1>10, <1>11, <1>12, <1>13, <1>14, <1>15, <2>1, Keeps DEF SameTask, Rs
<1>17. CASE /\ task' = [task EXCEPT !["main"] = t]
            /\ \A j \in Items : out[j] \notin OpenItem
            /\ \/ Active(o) /\ db'[o].items = out
               \/ ~Active(o) \/ out = read[o]
  <2>1. task'["main"] = t
    BY <1>2, <1>17 DEF Rs
  <2>2. \A j \in Items : InTask("main", j)'
    <3> SUFFICES ASSUME NEW j \in Items
                 PROVE  InTask("main", j)'
      OBVIOUS
    <3>1. PICK x : x = out[j]
      OBVIOUS
    <3>2. ItemTrue(o, j, x)'
      BY <1>2, <1>3, <1>10, <3>1, TrueStays
    <3> QED
      BY <1>8, <2>1, <3>1, <3>2 DEF InTask, Op
  <2>3. \A j \in Items : Told(j)'
    <3> SUFFICES ASSUME NEW j \in Items
                 PROVE  Told(j)'
      OBVIOUS
    <3>1. Active(o)' => db'[o].items[j] = out[j]
      <4>1. Active(o)' => Active(o)
        BY <1>6 DEF Active
      <4>2. CASE db'[o].items = out
        BY <4>2
      <4>3. CASE out = read[o] /\ db'[o].items = db[o].items
        BY <1>3, <1>17, <4>1, <4>3 DEF Listed
      <4> QED
        BY <1>6, <1>17, <4>1, <4>2, <4>3
    <3>2. read' = read
      BY <1>4
    <3> QED
      BY <1>3, <1>8, <1>17, <2>1, <3>1, <3>2 DEF Told, Op
  <2> QED
    BY <1>10, <1>11, <1>12, <1>13, <1>14, <1>15, <2>2, <2>3, Keeps DEF SameTask, Rs
<1> QED
  BY <1>9, <1>16, <1>17

\* The result tells the list that was stored.
LEMMA FinishOperationKeeps ==
  ASSUME IInv, FinishOperation
  PROVE  IInv'
<1>1. PICK o, out : o = Op("main") /\ out = task["main"].out
  OBVIOUS
<1>2. /\ o \in Operations /\ out \in Lists /\ TypeOK /\ task \in [Rs -> TaskRecords]
      /\ db[o] \in Rows
  <2>1. PICK i \in Items : At("main", i, "finish")
    BY ReconcileAssumption DEF FinishOperation
  <2> QED
    BY <1>1, <2>1, Numbers DEF At, IInv, TypeOK, Rs, TaskRecords, Op
<1>3. \A j \in Items :
        /\ ItemTrue(o, j, out[j]) /\ out[j] \notin OpenItem
        /\ Active(o) => db[o].items[j] = out[j]
  <2> SUFFICES ASSUME NEW j \in Items
               PROVE  /\ ItemTrue(o, j, out[j]) /\ out[j] \notin OpenItem
                      /\ Active(o) => db[o].items[j] = out[j]
    OBVIOUS
  <2>1. InTask("main", j) /\ Told(j) /\ task["main"].at[j] = "finish"
    BY TaskCells, Numbers DEF IInv, FinishOperation, At
  <2> QED
    BY <1>1, <1>2, <2>1, Numbers DEF InTask, Told
<1>4. /\ mishaps' \in 0..MaxMishaps /\ trouble' \subseteq {"read", "store"}
      /\ todo' \subseteq Operations
      /\ deadlineTimer' \subseteq Operations /\ retryTimer' \subseteq Operations \X Items
      /\ UNCHANGED <<acceptor, docs, token, wakes, read, late, cancels, past>> /\ Counted
  <2>1. /\ mishaps \in 0..MaxMishaps /\ trouble \subseteq {"read", "store"}
        /\ todo \subseteq Operations
        /\ deadlineTimer \subseteq Operations /\ retryTimer \subseteq Operations \X Items
    BY <1>2 DEF TypeOK
  <2>2. deadlineTimer' \subseteq deadlineTimer /\ retryTimer' \subseteq retryTimer
    BY DEF FinishOperation, Forget, timers
  <2>3. /\ (mishaps' = mishaps /\ trouble' = trouble) \/ (Mishap /\ trouble' = trouble \cup {"store"})
        /\ todo' = todo \/ todo' = {}
    BY DEF FinishOperation, GiveUp
  <2>4. mishaps' \in 0..MaxMishaps /\ trouble' \subseteq {"read", "store"}
    <3>1. mishaps' \in 0..MaxMishaps
      BY <2>1, <2>3, Numbers DEF Mishap
    <3>2. trouble' \subseteq {"read", "store"}
      BY <2>1, <2>3
    <3> QED
      BY <3>1, <3>2
  <2>5. UNCHANGED <<acceptor, docs, token, wakes, read, late, cancels, past>> /\ Counted
    BY <2>3 DEF FinishOperation, Counted
  <2> QED
    BY <2>1, <2>2, <2>3, <2>4, <2>5
<1>5. /\ task' \in [Rs -> TaskRecords] /\ task'["main"].op = NoOperation
      /\ task'["stray"] = task["stray"]
  BY <1>2, IdleTask DEF FinishOperation, GiveUp, Rs
<1>6. db' \in [Operations -> Rows] /\ notified' \in BOOLEAN /\ (db' = db \/ FinishedAs(o, "result", out))
  <2>1. CASE UNCHANGED <<db, notified>>
    BY <1>2, <2>1 DEF TypeOK
  <2>2. CASE Write(o, Finished(o, "result", out))
    BY <1>2, <2>2, Finishes
  <2> QED
    BY <1>1, <2>1, <2>2 DEF FinishOperation, NoWrite
<1>7. HereKept /\ \A p \in Operations, j \in Items : Grown(p, j) /\ NoTurn(p, j)
  BY <1>4, StillGrown DEF HereKept, docs, past
<1>8. \A p \in Operations :
        /\ Active(p)' => Active(p) /\ db'[p].kind = db[p].kind
        /\ \A j \in Items : SameItem(p, j)
  BY <1>6 DEF SameItem, Active, Others, FinishedAs
<1>9. \A p \in Operations, j \in Items : SamePair(p, j)
  BY <1>4, <1>7, <1>8 DEF SamePair, docs
<1>10. Numbered'
  BY <1>4, <1>8, NumberedKeeps
<1>11. TypeOK'
  BY <1>2, <1>4, <1>5, <1>6 DEF TypeOK, Rs, docs, past
<1>12. \A p \in Operations :
         \/ ResultTrue(p)'
         \/ /\ db'[p].kind = db[p].kind /\ db'[p].told = db[p].told
            /\ db'[p].items = db[p].items
  <2>1. ASSUME Active(o), FinishedAs(o, "result", out)
        PROVE  ResultTrue(o)'
    <3>1. db[o].items = out
      BY <1>2, <1>3, <2>1 DEF Rows, Lists
    <3>2. db'[o].kind = "result" /\ db'[o].told = out /\ db'[o].items = out
      BY <2>1, <3>1 DEF FinishedAs
    <3>3. \A j \in Items :
            /\ out[j] \notin OpenItem
            /\ out[j] \in {"succeeded", "cancelled"} =>
                 out[j] \in Everywhere(o, j)' \/ <<o, j>> \in lost'
            /\ out[j] = "timeout" => o \in late'
      BY <1>2, <1>3, <1>4, <1>7 DEF ItemTrue, Grown
    <3> QED
      BY <3>2, <3>3 DEF ResultTrue
  <2> QED
    BY <1>2, <1>6, <2>1 DEF FinishedAs, Others
<1> QED
  BY <1>5, <1>7, <1>9, <1>10, <1>11, <1>12, Keeps DEF SameTask, Rs

-----------------------------------------------------------------------------
(* The whole                                                               *)

\* A new worker has a token of its own and no tasks, and the documents as saved.
LEMMA RestartKeeps ==
  ASSUME IInv, Restart
  PROVE  IInv'
<1>1. /\ token' = token + 1 /\ mishaps' = mishaps + 1 /\ mishaps < MaxMishaps
      /\ UNCHANGED <<db, acceptor, there, sent, read, late, cancels, trouble, missed>>
      /\ wakes' = 1 /\ todo' = {} /\ deadlineTimer' = {} /\ retryTimer' = {}
  BY DEF Restart, Mishap
<1>2. task' \in [Rs -> TaskRecords] /\ \A r \in Rs : task'[r].op = NoOperation
  <2>1. DOMAIN task = Rs
    BY DEF IInv, TypeOK, Rs
  <2> QED
    BY <2>1, IdleTask DEF Restart
<1>3. notified' \in BOOLEAN
  <2>1. notified' = FALSE
    BY Zenon DEF Restart
  <2> QED
    BY <2>1, Zenon
<1>4. /\ token \in Int /\ mishaps \in Int /\ 0 <= mishaps /\ 2 <= token /\ token <= 2 + mishaps
      /\ TypeOK /\ Numbered
  BY Numbers DEF IInv, TypeOK, Numbered, Tokens
<1>5. token' \in Tokens /\ mishaps' \in 0..MaxMishaps
  BY <1>1, <1>4, Numbers DEF Tokens
<1>6. /\ here' \in [Operations -> [Items -> Inputs]]
      /\ \A p \in Operations, j \in Items : here'[p][j] \subseteq here[p][j]
  BY DEF Restart, Savable
<1>7. lost' \subseteq Operations \X Items /\ lost \subseteq lost'
  BY <1>4 DEF TypeOK, Restart, Loses
<1>8. TypeOK'
  BY <1>1, <1>2, <1>3, <1>4, <1>5, <1>6, <1>7 DEF TypeOK, Rs
<1>9. Numbered'
  BY <1>1, <1>4, Numbers DEF Numbered, Active
<1>10. \A p \in Operations, j \in Items :
         /\ Everywhere(p, j)' \subseteq Everywhere(p, j)
         /\ Everywhere(p, j)' = Everywhere(p, j) \/ <<p, j>> \in lost'
  <2>1. \A p \in Operations, j \in Items : Everywhere(p, j)' \subseteq Everywhere(p, j)
    BY <1>1, <1>6 DEF Everywhere
  <2>2. lost' = lost \cup {p \in Operations \X Items :
                             Everywhere(p[1], p[2])' # Everywhere(p[1], p[2])}
    BY DEF Restart, Loses
  <2> QED
    BY <2>1, <2>2
<1>11. \A p \in Operations, j \in Items : Grown(p, j) /\ SamePair(p, j)
  BY <1>1, <1>7, <1>10 DEF Grown, SamePair, SameItem, NoTurn, Active
<1> QED
  BY <1>1, <1>2, <1>8, <1>9, <1>11, Keeps DEF Rs

\* The invariant holds after accept().
LEMMA InitKeeps ==
  ASSUME Init
  PROVE  IInv
<1>1. PICK items \in [Operations -> [Items -> {"open", "failed"}]] :
        /\ db = [o \in Operations |-> Accepted(items[o])]
        /\ acceptor = [o \in Operations |-> [i \in Items |->
             IF items[o][i] = "open" THEN "write"
             ELSE IF \A j \in Items : items[o][j] = "failed" THEN "rejected" ELSE "done"]]
        /\ read = items
  BY DEF Init
<1>2. /\ here = [o \in Operations |-> [i \in Items |-> {}]] /\ there = here /\ sent = here
      /\ token = 2 /\ wakes = 1 /\ todo = {} /\ task = [r \in Rs |-> Idle]
      /\ deadlineTimer = {} /\ retryTimer = {}
      /\ late = {} /\ mishaps = 0 /\ cancels = 0 /\ trouble = {} /\ missed = {} /\ lost = {}
  BY DEF Init, Rs
<1>3. notified \in BOOLEAN
  <2>1. notified = FALSE
    BY Zenon DEF Init
  <2> QED
    BY <2>1, Zenon
<1>4. \A o \in Operations :
        LET row == Accepted(items[o]) IN
        /\ row \in Rows /\ row.state = "active" /\ row.kind = "none" /\ row.items = items[o]
        /\ \A i \in Items : /\ row.claim[i] = IF items[o][i] = "open" THEN Acceptor ELSE 0
                            /\ row.lapsed[i] = FALSE
  <2> SUFFICES ASSUME NEW o \in Operations
               PROVE  LET row == Accepted(items[o]) IN
                      /\ row \in Rows /\ row.state = "active" /\ row.kind = "none"
                      /\ row.items = items[o]
                      /\ \A i \in Items : /\ row.claim[i] = IF items[o][i] = "open" THEN Acceptor ELSE 0
                                          /\ row.lapsed[i] = FALSE
    OBVIOUS
  <2>1. items[o] \in Lists
    BY <1>1 DEF Lists, ItemStates, OpenItem
  <2>2. Acceptor \in Tokens /\ 0 \in Tokens
    BY Numbers DEF Acceptor, Tokens
  <2> QED
    BY <2>1, <2>2 DEF Accepted, Rows
<1>5. TypeOK
  <2>1. db \in [Operations -> Rows] /\ read \in [Operations -> Lists]
    BY <1>1, <1>4 DEF Lists, ItemStates, OpenItem
  <2>2. {} \in Inputs
    BY DEF Inputs
  <2>3. acceptor \in [Operations -> [Items -> WriterStages]]
    BY <1>1 DEF WriterStages
  <2>4. /\ here \in [Operations -> [Items -> Inputs]] /\ there \in [Operations -> [Items -> Inputs]]
        /\ sent \in [Operations -> [Items -> Inputs]]
    BY <1>2, <2>2
  <2>5. /\ token \in Tokens /\ mishaps \in 0..MaxMishaps
        /\ cancels \in 0..MaxCancels
    BY <1>2, Numbers DEF Tokens
  <2>6. task \in [Rs -> TaskRecords]
    BY <1>2, IdleTask
  <2> QED
    BY <1>2, <1>3, <2>1, <2>3, <2>4, <2>5, <2>6 DEF TypeOK, Rs, WriterStages
<1>6. Numbered
  BY <1>1, <1>2, <1>4 DEF Numbered
<1>7. ASSUME NEW o \in Operations, NEW i \in Items
      PROVE  Sound(o, i)
  <2>1. /\ Everywhere(o, i) = {}
        /\ items[o][i] \in {"open", "failed"}
        /\ db[o].items[i] = items[o][i] /\ read[o][i] = items[o][i]
        /\ db[o].claim[i] = (IF items[o][i] = "open" THEN Acceptor ELSE 0)
    BY <1>1, <1>2, <1>4 DEF Everywhere
  <2>2. acceptor[o][i] = IF items[o][i] = "open" THEN "write"
                         ELSE IF \A j \in Items : items[o][j] = "failed" THEN "rejected" ELSE "done"
    BY <1>1
  <2>3. Accepting(o, i)
    BY <2>1, <2>2 DEF Accepting
  <2>4. OneWriter(o, i) /\ Listed(o, i)
    BY <2>1 DEF OneWriter, Authors, Listed, ItemTrue, OpenItem
  <2> QED
    BY <2>3, <2>4 DEF Sound
<1>8. \A r \in Rs : Op(r) = NoOperation
  BY <1>2, IdleTask DEF Op
<1>9. \A o \in Operations : ResultTrue(o)
  BY <1>1, <1>4 DEF ResultTrue
<1> QED
  BY <1>5, <1>6, <1>7, <1>8, <1>9 DEF IInv, InTask, Told, Rs

\* Every step keeps the invariant.
LEMMA StepKeeps ==
  ASSUME IInv, [Next]_vars
  PROVE  IInv'
<1>1. ASSUME NEW r \in Rs, NEW i \in Items, ItemStep(r, i)
      PROVE  IInv'
  BY <1>1, CheckKeeps, SyncKeeps, MaterializeKeeps, PointKeeps, MarkKeeps,
     HistoryKeeps DEF ItemStep
<1>2. CASE MainStep
  BY <1>1, <1>2, StartReconcileKeeps, StartOperationKeeps, FoldKeeps,
     FinishOperationKeeps DEF MainStep, Rs
<1>3. CASE StrayStep
  BY <1>1, <1>3, StrayEndsKeeps DEF StrayStep, Rs
<1>4. CASE \E r \in DOMAIN task, i \in Items : ItemFails(r, i)
  <2>1. DOMAIN task = Rs
    BY DEF IInv, TypeOK, Rs
  <2> QED
    BY <1>4, <2>1, ItemFailsKeeps
<1>5. ASSUME NEW o \in Operations, AcceptorStep(o)
      PROVE  IInv'
  BY <1>5, AcceptorWritesKeeps, AcceptorPointsKeeps, AcceptorMarksKeeps,
     AcceptorFinishesKeeps DEF AcceptorStep
<1>6. ASSUME NEW o \in Operations,
             \/ AcceptorEnds(o) \/ Cancel(o) \/ DeadlinePasses(o) \/ DeadlineTimer(o)
             \/ \E i \in Items : Arrive(o, i) \/ RunEnds(o, i) \/ RetryTimer(o, i) \/ Lapse(o, i)
      PROVE  IInv'
  BY <1>6, AcceptorEndsKeeps, CancelKeeps, DeadlinePassesKeeps, DeadlineTimerKeeps, ArriveKeeps,
     RunEndsKeeps, RetryTimerKeeps, LapseKeeps
<1>7. CASE UNCHANGED vars
  <2>1. UNCHANGED <<db, late, acceptor, here, there, sent, token, wakes, todo, read, task,
                    deadlineTimer, retryTimer, notified, mishaps, cancels, trouble, missed, lost>>
    BY <1>7 DEF vars, docs, chain, timers, bounds
  <2>2. TypeOK'
    BY <2>1 DEF IInv, TypeOK
  <2>3. Numbered' /\ HereKept
    BY <2>1 DEF IInv, Numbered, Active, HereKept
  <2>4. \A p \in Operations, j \in Items : Grown(p, j) /\ SamePair(p, j)
    BY <2>1, StillGrown DEF SamePair, SameItem, Active
  <2>5. \A r \in Rs, i \in Items : SameTask(r, i)
    BY <2>1 DEF SameTask
  <2> QED
    BY <2>1, <2>2, <2>3, <2>4, <2>5, Keeps DEF Active, Rs
<1> QED
  BY <1>2, <1>3, <1>4, <1>5, <1>6, <1>7, StoreWatchKeeps, RestartKeeps DEF Next

\* The inductive invariant holds in every reachable state.
THEOREM Invariant == Spec => []IInv
<1>1. Init => IInv
  BY InitKeeps
<1>2. IInv /\ [Next]_vars => IInv'
  BY StepKeeps
<1> QED
  BY <1>1, <1>2, PTL DEF Spec

\* Every variable has its type.
THEOREM Types == Spec => []TypeOK
<1>1. IInv => TypeOK
  BY DEF IInv
<1> QED
  BY <1>1, Invariant, PTL

\* InputWrittenOnce: the acceptor and the worker both append the turn of an item only
\* when the worker took the claim over from an acceptor that was still to write, or
\* caught up before the acceptor's turn had been pushed.
THEOREM WrittenOnce == Spec => []InputWrittenOnce
<1>1. IInv => InputWrittenOnce
  BY Cells DEF InputWrittenOnce, OneWriter
<1> QED
  BY <1>1, Invariant, PTL

\* DurableIsWritten: an item that the store calls durable or ended has its turn and
\* pointer written, or an ended process had the only copy of a part.
THEOREM Durably == Spec => []DurableIsWritten
<1>1. IInv => DurableIsWritten
  BY Cells DEF DurableIsWritten, Listed, ItemTrue, Written
<1> QED
  BY <1>1, Invariant, PTL

\* ResultIsTrue: a result tells the items as stored, ends as the targets ended, and a
\* timeout only after the deadline.
THEOREM TrueResults == Spec => []ResultIsTrue
<1>1. IInv => ResultIsTrue
  BY DEF IInv, ResultTrue, ResultIsTrue
<1> QED
  BY <1>1, Invariant, PTL

=============================================================================
