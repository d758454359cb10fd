---------------------------- MODULE OutboxProofs ----------------------------
(***************************************************************************)
(* What Outbox guarantees for every set of reports and contents, every     *)
(* number of concurrent dispatches, posts, attempts, crashes and errors:   *)
(* its types, one sender per report, no post for a report whose outcome    *)
(* was told, and that it implements the ledger of reports.                 *)
(***************************************************************************)
EXTENDS Outbox, TLAPS

-----------------------------------------------------------------------------
(* The table of transitions, and what one does to an item. *)

LEMMA Table ==
  /\ Transitions \in [States -> SUBSET States]
  /\ Transitions["SENDING"] = {"RETRY_WAIT", "SENT", "FAILED_PERMANENT"}
  /\ \A s \in States : "SENDING" \in Transitions[s] => s = "VALIDATED"
  /\ \A s \in States : "VALIDATED" \in Transitions[s] => s \in {"PENDING", "RETRY_WAIT"}
  /\ \A s \in Final : Transitions[s] = {}
  BY DEF Transitions, States, Final

LEMMA MovedItem ==
  ASSUME NEW item \in Items, NEW state \in States
  PROVE  /\ Moved(item, state) \in Items
         /\ Moved(item, state).state = state
         /\ Moved(item, state).content = item.content
<1> DEFINE attempts == IF state = "SENDING" THEN item.attempts + 1 ELSE item.attempts
<1>1. attempts \in Nat
  BY DEF Items
<1>2. Moved(item, state) = [item EXCEPT !.state = state, !.attempts = attempts]
  BY DEF Moved
<1> HIDE DEF attempts
<1>3. QED
  BY <1>1, <1>2 DEF Items

\* Recovery leaves content alone and ends every SENDING.
LEMMA RecoveredItem ==
  ASSUME NEW item \in Items \cup {None}
  PROVE  /\ Recovered(item) \in Items \cup {None}
         /\ Recovered(item) = None <=> item = None
         /\ item # None =>
              /\ Recovered(item).content = item.content
              /\ item.state # "SENDING" => Recovered(item) = item
              /\ item.state = "SENDING" => Recovered(item).state = "RETRY_WAIT"
<1>1. CASE item = None
  BY <1>1 DEF Recovered
<1>2. CASE item # None
  <2>1. item \in Items /\ "RETRY_WAIT" \in States
    BY <1>2 DEF States
  <2>2. QED
    BY <1>2, <2>1, MovedItem, NoneAssumption DEF Recovered
<1>3. QED
  BY <1>1, <1>2

\* A stage is never that of the idle task.
LEMMA Busy ==
  ASSUME TypeOK, NEW t \in Tasks, tasks[t].at \in Stages
  PROVE  tasks[t] \in Dispatches
  BY DEF TypeOK, Idle, Stages

-----------------------------------------------------------------------------
(* Types.  A dispatch only ever holds a report the record knows, which TypeOK  *)
(* does not say and every transition relies on.                                *)

Known == \A t \in Tasks : tasks[t].at \in Stages => items[tasks[t].id] # None

TypeInv == TypeOK /\ Known

\* A transition of the outbox, legal or not: the record keeps its other items
\* and the contents of this one, and the task moves on or ends.
LEMMA TransitionStep ==
  ASSUME TypeInv, NEW t \in Tasks, tasks[t].at \in Stages,
         NEW state \in States, NEW next \in {Idle} \cup Dispatches,
         Transition(t, state, next)
  PROVE  /\ items' \in [Ids -> Items \cup {None}]
         /\ tasks' \in [Tasks -> {Idle} \cup Dispatches]
         /\ \A j \in Ids : j # tasks[t].id => items'[j] = items[j]
         /\ \A j \in Ids : items'[j] = None <=> items[j] = None
         /\ \A j \in Ids : items[j] # None => items'[j].content = items[j].content
         /\ \A u \in Tasks : u # t => tasks'[u] = tasks[u]
         /\ \/ /\ Legal(items[tasks[t].id], state)
               /\ tasks'[t] = next
               /\ items'[tasks[t].id] = Moved(items[tasks[t].id], state)
               /\ items'[tasks[t].id].state = state
            \/ /\ ~Legal(items[tasks[t].id], state)
               /\ tasks'[t] = Idle
               /\ items' = items
<1> DEFINE i == tasks[t].id
           m == Moved(items[i], state)
<1>1. i \in Ids /\ items[i] \in Items /\ items[i] # None
  BY Busy DEF TypeInv, TypeOK, Known, Dispatches
<1>2. m \in Items /\ m.state = state /\ m.content = items[i].content
  BY <1>1, MovedItem
<1>3. m # None
  BY <1>2, NoneAssumption
<1>4. CASE Legal(items[i], state)
  <2>1. items' = [items EXCEPT ![i] = m] /\ tasks' = [tasks EXCEPT ![t] = next]
    BY <1>4 DEF Transition
  <2> HIDE DEF i, m
  <2>2. QED
    BY <2>1, <1>1, <1>2, <1>3, <1>4 DEF TypeInv, TypeOK, i, m
<1>5. CASE ~Legal(items[i], state)
  <2>1. items' = items /\ tasks' = [tasks EXCEPT ![t] = Idle]
    BY <1>5 DEF Transition
  <2>2. QED
    BY <2>1, <1>1, <1>5 DEF TypeInv, TypeOK
<1>6. QED
  BY <1>4, <1>5

\* Steps of a call change the stage, the answer or the count of one dispatch.
LEMMA SettlesStep ==
  ASSUME TypeInv, NEW t \in Tasks, tasks[t].at \in Stages,
         NEW state \in Transitions["SENDING"], Settles(t, state)
  PROVE  /\ tasks' \in [Tasks -> {Idle} \cup Dispatches]
         /\ \A u \in Tasks : u # t => tasks'[u] = tasks[u]
         /\ tasks'[t].at = "settle" /\ tasks'[t].result = state
         /\ tasks'[t].id = tasks[t].id /\ tasks'[t].item = tasks[t].item
<1>1. tasks[t] \in Dispatches /\ tasks \in [Tasks -> {Idle} \cup Dispatches]
  BY Busy DEF TypeInv, TypeOK
<1> DEFINE next == [tasks[t] EXCEPT !.at = "settle", !.result = state]
<1>2. /\ next \in Dispatches /\ next.at = "settle" /\ next.result = state
      /\ next.id = tasks[t].id /\ next.item = tasks[t].item
  BY <1>1 DEF Dispatches, Stages
<1>3. tasks' = [tasks EXCEPT ![t] = next]
  BY <1>1 DEF Settles
<1> HIDE DEF next
<1>4. QED
  BY <1>1, <1>2, <1>3

LEMMA BackToCall ==
  ASSUME TypeInv, NEW t \in Tasks, tasks[t].at \in Stages,
         tasks' = [tasks EXCEPT ![t].at = "call"]
  PROVE  /\ tasks' \in [Tasks -> {Idle} \cup Dispatches]
         /\ \A u \in Tasks : u # t => tasks'[u] = tasks[u]
         /\ tasks'[t].at = "call"
         /\ tasks'[t].id = tasks[t].id /\ tasks'[t].item = tasks[t].item
<1>1. tasks[t] \in Dispatches /\ tasks \in [Tasks -> {Idle} \cup Dispatches]
  BY Busy DEF TypeInv, TypeOK
<1> DEFINE next == [tasks[t] EXCEPT !.at = "call"]
<1>2. /\ next \in Dispatches /\ next.at = "call"
      /\ next.id = tasks[t].id /\ next.item = tasks[t].item
  BY <1>1 DEF Dispatches, Stages
<1> HIDE DEF next
<1>3. QED
  BY <1>1, <1>2 DEF next

LEMMA PostStep ==
  ASSUME TypeInv, NEW t \in Tasks, Post(t)
  PROVE  /\ tasks' \in [Tasks -> {Idle} \cup Dispatches]
         /\ \A u \in Tasks : u # t => tasks'[u] = tasks[u]
         /\ tasks'[t].at = "posted" /\ tasks'[t].try # 0
         /\ tasks'[t].id = tasks[t].id /\ tasks'[t].item = tasks[t].item
         /\ posts' \subseteq Posts
         /\ \A p \in posts' \ posts :
              p.id = tasks[t].id /\ p.content = tasks[t].item.content
<1> DEFINE try == tasks[t].try + 1
           next == [tasks[t] EXCEPT !.at = "posted", !.try = try]
<1>1. tasks[t] \in Dispatches /\ tasks \in [Tasks -> {Idle} \cup Dispatches]
  BY Busy DEF TypeInv, TypeOK, Post, Stages
<1>2. try \in 1..MaxTries /\ try \in 0..MaxTries
  BY <1>1, BoundsAssumption DEF Post, Dispatches
<1>3. tasks' = [tasks EXCEPT ![t] = next] /\ posts' = posts \cup {PostOf(next)}
  BY DEF Post
<1> HIDE DEF try
<1>4. /\ next \in Dispatches /\ next.at = "posted" /\ next.try \in 1..MaxTries
      /\ next.id = tasks[t].id /\ next.item = tasks[t].item
  BY <1>1, <1>2 DEF Dispatches, Stages
<1>5. /\ PostOf(next) \in Posts
      /\ PostOf(next).id = tasks[t].id /\ PostOf(next).content = tasks[t].item.content
  BY <1>1, <1>4 DEF PostOf, Posts, Dispatches, Items
<1>6. posts \subseteq Posts
  BY DEF TypeInv, TypeOK
<1> HIDE DEF next
<1>7. QED
  BY <1>1, <1>3, <1>4, <1>5, <1>6

\* A dispatch that begins, or has made a transition, holds well-typed parts.
LEMMA TaskType ==
  ASSUME NEW stage \in Stages, NEW i \in Ids, NEW item \in Items,
         NEW try \in 0..MaxTries
  PROVE  /\ Task(stage, i, item, try, None) \in Dispatches
         /\ Task(stage, i, item, try, None).at = stage
         /\ Task(stage, i, item, try, None).id = i
         /\ Task(stage, i, item, try, None).item = item
  BY DEF Task, Dispatches

\* Validate and StartSending: the task takes the item it is given back with it.
LEMMA AdvanceStep ==
  ASSUME TypeInv, NEW t \in Tasks, tasks[t].at \in Stages, NEW state \in States,
         NEW stage \in {"send", "call"},
         LET i == tasks[t].id
         IN Transition(t, state, Task(stage, i, Moved(items[i], state), 0, None))
  PROVE  /\ items' \in [Ids -> Items \cup {None}]
         /\ tasks' \in [Tasks -> {Idle} \cup Dispatches]
         /\ \A j \in Ids : j # tasks[t].id => items'[j] = items[j]
         /\ \A j \in Ids : items'[j] = None <=> items[j] = None
         /\ \A j \in Ids : items[j] # None => items'[j].content = items[j].content
         /\ \A u \in Tasks : u # t => tasks'[u] = tasks[u]
         /\ \/ /\ Legal(items[tasks[t].id], state)
               /\ tasks'[t].at = stage /\ tasks'[t].id = tasks[t].id
               /\ tasks'[t].item = items'[tasks[t].id]
               /\ tasks'[t].item.state = state
            \/ tasks'[t] = Idle /\ items' = items
<1> DEFINE i == tasks[t].id
           m == Moved(items[i], state)
           next == Task(stage, i, m, 0, None)
<1>1. i \in Ids /\ items[i] \in Items
  BY Busy DEF TypeInv, TypeOK, Known, Dispatches
<1>2. m \in Items /\ m.state = state /\ 0 \in 0..MaxTries /\ stage \in Stages
  BY <1>1, MovedItem, BoundsAssumption DEF Stages
<1>3. /\ next \in Dispatches /\ next.at = stage /\ next.id = i /\ next.item = m
  BY <1>1, <1>2, TaskType
<1>4. Transition(t, state, next)
  OBVIOUS
<1> HIDE DEF next, m
<1>5. /\ items' \in [Ids -> Items \cup {None}]
      /\ tasks' \in [Tasks -> {Idle} \cup Dispatches]
      /\ \A j \in Ids : j # tasks[t].id => items'[j] = items[j]
      /\ \A j \in Ids : items'[j] = None <=> items[j] = None
      /\ \A j \in Ids : items[j] # None => items'[j].content = items[j].content
      /\ \A u \in Tasks : u # t => tasks'[u] = tasks[u]
      /\ \/ /\ Legal(items[i], state)
            /\ tasks'[t] = next
            /\ items'[i] = Moved(items[i], state)
         \/ tasks'[t] = Idle /\ items' = items
  BY <1>3, <1>4, TransitionStep
<1>6. QED
  BY <1>2, <1>3, <1>5 DEF m

LEMMA InitTypes == Init => TypeInv
  BY BoundsAssumption DEF Init, TypeInv, TypeOK, Known, Idle, Stages

LEMMA NextTypes == TypeInv /\ [Next]_vars => TypeInv'
<1> SUFFICES ASSUME TypeInv, [Next]_vars PROVE TypeInv'
  OBVIOUS
<1>t. TypeOK /\ Known
  BY DEF TypeInv
<1>i. Idle.at = "idle" /\ Idle.at \notin Stages
  BY DEF Idle, Stages
<1>z. 0 \in 0..MaxTries
  BY BoundsAssumption
<1>f. faults' \in Nat
  <2>1. \A t \in Tasks : Dispatching(t) => faults' \in {faults, faults + 1}
    BY DEF Dispatching, Begin, Validate, StartSending, Settle, Post, Answered, Refused,
           TimedOut, GiveUp, Raise
  <2>2. faults' \in {faults, faults + 1}
    BY <2>1 DEF Next, vars, Enqueue, Take, Restart
  <2>3. QED
    BY <1>t, <2>2 DEF TypeOK
<1>1. ASSUME NEW i \in Ids, NEW c \in Contents, Enqueue(i, c) PROVE TypeInv'
  <2> DEFINE item == [content |-> c, state |-> "PENDING", attempts |-> 0]
  <2>1. item \in Items
    BY DEF Items, States
  <2>2. items' = [items EXCEPT ![i] = item] /\ UNCHANGED <<tasks, posts, taken, told>>
    BY <1>1 DEF Enqueue
  <2>3. item # None
    BY <2>1, NoneAssumption
  <2> HIDE DEF item
  <2>4. QED
    BY <1>t, <1>f, <2>1, <2>2, <2>3, Busy DEF TypeInv, TypeOK, Known, Dispatches
<1>2. ASSUME NEW t \in Tasks, NEW i \in Ids, Begin(t, i) PROVE TypeInv'
  <2>1. items[i] \in Items /\ items[i].state \in States
    BY <1>2, <1>t DEF Begin, TypeOK, Items
  <2>2. CASE tasks' = tasks /\ told' = told \cup {<<i, items[i].state>>} /\ items[i].state \in Final
    BY <2>2, <1>2, <1>t, <1>f DEF Begin, TypeInv, TypeOK, Known
  <2>3. ASSUME NEW stage \in {"validate", "send"},
               tasks' = [tasks EXCEPT ![t] = Task(stage, i, items[i], 0, None)],
               told' = told
        PROVE  TypeInv'
    <3> DEFINE next == Task(stage, i, items[i], 0, None)
    <3>1. /\ next \in Dispatches /\ next.at = stage /\ next.id = i
      BY <2>1, <1>z, TaskType DEF Stages
    <3>2. tasks' = [tasks EXCEPT ![t] = next] /\ UNCHANGED <<items, posts, taken>>
      BY <2>3, <1>2 DEF Begin
    <3>3. items[i] # None
      BY <1>2 DEF Begin
    <3> HIDE DEF next
    <3>4. QED
      BY <1>t, <1>f, <2>3, <3>1, <3>2, <3>3 DEF TypeInv, TypeOK, Known
  <2>4. QED
    BY <1>2, <2>2, <2>3 DEF Begin
<1>3. ASSUME NEW t \in Tasks, Validate(t) PROVE TypeInv'
  <2>1. tasks[t].at \in Stages /\ "VALIDATED" \in States
    BY <1>3 DEF Validate, Stages, States
  <2>2. QED
    BY <1>3, <1>t, <1>f, <1>i, <2>1, AdvanceStep, Busy
    DEF Validate, TypeInv, TypeOK, Known, Dispatches
<1>4. ASSUME NEW t \in Tasks, StartSending(t) PROVE TypeInv'
  <2>1. tasks[t].at \in Stages /\ "SENDING" \in States
    BY <1>4 DEF StartSending, Stages, States
  <2>2. QED
    BY <1>4, <1>t, <1>f, <1>i, <2>1, AdvanceStep, Busy
    DEF StartSending, TypeInv, TypeOK, Known, Dispatches
<1>5. ASSUME NEW t \in Tasks, Settle(t) PROVE TypeInv'
  <2> DEFINE state == tasks[t].result
  <2>1. /\ tasks[t].at \in Stages /\ tasks[t] \in Dispatches
        /\ state \in States /\ tasks[t].id \in Ids
    BY <1>5, <1>t, Busy, Table DEF Settle, Stages, TypeOK, Dispatches, States
  <2>2. Transition(t, state, Idle)
    BY <1>5 DEF Settle
  <2>3. told' \subseteq Ids \X Final
    BY <1>5, <1>t, <2>1 DEF Settle, TypeOK
  <2>4. UNCHANGED <<posts, taken>>
    BY <1>5 DEF Settle
  <2> HIDE DEF state
  <2>5. /\ items' \in [Ids -> Items \cup {None}]
        /\ tasks' \in [Tasks -> {Idle} \cup Dispatches]
        /\ \A j \in Ids : items'[j] = None <=> items[j] = None
        /\ \A u \in Tasks : u # t => tasks'[u] = tasks[u]
        /\ tasks'[t] = Idle
    BY <2>1, <2>2, TransitionStep
  <2>6. QED
    BY <1>t, <1>f, <1>i, <2>3, <2>4, <2>5, Busy DEF TypeInv, TypeOK, Known, Dispatches
<1>6. ASSUME NEW t \in Tasks, Post(t) PROVE TypeInv'
  <2>1. /\ tasks[t].at \in Stages /\ UNCHANGED <<items, taken, told>>
    BY <1>6 DEF Post, Stages
  <2>2. QED
    BY <1>6, <1>t, <1>f, <2>1, PostStep DEF TypeInv, TypeOK, Known
<1>7. ASSUME NEW t \in Tasks, NEW state \in Transitions["SENDING"],
             tasks[t].at \in Stages, Settles(t, state), posts' \subseteq posts,
             UNCHANGED <<items, taken, told>>
      PROVE  TypeInv'
  BY <1>7, <1>t, <1>f, SettlesStep, NoneAssumption DEF TypeInv, TypeOK, Known
<1>8. ASSUME NEW t \in Tasks, tasks[t].at \in Stages,
             tasks' = [tasks EXCEPT ![t].at = "call"], posts' \subseteq posts,
             UNCHANGED <<items, taken, told>>
      PROVE  TypeInv'
  BY <1>8, <1>t, <1>f, BackToCall DEF TypeInv, TypeOK, Known
<1>9. ASSUME NEW t \in Tasks, Answered(t) PROVE TypeInv'
  BY <1>9, <1>7, Table DEF Answered, Final, Stages
<1>10. ASSUME NEW t \in Tasks, Refused(t) PROVE TypeInv'
  BY <1>10, <1>7, <1>8, Table DEF Refused, Stages
<1>11. ASSUME NEW t \in Tasks, TimedOut(t) PROVE TypeInv'
  BY <1>11, <1>8 DEF TimedOut, Stages
<1>12. ASSUME NEW t \in Tasks, GiveUp(t) PROVE TypeInv'
  BY <1>12, <1>7, Table DEF GiveUp, Stages
<1>13. ASSUME NEW t \in Tasks, Raise(t) PROVE TypeInv'
  BY <1>13, <1>t, <1>f, <1>i DEF Raise, TypeInv, TypeOK, Known
<1>14. ASSUME NEW p \in posts, Take(p) PROVE TypeInv'
  BY <1>14, <1>t, <1>f DEF Take, TypeInv, TypeOK, Known
<1>15. CASE Restart
  <2>1. items' \in [Ids -> Items \cup {None}]
    BY <1>15, <1>t, RecoveredItem DEF Restart, TypeOK
  <2>2. QED
    BY <1>15, <1>t, <1>f, <1>i, <2>1 DEF Restart, TypeInv, TypeOK, Known
<1>16. CASE UNCHANGED vars
  BY <1>16, <1>t DEF vars, TypeInv, TypeOK, Known
<1>17. QED
  BY <1>1, <1>2, <1>3, <1>4, <1>5, <1>6, <1>9, <1>10, <1>11, <1>12, <1>13, <1>14,
     <1>15, <1>16
  DEF Next, Dispatching

\* The durable items, the dispatches, the posts and the receipts keep their
\* types, and a dispatch never holds a report the record does not know.
THEOREM Types == Spec => []TypeOK
<1>1. TypeInv => TypeOK
  BY DEF TypeInv
<1>2. QED
  BY <1>1, InitTypes, NextTypes, PTL DEF Spec

-----------------------------------------------------------------------------
(* One sender per report. *)

\* Most steps leave the record alone and bring no dispatch into a call.
LEMMA QuietSender ==
  ASSUME OneSender, items' = items,
         \A t \in Tasks : InCall(t)' =>
           InCall(t) /\ tasks'[t].id = tasks[t].id /\ tasks'[t].item = tasks[t].item
  PROVE  OneSender'
  BY DEF OneSender

\* An item that some dispatch has in a call is SENDING in the record.
LEMMA CalledItem ==
  ASSUME TypeInv, OneSender, NEW t \in Tasks, InCall(t)
  PROVE  /\ tasks[t].at \in Stages /\ tasks[t].id \in Ids
         /\ items[tasks[t].id] \in Items
         /\ items[tasks[t].id].state = "SENDING"
<1>1. tasks[t].at \in Stages
  BY DEF InCall, Stages
<1>2. QED
  BY <1>1, Busy DEF TypeInv, TypeOK, Known, OneSender, Dispatches

LEMMA NextSender == TypeInv /\ OneSender /\ [Next]_vars => OneSender'
<1> SUFFICES ASSUME TypeInv, OneSender, [Next]_vars PROVE OneSender'
  OBVIOUS
<1>i. Idle.at = "idle" /\ Idle.at \notin Stages
  BY DEF Idle, Stages
<1>t. TypeOK /\ Known
  BY DEF TypeInv
<1>1. ASSUME NEW i \in Ids, NEW c \in Contents, Enqueue(i, c) PROVE OneSender'
  <2>1. items[i] = None /\ tasks' = tasks /\ \A j \in Ids : j # i => items'[j] = items[j]
    BY <1>1, <1>t DEF Enqueue, TypeOK
  <2>2. \A t \in Tasks : InCall(t) => tasks[t].id \in Ids /\ tasks[t].id # i
    BY <2>1, CalledItem, NoneAssumption
  <2>3. QED
    BY <2>1, <2>2 DEF OneSender, InCall
<1>2. ASSUME NEW t \in Tasks, NEW i \in Ids, Begin(t, i) PROVE OneSender'
  <2>1. items' = items /\ \A u \in Tasks : u # t => tasks'[u] = tasks[u]
    BY <1>2, <1>t DEF Begin, TypeOK
  <2>2. tasks'[t].at \in {"idle", "validate", "send"}
    BY <1>2, <1>i, <1>t DEF Begin, Task, TypeOK
  <2>3. QED
    BY <2>1, <2>2, QuietSender DEF InCall
<1>3. ASSUME NEW t \in Tasks, Validate(t) PROVE OneSender'
  <2>1. tasks[t].at \in Stages /\ "VALIDATED" \in States /\ ~InCall(t)
    BY <1>3 DEF Validate, Stages, States, InCall
  <2>2. /\ \A j \in Ids : j # tasks[t].id => items'[j] = items[j]
        /\ \A u \in Tasks : u # t => tasks'[u] = tasks[u]
        /\ \/ Legal(items[tasks[t].id], "VALIDATED") /\ tasks'[t].at = "send"
           \/ tasks'[t] = Idle /\ items' = items
    BY <1>3, <2>1, AdvanceStep DEF Validate
  <2>3. CASE tasks'[t] = Idle /\ items' = items
    BY <1>i, <2>2, <2>3, QuietSender DEF InCall, Stages
  <2>4. CASE Legal(items[tasks[t].id], "VALIDATED") /\ tasks'[t].at = "send"
    <3>1. items[tasks[t].id].state # "SENDING"
      BY <2>4, Table DEF Legal
    <3>2. \A u \in Tasks : InCall(u) => tasks[u].id \in Ids /\ tasks[u].id # tasks[t].id
      BY <3>1, CalledItem
    <3>3. QED
      BY <2>2, <2>4, <3>2 DEF OneSender, InCall
  <2>5. QED
    BY <2>2, <2>3, <2>4
<1>4. ASSUME NEW t \in Tasks, StartSending(t) PROVE OneSender'
  <2>1. tasks[t].at \in Stages /\ "SENDING" \in States /\ ~InCall(t)
    BY <1>4 DEF StartSending, Stages, States, InCall
  <2>2. /\ \A j \in Ids : j # tasks[t].id => items'[j] = items[j]
        /\ \A u \in Tasks : u # t => tasks'[u] = tasks[u]
        /\ \/ /\ Legal(items[tasks[t].id], "SENDING")
              /\ tasks'[t].at = "call" /\ tasks'[t].id = tasks[t].id
              /\ tasks'[t].item = items'[tasks[t].id]
              /\ tasks'[t].item.state = "SENDING"
           \/ tasks'[t] = Idle /\ items' = items
    BY <1>4, <2>1, AdvanceStep DEF StartSending
  <2>3. CASE tasks'[t] = Idle /\ items' = items
    BY <1>i, <2>2, <2>3, QuietSender DEF InCall, Stages
  <2>4. CASE ~(tasks'[t] = Idle /\ items' = items)
    <3>1. items[tasks[t].id].state # "SENDING"
      BY <2>2, <2>4, Table DEF Legal
    <3>2. \A u \in Tasks : InCall(u) => tasks[u].id \in Ids /\ tasks[u].id # tasks[t].id
      BY <3>1, CalledItem
    <3>3. QED
      BY <2>2, <2>4, <3>2 DEF OneSender, InCall
  <2>5. QED
    BY <2>3, <2>4
<1>5. ASSUME NEW t \in Tasks, Settle(t) PROVE OneSender'
  <2>1. InCall(t) /\ tasks[t].at \in Stages /\ tasks[t].result \in States
    BY <1>5, <1>t, Busy, Table DEF Settle, InCall, Stages, States, TypeOK, Dispatches
  <2>2. Transition(t, tasks[t].result, Idle)
    BY <1>5 DEF Settle
  <2>3. /\ \A j \in Ids : j # tasks[t].id => items'[j] = items[j]
        /\ \A u \in Tasks : u # t => tasks'[u] = tasks[u]
        /\ tasks'[t] = Idle
    BY <2>1, <2>2, TransitionStep
  <2>4. \A u \in Tasks : u # t /\ InCall(u) =>
          tasks[u].id \in Ids /\ tasks[u].id # tasks[t].id
    BY <2>1, CalledItem DEF OneSender
  <2>5. QED
    BY <1>i, <2>3, <2>4 DEF OneSender, InCall, Stages
<1>6. ASSUME NEW t \in Tasks, Post(t) PROVE OneSender'
  BY <1>6, PostStep, QuietSender DEF Post, InCall
<1>7. ASSUME NEW t \in Tasks, NEW state \in Transitions["SENDING"], InCall(t),
             Settles(t, state), items' = items
      PROVE  OneSender'
  BY <1>7, CalledItem, SettlesStep, QuietSender DEF InCall
<1>8. ASSUME NEW t \in Tasks, InCall(t), tasks' = [tasks EXCEPT ![t].at = "call"],
             items' = items
      PROVE  OneSender'
  BY <1>8, CalledItem, BackToCall, QuietSender DEF InCall
<1>9. ASSUME NEW t \in Tasks, Answered(t) PROVE OneSender'
  BY <1>9, <1>7, Table DEF Answered, Final, InCall
<1>10. ASSUME NEW t \in Tasks, Refused(t) PROVE OneSender'
  BY <1>10, <1>7, <1>8, Table DEF Refused, InCall
<1>11. ASSUME NEW t \in Tasks, TimedOut(t) PROVE OneSender'
  BY <1>11, <1>8 DEF TimedOut, InCall
<1>12. ASSUME NEW t \in Tasks, GiveUp(t) PROVE OneSender'
  BY <1>12, <1>7, Table DEF GiveUp, InCall
<1>13. ASSUME NEW t \in Tasks, Raise(t) PROVE OneSender'
  BY <1>13, <1>t, <1>i, QuietSender DEF Raise, InCall, Stages, TypeOK
<1>14. ASSUME NEW p \in posts, Take(p) PROVE OneSender'
  BY <1>14, QuietSender DEF Take, InCall
<1>15. CASE Restart
  BY <1>15, <1>i DEF Restart, OneSender, InCall, Stages
<1>16. CASE UNCHANGED vars
  BY <1>16, QuietSender DEF vars, InCall
<1>17. QED
  BY <1>1, <1>2, <1>3, <1>4, <1>5, <1>6, <1>9, <1>10, <1>11, <1>12, <1>13, <1>14,
     <1>15, <1>16
  DEF Next, Dispatching

\* However many dispatches of a report race, and however often the process dies,
\* at most one has a Gatekeeper call open for it and the record shows it SENDING.
THEOREM SingleSender == Spec => []OneSender
<1>1. Init => OneSender
  BY DEF Init, OneSender, InCall, Idle
<1>2. QED
  BY <1>1, InitTypes, NextTypes, NextSender, PTL DEF Spec

-----------------------------------------------------------------------------
(* Receipts and mails against the record. *)

\* Whatever happens, a report stays in the record with its content, and once it
\* is SENT or FAILED_PERMANENT nothing about it changes.
LEMMA RecordKeeps ==
  ASSUME TypeInv, [Next]_vars, NEW j \in Ids, items[j] # None
  PROVE  /\ items'[j] # None /\ items'[j].content = items[j].content
         /\ items[j].state \in Final => items'[j] = items[j]
<1>t. TypeOK /\ Known
  BY DEF TypeInv
<1>j. items[j] \in Items
  BY <1>t DEF TypeOK
<1>k. CASE items'[j] = items[j]
  BY <1>k
<1>1. ASSUME NEW i \in Ids, NEW c \in Contents, Enqueue(i, c) PROVE items'[j] = items[j]
  BY <1>1, <1>t DEF Enqueue, TypeOK
<1>2. ASSUME NEW t \in Tasks, tasks[t].at \in Stages, NEW state \in States,
             NEW next \in {Idle} \cup Dispatches, Transition(t, state, next)
      PROVE  /\ items'[j] # None /\ items'[j].content = items[j].content
             /\ items[j].state \in Final => items'[j] = items[j]
  <2>1. /\ items'[j] = None <=> items[j] = None
        /\ items'[j].content = items[j].content
        /\ j # tasks[t].id => items'[j] = items[j]
        /\ Legal(items[tasks[t].id], state) \/ items' = items
    BY <1>2, TransitionStep
  <2>2. items[j].state \in Final => ~Legal(items[j], state)
    BY Table DEF Legal
  <2>3. QED
    BY <2>1, <2>2
<1>3. ASSUME NEW t \in Tasks, Validate(t)
      PROVE  /\ items'[j] # None /\ items'[j].content = items[j].content
             /\ items[j].state \in Final => items'[j] = items[j]
  <2> DEFINE i == tasks[t].id
             next == Task("send", i, Moved(items[i], "VALIDATED"), 0, None)
  <2>1. tasks[t].at \in Stages /\ i \in Ids /\ items[i] \in Items /\ "VALIDATED" \in States
    BY <1>3, <1>t, Busy DEF Validate, Stages, States, TypeOK, Known, Dispatches
  <2>2. next \in Dispatches
    BY <2>1, MovedItem, TaskType, BoundsAssumption DEF Stages
  <2>3. Transition(t, "VALIDATED", next)
    BY <1>3 DEF Validate
  <2>4. QED
    BY <1>2, <2>1, <2>2, <2>3
<1>4. ASSUME NEW t \in Tasks, StartSending(t)
      PROVE  /\ items'[j] # None /\ items'[j].content = items[j].content
             /\ items[j].state \in Final => items'[j] = items[j]
  <2> DEFINE i == tasks[t].id
             next == Task("call", i, Moved(items[i], "SENDING"), 0, None)
  <2>1. tasks[t].at \in Stages /\ i \in Ids /\ items[i] \in Items /\ "SENDING" \in States
    BY <1>4, <1>t, Busy DEF StartSending, Stages, States, TypeOK, Known, Dispatches
  <2>2. next \in Dispatches
    BY <2>1, MovedItem, TaskType, BoundsAssumption DEF Stages
  <2>3. Transition(t, "SENDING", next)
    BY <1>4 DEF StartSending
  <2>4. QED
    BY <1>2, <2>1, <2>2, <2>3
<1>5. ASSUME NEW t \in Tasks, Settle(t)
      PROVE  /\ items'[j] # None /\ items'[j].content = items[j].content
             /\ items[j].state \in Final => items'[j] = items[j]
  <2>1. tasks[t].at \in Stages /\ tasks[t].result \in States
    BY <1>5, <1>t, Busy, Table DEF Settle, Stages, States, TypeOK, Dispatches
  <2>2. Transition(t, tasks[t].result, Idle)
    BY <1>5 DEF Settle
  <2>3. QED
    BY <1>2, <2>1, <2>2
<1>6. CASE Restart
  <2>1. items'[j] = Recovered(items[j])
    BY <1>6 DEF Restart
  <2>2. QED
    BY <1>j, <2>1, RecoveredItem DEF Final
<1>7. ASSUME NEW t \in Tasks,
             \/ \E i \in Ids : Begin(t, i)
             \/ Post(t) \/ Answered(t) \/ Refused(t) \/ TimedOut(t) \/ GiveUp(t) \/ Raise(t)
      PROVE  items' = items
  BY <1>7 DEF Begin, Post, Answered, Refused, TimedOut, GiveUp, Raise
<1>8. ASSUME NEW p \in posts, Take(p) PROVE items' = items
  BY <1>8 DEF Take
<1>9. CASE UNCHANGED vars
  BY <1>9 DEF vars
<1>10. QED
  BY <1>1, <1>3, <1>4, <1>5, <1>6, <1>7, <1>8, <1>9 DEF Next, Dispatching

\* What a caller was told is what the record says, ...
Truthful == \A r \in told : items[r[1]] # None /\ items[r[1]].state = r[2]

\* ... every mail carries the recorded content of its report, ...
SameContent ==
  \A p \in posts \cup taken : items[p.id] # None /\ p.content = items[p.id].content

\* ... and a dispatch about to record SENT has seen its mail taken.
SeenTaken ==
  \A t \in Tasks : tasks[t].at = "settle" /\ tasks[t].result = "SENT" =>
    \E p \in taken : p.id = tasks[t].id /\ p.content = tasks[t].item.content

DeliveryInv == Truthful /\ SameContent /\ SeenTaken

LEMMA NextTruthful ==
  ASSUME TypeInv, Truthful, [Next]_vars PROVE Truthful'
<1>t. told \subseteq Ids \X Final
  BY DEF TypeInv, TypeOK
<1>1. \A r \in told : items'[r[1]] # None /\ items'[r[1]].state = r[2]
  <2>1. ASSUME NEW r \in told PROVE r[1] \in Ids /\ r[2] \in Final
    BY <1>t
  <2>2. QED
    BY <2>1, RecordKeeps DEF Truthful
<1>2. ASSUME NEW t \in Tasks, NEW i \in Ids, Begin(t, i) PROVE Truthful'
  BY <1>1, <1>2 DEF Begin, Truthful
<1>3. ASSUME NEW t \in Tasks, Settle(t) PROVE Truthful'
  <2> DEFINE i == tasks[t].id
             state == tasks[t].result
  <2>1. /\ tasks[t].at \in Stages /\ state \in States /\ i \in Ids
        /\ items[i] # None
    BY <1>3, Busy, Table
    DEF Settle, Stages, States, TypeInv, TypeOK, Known, Dispatches
  <2>2. Transition(t, state, Idle)
    BY <1>3 DEF Settle
  <2>3. Legal(items[i], state) => items'[i] # None /\ items'[i].state = state
    BY <2>1, <2>2, TransitionStep DEF Legal
  <2>4. told' = told \/ (Legal(items[i], state) /\ told' = told \cup {<<i, state>>})
    BY <1>3 DEF Settle
  <2> HIDE DEF i, state
  <2>5. QED
    BY <1>1, <2>3, <2>4 DEF Truthful
<1>4. told' = told => Truthful'
  BY <1>1 DEF Truthful
<1>5. QED
  BY <1>2, <1>3, <1>4
  DEF Next, Dispatching, vars, Enqueue, Validate, StartSending, Post, Answered, Refused,
      TimedOut, GiveUp, Raise, Take, Restart

LEMMA NextSameContent ==
  ASSUME TypeInv, OneSender, SameContent, [Next]_vars PROVE SameContent'
<1>1. ASSUME NEW p \in posts \cup taken
      PROVE  items'[p.id] # None /\ p.content = items'[p.id].content
  <2>1. p.id \in Ids /\ items[p.id] # None /\ p.content = items[p.id].content
    BY DEF SameContent, TypeInv, TypeOK, Posts
  <2>2. QED
    BY <2>1, RecordKeeps
<1>2. ASSUME NEW t \in Tasks, Post(t) PROVE SameContent'
  <2>1. InCall(t) /\ taken' = taken
    BY <1>2 DEF Post, InCall
  <2>2. tasks[t].id \in Ids /\ tasks[t].item = items[tasks[t].id] /\ items[tasks[t].id] # None
    BY <2>1, CalledItem, NoneAssumption DEF OneSender
  <2>3. \A p \in posts' \ posts :
              p.id = tasks[t].id /\ p.content = tasks[t].item.content
    BY <1>2, PostStep
  <2>4. items' = items
    BY <1>2 DEF Post
  <2>5. QED
    BY <1>1, <2>1, <2>2, <2>3, <2>4 DEF SameContent
<1>3. posts' \cup taken' \subseteq posts \cup taken => SameContent'
  BY <1>1 DEF SameContent
<1>4. QED
  BY <1>2, <1>3
  DEF Next, Dispatching, vars, Enqueue, Begin, Validate, StartSending, Settle, Answered,
      Refused, TimedOut, GiveUp, Raise, Take, Restart

\* Only an answer of the provider leads to SENT.
LEMMA QuietTaken ==
  ASSUME SeenTaken, taken \subseteq taken',
         \A t \in Tasks : tasks'[t].at = "settle" /\ tasks'[t].result = "SENT" =>
           tasks'[t] = tasks[t]
  PROVE  SeenTaken'
  BY DEF SeenTaken

LEMMA NextSeenTaken ==
  ASSUME TypeInv, SeenTaken, [Next]_vars PROVE SeenTaken'
<1>i. Idle.at = "idle"
  BY DEF Idle
<1>t. tasks \in [Tasks -> {Idle} \cup Dispatches]
  BY DEF TypeInv, TypeOK
<1>1. ASSUME NEW t \in Tasks, NEW i \in Ids, Begin(t, i) PROVE SeenTaken'
  BY <1>1, <1>t, QuietTaken DEF Begin, Task
<1>2. ASSUME NEW t \in Tasks, NEW state \in States, NEW stage \in {"send", "call"},
             tasks[t].at \in Stages, taken' = taken,
             LET i == tasks[t].id
             IN Transition(t, state, Task(stage, i, Moved(items[i], state), 0, None))
      PROVE  SeenTaken'
  <2>1. /\ \A u \in Tasks : u # t => tasks'[u] = tasks[u]
        /\ tasks'[t].at = stage \/ tasks'[t] = Idle
    BY <1>2, AdvanceStep
  <2>2. QED
    BY <1>i, <1>2, <2>1, QuietTaken
<1>3. ASSUME NEW t \in Tasks, Validate(t) PROVE SeenTaken'
  BY <1>2, <1>3 DEF Validate, Stages, States
<1>4. ASSUME NEW t \in Tasks, StartSending(t) PROVE SeenTaken'
  BY <1>2, <1>4 DEF StartSending, Stages, States
<1>5. ASSUME NEW t \in Tasks, Settle(t) PROVE SeenTaken'
  <2>1. \A u \in Tasks : u # t => tasks'[u] = tasks[u]
    BY <1>5, <1>t DEF Settle, Transition
  <2>2. tasks'[t] = Idle
    BY <1>5, <1>t DEF Settle, Transition
  <2>3. QED
    BY <1>i, <1>5, <2>1, <2>2, QuietTaken DEF Settle
<1>6. ASSUME NEW t \in Tasks, Post(t) PROVE SeenTaken'
  BY <1>6, PostStep, QuietTaken DEF Post
<1>7. ASSUME NEW t \in Tasks, NEW state \in Transitions["SENDING"] \ {"SENT"},
             tasks[t].at \in Stages, Settles(t, state), taken' = taken
      PROVE  SeenTaken'
  <2>1. /\ \A u \in Tasks : u # t => tasks'[u] = tasks[u]
        /\ tasks'[t].result # "SENT"
    BY <1>7, SettlesStep
  <2>2. QED
    BY <1>7, <2>1, QuietTaken
<1>8. ASSUME NEW t \in Tasks, tasks[t].at \in Stages,
             tasks' = [tasks EXCEPT ![t].at = "call"], taken' = taken
      PROVE  SeenTaken'
  <2>1. /\ \A u \in Tasks : u # t => tasks'[u] = tasks[u]
        /\ tasks'[t].at = "call"
    BY <1>8, BackToCall
  <2>2. QED
    BY <1>8, <2>1, QuietTaken
<1>9. ASSUME NEW t \in Tasks, Answered(t) PROVE SeenTaken'
  <2>1. PICK state \in Final : Settles(t, state)
    BY <1>9 DEF Answered
  <2>2. /\ state \in Transitions["SENDING"] /\ tasks[t].at \in Stages
        /\ taken' = taken /\ PostOf(tasks[t]) \in taken
    BY <1>9, Table DEF Answered, Stages, Final
  <2>3. /\ PostOf(tasks[t]).id = tasks[t].id
        /\ PostOf(tasks[t]).content = tasks[t].item.content
    BY DEF PostOf
  <2>4. /\ \A u \in Tasks : u # t => tasks'[u] = tasks[u]
        /\ tasks'[t].id = tasks[t].id /\ tasks'[t].item = tasks[t].item
    BY <2>1, <2>2, SettlesStep
  <2>5. QED
    BY <2>2, <2>3, <2>4 DEF SeenTaken
<1>10. ASSUME NEW t \in Tasks, Refused(t) PROVE SeenTaken'
  BY <1>10, <1>7, <1>8, Table DEF Refused, Stages
<1>11. ASSUME NEW t \in Tasks, TimedOut(t) PROVE SeenTaken'
  BY <1>11, <1>8 DEF TimedOut, Stages
<1>12. ASSUME NEW t \in Tasks, GiveUp(t) PROVE SeenTaken'
  BY <1>12, <1>7, Table DEF GiveUp, Stages
<1>13. ASSUME NEW t \in Tasks, Raise(t) PROVE SeenTaken'
  BY <1>13, <1>t, <1>i, QuietTaken DEF Raise
<1>14. CASE Restart
  BY <1>14, <1>i, QuietTaken DEF Restart
<1>15. ASSUME tasks' = tasks, taken \subseteq taken' PROVE SeenTaken'
  BY <1>15, QuietTaken
<1>16. QED
  BY <1>1, <1>3, <1>4, <1>5, <1>6, <1>9, <1>10, <1>11, <1>12, <1>13, <1>14, <1>15
  DEF Next, Dispatching, vars, Enqueue, Take

OutboxInv == TypeInv /\ OneSender /\ DeliveryInv

LEMMA InitOutbox == Init => OutboxInv
<1>1. Init => OneSender
  BY DEF Init, OneSender, InCall, Idle
<1>2. Init => DeliveryInv
  BY DEF Init, DeliveryInv, Truthful, SameContent, SeenTaken, Idle
<1>3. QED
  BY <1>1, <1>2, InitTypes DEF OutboxInv

LEMMA NextOutbox == OutboxInv /\ [Next]_vars => OutboxInv'
  BY NextTypes, NextSender, NextTruthful, NextSameContent, NextSeenTaken
  DEF OutboxInv, DeliveryInv

-----------------------------------------------------------------------------
(* After a final receipt. *)

\* Once a caller was told SENT or FAILED_PERMANENT no post is ever added for that
\* report, by whichever dispatch and after however many restarts.
THEOREM NoLatePost == Spec => NoPostOnceTold
<1>1. OutboxInv /\ [Next]_vars => [\A r \in told : \A p \in posts' \ posts : p.id # r[1]]_vars
  <2> SUFFICES ASSUME OutboxInv, [Next]_vars, NEW r \in told, NEW p \in posts' \ posts
               PROVE  p.id # r[1]
    OBVIOUS
  <2>1. ASSUME NEW t \in Tasks, Post(t) PROVE p.id # r[1]
    <3>1. InCall(t) /\ p.id = tasks[t].id
      BY <2>1, PostStep DEF Post, InCall, OutboxInv
    <3>2. items[p.id].state = "SENDING"
      BY <3>1, CalledItem DEF OutboxInv
    <3>3. items[r[1]].state \in Final
      BY DEF OutboxInv, DeliveryInv, Truthful, TypeInv, TypeOK
    <3>4. QED
      BY <3>2, <3>3 DEF Final
  <2>2. posts' \subseteq posts => p.id # r[1]
    OBVIOUS
  <2>3. QED
    BY <2>1, <2>2
    DEF Next, Dispatching, vars, Enqueue, Begin, Validate, StartSending, Settle, Answered,
        Refused, TimedOut, GiveUp, Raise, Take, Restart
<1>2. QED
  BY <1>1, InitOutbox, NextOutbox, PTL DEF Spec, NoPostOnceTold

-----------------------------------------------------------------------------
(* The ledger. *)

Mails == {<<p.id, p.content>> : p \in taken}

\* What the ledger shows of a report in the record.
LEMMA Shown ==
  ASSUME TypeInv, NEW i \in Ids
  PROVE  /\ items[i] = None => QueuedContent[i] = None /\ Outcome[i] = "open"
         /\ items[i] # None =>
              /\ QueuedContent[i] = items[i].content
              /\ QueuedContent[i] # None
              /\ items[i].state \notin Final => Outcome[i] = "open"
              /\ items[i].state = "SENT" => Outcome[i] = "sent"
              /\ items[i].state = "FAILED_PERMANENT" => Outcome[i] = "failed"
<1>1. items[i] # None => items[i].content \in Contents
  BY DEF TypeInv, TypeOK, Items
<1>2. QED
  BY <1>1, NoneAssumption DEF QueuedContent, Outcome, Final

\* A step that keeps contents, and adds or removes no final state, is a stutter.
LEMMA SameLedger ==
  ASSUME TypeInv, TypeInv',
         \A j \in Ids : items'[j] = None <=> items[j] = None,
         \A j \in Ids : items[j] # None =>
           /\ items'[j].content = items[j].content
           /\ items'[j] = items[j] \/ (items[j].state \notin Final /\ items'[j].state \notin Final)
  PROVE  QueuedContent' = QueuedContent /\ Outcome' = Outcome
<1>1. \A j \in Ids : QueuedContent'[j] = QueuedContent[j] /\ Outcome'[j] = Outcome[j]
  <2> SUFFICES ASSUME NEW j \in Ids
               PROVE  QueuedContent'[j] = QueuedContent[j] /\ Outcome'[j] = Outcome[j]
    OBVIOUS
  <2>1. CASE items'[j] = items[j]
    BY <2>1 DEF QueuedContent, Outcome
  <2>2. CASE items'[j] # items[j]
    <3>1. /\ items[j] # None /\ items'[j] # None /\ items'[j].content = items[j].content
          /\ items[j].state \notin Final /\ items'[j].state \notin Final
      BY <2>2
    <3>2. QED
      BY <3>1 DEF QueuedContent, Outcome, Final
  <2>3. QED
    BY <2>1, <2>2
<1>2. QED
  BY <1>1 DEF QueuedContent, Outcome

LEMMA InitLedger == Init => Ledger!LedgerInit
  BY DEF Init, Ledger!LedgerInit, QueuedContent, Outcome, Told

LEMMA QueueStep ==
  ASSUME TypeInv, NEW i \in Ids, NEW c \in Contents, Enqueue(i, c)
  PROVE  Ledger!Queue(i, c)
<1> DEFINE item == [content |-> c, state |-> "PENDING", attempts |-> 0]
<1>1. items[i] = None /\ items' = [items EXCEPT ![i] = item] /\ UNCHANGED <<taken, told>>
  BY DEF Enqueue
<1>2. items' = [j \in Ids |-> IF j = i THEN item ELSE items[j]]
  BY <1>1 DEF TypeInv, TypeOK
<1>3. item \in Items /\ item # None
  BY NoneAssumption DEF Items, States
<1>4. item.content = c /\ item.state = "PENDING"
  OBVIOUS
<1> HIDE DEF item
<1>5. QueuedContent[i] = None
  BY <1>1 DEF QueuedContent
<1>6. QueuedContent' = [QueuedContent EXCEPT ![i] = c]
  BY <1>2, <1>3, <1>4 DEF QueuedContent
<1>7. Outcome' = Outcome
  <2>1. \A j \in Ids : Outcome'[j] = Outcome[j]
    BY <1>1, <1>2, <1>3, <1>4 DEF Outcome
  <2>2. QED
    BY <2>1 DEF Outcome
<1>8. QED
  BY <1>1, <1>5, <1>6, <1>7 DEF Ledger!Queue, Told

LEMMA TakeStep ==
  ASSUME TypeInv, SameContent, NEW p \in posts, Take(p)
  PROVE  p.id \in Ids /\ Ledger!Take(p.id)
<1>1. p.id \in Ids /\ items[p.id] # None /\ p.content = items[p.id].content
  BY DEF SameContent, TypeInv, TypeOK, Posts
<1>2. QueuedContent[p.id] = p.content /\ QueuedContent[p.id] # None
  BY <1>1, Shown
<1>3. taken' = taken \cup {p} /\ UNCHANGED <<items, told>>
  BY DEF Take
<1>4. Mails' = Mails \cup {<<p.id, p.content>>}
  BY <1>3 DEF Mails
<1>5. UNCHANGED <<QueuedContent, Outcome, Told>>
  BY <1>3 DEF QueuedContent, Outcome, Told
<1>6. QED
  BY <1>1, <1>2, <1>4, <1>5 DEF Ledger!Take, Mails

\* The outcome a final state stands for.
OutcomeOf(state) == IF state = "SENT" THEN "sent" ELSE "failed"

LEMMA ToldMore ==
  ASSUME NEW i, NEW state, told' = told \cup {<<i, state>>}
  PROVE  Told' = Told \cup {<<i, OutcomeOf(state)>>}
<1> DEFINE Shows(r) == <<r[1], OutcomeOf(r[2])>>
<1>1. Told = {Shows(r) : r \in told} /\ Told' = {Shows(r) : r \in told'}
  BY DEF Told, OutcomeOf
<1>2. Shows(<<i, state>>) = <<i, OutcomeOf(state)>>
  OBVIOUS
<1> HIDE DEF Shows
<1>3. {Shows(r) : r \in told'} = {Shows(r) : r \in told} \cup {Shows(<<i, state>>)}
  OBVIOUS
<1>4. QED
  BY <1>1, <1>2, <1>3

LEMMA TellStep ==
  ASSUME TypeInv, NEW t \in Tasks, NEW i \in Ids, Begin(t, i)
  PROVE  [Ledger!LedgerNext]_(Ledger!ledger)
<1>1. items' = items /\ taken' = taken /\ items[i] # None
  BY DEF Begin
<1>2. UNCHANGED <<QueuedContent, Outcome>>
  BY <1>1 DEF QueuedContent, Outcome
<1>3. CASE told' = told
  BY <1>1, <1>2, <1>3 DEF Ledger!ledger, Told
<1>4. CASE items[i].state \in Final /\ told' = told \cup {<<i, items[i].state>>}
  <2>1. Outcome[i] = OutcomeOf(items[i].state) /\ Outcome[i] # "open"
    BY <1>1, <1>4, Shown DEF Final, OutcomeOf
  <2>2. Told' = Told \cup {<<i, Outcome[i]>>}
    BY <1>4, <2>1, ToldMore
  <2>3. Ledger!Tell(i)
    BY <1>1, <1>2, <2>1, <2>2 DEF Ledger!Tell
  <2>4. QED
    BY <2>3 DEF Ledger!LedgerNext
<1>5. QED
  BY <1>3, <1>4 DEF Begin

LEMMA AdvanceLedger ==
  ASSUME TypeInv, TypeInv', NEW t \in Tasks, NEW state \in States \ Final,
         NEW stage \in {"send", "call"}, tasks[t].at \in Stages,
         UNCHANGED <<taken, told>>,
         LET i == tasks[t].id
         IN Transition(t, state, Task(stage, i, Moved(items[i], state), 0, None))
  PROVE  UNCHANGED Ledger!ledger
<1> DEFINE i == tasks[t].id
<1>1. i \in Ids
  BY Busy DEF TypeInv, Dispatches
<1>2. /\ \A j \in Ids : j # i => items'[j] = items[j]
      /\ \A j \in Ids : items'[j] = None <=> items[j] = None
      /\ \A j \in Ids : items[j] # None => items'[j].content = items[j].content
      /\ \/ Legal(items[i], state) /\ items'[i].state = state
         \/ items' = items
  BY AdvanceStep
<1>3. Legal(items[i], state) => items[i].state \notin Final
  BY Table DEF Legal
<1> HIDE DEF i
<1>4. UNCHANGED <<QueuedContent, Outcome>>
  BY <1>2, <1>3, SameLedger
<1>5. QED
  BY <1>4 DEF Ledger!ledger, Told

LEMMA SettleStep ==
  ASSUME TypeInv, TypeInv', OneSender, SeenTaken, NEW t \in Tasks, Settle(t)
  PROVE  [Ledger!LedgerNext]_(Ledger!ledger)
<1> DEFINE i == tasks[t].id
           state == tasks[t].result
<1>1. /\ tasks[t].at \in Stages /\ InCall(t) /\ i \in Ids
      /\ state \in Transitions["SENDING"] /\ state \in States
  BY Busy, Table, NoneAssumption
  DEF Settle, Stages, InCall, TypeInv, TypeOK, Dispatches, States
<1>2. items[i] # None /\ items[i].state = "SENDING" /\ items[i] = tasks[t].item
  BY <1>1, CalledItem, NoneAssumption DEF OneSender
<1>3. Legal(items[i], state)
  BY <1>1, <1>2 DEF Legal
<1>4. Transition(t, state, Idle)
  BY DEF Settle
<1>5. state = "SENT" => <<i, items[i].content>> \in Mails
  BY <1>2 DEF Settle, SeenTaken, Mails
<1>6. taken' = taken /\ told' = IF state \in Final THEN told \cup {<<i, state>>} ELSE told
  BY <1>3 DEF Settle
<1> HIDE DEF i, state
<1>7. /\ \A j \in Ids : j # i => items'[j] = items[j]
      /\ \A j \in Ids : items'[j] = None <=> items[j] = None
      /\ \A j \in Ids : items[j] # None => items'[j].content = items[j].content
      /\ items'[i].state = state
  BY <1>1, <1>3, <1>4, TransitionStep DEF i
<1>8. CASE state \notin Final
  <2>1. UNCHANGED <<QueuedContent, Outcome>>
    BY <1>2, <1>7, <1>8, SameLedger DEF Final
  <2>2. QED
    BY <1>6, <1>8, <2>1 DEF Ledger!ledger, Told
<1>9. CASE state \in Final
  <2> DEFINE o == OutcomeOf(state)
  <2>1. Told' = Told \cup {<<i, o>>} /\ o \in {"sent", "failed"} /\ (o = "sent" => state = "SENT")
    BY <1>6, <1>9, ToldMore DEF OutcomeOf
  <2>2. Outcome[i] = "open" /\ QueuedContent[i] = items[i].content /\ QueuedContent[i] # None
    BY <1>1, <1>2, Shown DEF i, Final
  <2>3. QueuedContent' = QueuedContent
    BY <1>7 DEF QueuedContent
  <2>4. Outcome' = [Outcome EXCEPT ![i] = o]
    <3>1. \A j \in Ids : Outcome'[j] = IF j = i THEN o ELSE Outcome[j]
      BY <1>2, <1>7, <1>9 DEF Outcome, OutcomeOf, Final
    <3>2. QED
      BY <3>1 DEF Outcome
  <2> HIDE DEF o
  <2>5. o = "sent" => <<i, QueuedContent[i]>> \in Mails
    BY <1>5, <2>1, <2>2
  <2>6. Ledger!Decide(i, o)
    BY <1>6, <2>1, <2>2, <2>3, <2>4, <2>5 DEF Ledger!Decide, Mails
  <2>7. QED
    BY <1>1, <2>1, <2>6 DEF Ledger!LedgerNext, i
<1>10. QED
  BY <1>8, <1>9

LEMMA NextLedger ==
  ASSUME OutboxInv, OutboxInv', [Next]_vars
  PROVE  [Ledger!LedgerNext]_(Ledger!ledger)
<1>t. TypeInv /\ TypeInv' /\ OneSender /\ SameContent /\ SeenTaken
  BY DEF OutboxInv, DeliveryInv
<1>1. ASSUME NEW i \in Ids, NEW c \in Contents, Enqueue(i, c)
      PROVE  [Ledger!LedgerNext]_(Ledger!ledger)
  BY <1>1, <1>t, QueueStep DEF Ledger!LedgerNext
<1>2. ASSUME NEW p \in posts, Take(p) PROVE [Ledger!LedgerNext]_(Ledger!ledger)
  BY <1>2, <1>t, TakeStep DEF Ledger!LedgerNext
<1>3. ASSUME NEW t \in Tasks, Validate(t) PROVE UNCHANGED Ledger!ledger
  BY <1>3, <1>t, AdvanceLedger DEF Validate, Stages, States, Final
<1>4. ASSUME NEW t \in Tasks, StartSending(t) PROVE UNCHANGED Ledger!ledger
  BY <1>4, <1>t, AdvanceLedger DEF StartSending, Stages, States, Final
<1>5. CASE Restart
  <2>1. \A j \in Ids : items'[j] = Recovered(items[j]) /\ items[j] \in Items \cup {None}
    BY <1>5, <1>t DEF Restart, TypeInv, TypeOK
  <2>2. UNCHANGED <<QueuedContent, Outcome>>
    BY <1>t, <2>1, RecoveredItem, SameLedger DEF Final
  <2>3. QED
    BY <1>5, <2>2 DEF Restart, Ledger!ledger, Told
<1>6. UNCHANGED <<items, taken, told>> => UNCHANGED Ledger!ledger
  BY DEF Ledger!ledger, QueuedContent, Outcome, Told
<1>7. ASSUME NEW t \in Tasks,
             Post(t) \/ Answered(t) \/ Refused(t) \/ TimedOut(t) \/ GiveUp(t) \/ Raise(t)
      PROVE  UNCHANGED Ledger!ledger
  BY <1>6, <1>7 DEF Post, Answered, Refused, TimedOut, GiveUp, Raise
<1>8. CASE UNCHANGED vars
  BY <1>6, <1>8 DEF vars
<1>9. QED
  BY <1>1, <1>2, <1>3, <1>4, <1>5, <1>7, <1>8, <1>t, TellStep, SettleStep
  DEF Next, Dispatching

\* The outbox with its racing dispatches, retries, lost answers, errors and
\* restarts implements the ledger: the first bytes queued stay, one outcome is
\* decided, as sent only after those bytes were taken, and no receipt is false.
THEOREM OutboxImplementsLedger == Spec => ImplementsLedger
<1>1. OutboxInv /\ OutboxInv' /\ [Next]_vars => [Ledger!LedgerNext]_(Ledger!ledger)
  BY NextLedger
<1>2. QED
  BY <1>1, InitOutbox, NextOutbox, InitLedger, PTL
  DEF Spec, ImplementsLedger, Ledger!LedgerSpec
=============================================================================
