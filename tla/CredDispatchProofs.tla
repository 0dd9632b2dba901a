---------------------- MODULE CredDispatchProofs ----------------------
(***************************************************************************)
(* Proofs about CredDispatch, for any types and dependencies, any number of *)
(* messages, dispatches and children, and all three Deviations: whatever    *)
(* order the wizard, the plug-ins and the completion thread run in, there   *)
(* is one batch at a time, an abort reaches it and the dependencies hold.   *)
(* Then about the end of an operation, as long as none of the three races   *)
(* occurs: its object is destroyed when nothing is at it, and the           *)
(* application's window goes when there is no operation.                    *)
(***************************************************************************)
EXTENDS CredDispatch, SequenceFacts

-----------------------------------------------------------------------------
(* What the invariant says of the threads and of the messages.              *)

LEMMA ThreadFacts == "ui" \in Threads /\ "completion" \in Threads /\ Owner \in Threads
BY DEF Threads, Owner

\* One thread at most makes a batch.
LEMMA OneDriver ==
    ASSUME Control, NEW x \in Threads, NEW y \in Threads, Drives(x), Drives(y)
    PROVE  x = y
BY DEF Control, Drives

\* Nothing is done about a batch by a plug-in while a thread makes the next,
\* except that a batch just posted is still held.
LEMMA BatchInWork ==
    ASSUME Shape, Delivery, Batches, NEW m \in Messages,
           msg[m].kind = "process", msg[m].todo # {}
    PROVE  Outstanding(m) \/ \E x \in Threads : run[x].pc = "commit" /\ run[x].call = m
BY DEF Delivery, Batches, Outstanding, Over

LEMMA OneInWork ==
    ASSUME Shape, Delivery, Control, Batches, NEW m \in Messages, NEW n \in Messages,
           msg[m].kind = "process", msg[m].todo # {},
           msg[n].kind = "process", msg[n].todo # {}
    PROVE  m = n
  <1>1. CASE Outstanding(m) /\ Outstanding(n)
    BY <1>1 DEF Batches
  <1>2. ASSUME NEW x \in Threads, run[x].pc = "commit", run[x].call = m
        PROVE  m = n
    <2>1. Drives(x)
      BY <1>2 DEF Drives
    <2>2. ~ Outstanding(n)
      BY <2>1 DEF Batches
    <2>3. PICK y \in Threads : run[y].pc = "commit" /\ run[y].call = n
      BY <2>2, BatchInWork
    <2>4. x = y
      BY <2>1, <2>3, OneDriver DEF Drives
    <2> QED
      BY <1>2, <2>3, <2>4
  <1>3. ASSUME NEW x \in Threads, run[x].pc = "commit", run[x].call = n
        PROVE  m = n
    <2>1. Drives(x)
      BY <1>3 DEF Drives
    <2>2. ~ Outstanding(m)
      BY <2>1 DEF Batches
    <2>3. PICK y \in Threads : run[y].pc = "commit" /\ run[y].call = m
      BY <2>2, BatchInWork
    <2>4. x = y
      BY <2>1, <2>3, OneDriver DEF Drives
    <2> QED
      BY <1>3, <2>3, <2>4
  <1> QED
    BY <1>1, <1>2, <1>3, BatchInWork

\* While a thread is at work on the next batch, or about to dispatch, nothing
\* of an earlier batch is left to do.
LEMMA NoneInWork ==
    ASSUME Shape, Delivery, Control, Batches, NEW m \in Messages, msg[m].kind = "process",
           \/ \E x \in Threads : run[x].pc \in {"level", "close", "post"}
           \/ nc.state = "none" /\ \E x \in Threads : run[x].pc = "dispatch"
    PROVE  msg[m].todo = {}
  <1> SUFFICES ASSUME msg[m].todo # {} PROVE FALSE
    OBVIOUS
  <1>1. CASE Outstanding(m)
    BY <1>1 DEF Batches, Drives
  <1>2. ASSUME NEW y \in Threads, run[y].pc = "commit"
        PROVE  FALSE
    <2>1. CASE \E x \in Threads : run[x].pc \in {"level", "close", "post"}
      <3>1. PICK x \in Threads : run[x].pc \in {"level", "close", "post"}
        BY <2>1
      <3>2. x = y
        BY <1>2, <3>1, OneDriver DEF Drives
      <3> QED
        BY <1>2, <3>1, <3>2
    <2>2. CASE nc.state = "none" /\ \E x \in Threads : run[x].pc = "dispatch"
      <3>1. PICK x \in Threads : run[x].pc = "dispatch"
        BY <2>2
      <3>2. x = Owner /\ y = Owner
        BY <1>2, <2>2, <3>1 DEF Control, Drives
      <3> QED
        BY <1>2, <3>1, <3>2
    <2> QED
      BY <2>1, <2>2
  <1> QED
    BY <1>1, <1>2, BatchInWork

-----------------------------------------------------------------------------
(* Queues.                                                                  *)

\* Sending a message that is free: it comes into the queues of its recipients,
\* and is not in any other place.
LEMMA SendKeeps ==
    ASSUME Shape, Delivery, UNCHANGED <<plugin, xfer, handling>>,
           NEW m \in Messages, NEW k \in {"process", "end"}, NEW to \in SUBSET Types,
           NEW held \in BOOLEAN, Send(m, k, to, held)
    PROVE  /\ Delivery'
           /\ inbox' \in [Types -> Seq(Messages)]
           /\ msg' \in [Messages -> MsgRecords]
           /\ msg'[m].kind = k /\ msg'[m].todo = to /\ msg'[m].held = held
           /\ \A n \in Messages \ {m} : msg'[n] = msg[n]
           /\ msg[m].kind = "free" /\ ~ msg[m].held /\ m \notin handling
  <1>1. /\ msg[m].kind = "free"
        /\ msg' = [msg EXCEPT ![m] = [Free EXCEPT !.kind = k, !.todo = to, !.held = held]]
        /\ inbox' = [t \in Types |-> IF t \in to THEN Append(inbox[t], m) ELSE inbox[t]]
    BY DEF Send
  <1>2. msg[m].todo = {} /\ ~ msg[m].held /\ m \notin handling /\ m \notin Completing
    BY <1>1 DEF Delivery, Over
  <1>3. ASSUME NEW t \in Types
        PROVE  /\ inbox'[t] \in Seq(Messages) /\ IsInjective(inbox'[t])
               /\ ToSet(inbox'[t]) = ToSet(inbox[t]) \cup (IF t \in to THEN {m} ELSE {})
    <2>1. inbox[t] \in Seq(Messages) /\ IsInjective(inbox[t]) /\ m \notin ToSet(inbox[t])
      BY <1>2 DEF Shape, Delivery, TakenOnce, Waiting
    <2>2. CASE t \in to
      BY <1>1, <2>1, <2>2, AppendFacts
    <2>3. CASE t \notin to
      BY <1>1, <2>1, <2>3
    <2> QED
      BY <2>2, <2>3
  <1>4. inbox' \in [Types -> Seq(Messages)]
    BY <1>1, <1>3
  <1>5. TakenOnce'
    BY <1>3 DEF Delivery, TakenOnce
  <1>6. \A t \in Types : Waiting(t)' = Waiting(t) \cup (IF t \in to THEN {m} ELSE {})
    BY <1>3 DEF Waiting
  <1>7. Completing' = Completing
    BY DEF Completing
  <1>8. \A t \in Types : plugin[t].m # m
    <2>1. None # m
      BY DispatchAssumption
    <2>2. \A t \in Types : plugin[t].pc # "idle" => t \in msg[plugin[t].m].todo
      BY DEF Delivery
    <2>3. \A t \in Types : plugin[t].pc = "idle" => plugin[t].m = None
      BY DEF Delivery
    <2> QED
      BY <1>2, <2>1, <2>2, <2>3
  <1>9. \A n \in Messages \ {m} : msg'[n] = msg[n]
    BY <1>1 DEF Shape
  <1>10. /\ msg'[m].kind = k /\ msg'[m].todo = to /\ msg'[m].held = held
         /\ msg'[m] \in MsgRecords
    BY <1>1 DEF Shape, Free, MsgRecords
  <1>11. /\ \A n \in Messages : (msg[n].kind = "free" => msg[n].todo = {} /\ ~ msg[n].held)'
         /\ \A n \in Messages : (msg[n].kind = "child" => msg[n].todo = {})'
    BY <1>9, <1>10 DEF Delivery
  <1>12. \A t \in Types : \A n \in Waiting(t)' : t \in msg'[n].todo /\ plugin'[t].m # n
    <2> SUFFICES ASSUME NEW t \in Types, NEW n \in Waiting(t)'
                 PROVE  t \in msg'[n].todo /\ plugin'[t].m # n
      OBVIOUS
    <2>1. CASE n = m
      BY <1>2, <1>6, <1>8, <1>10, <2>1 DEF Delivery
    <2>2. CASE n # m
      <3>1. n \in Waiting(t)
        BY <1>6, <2>2
      <3>2. n \in Messages
        <4>1. inbox[t] \in Seq(Messages)
          BY DEF Shape
        <4> QED
          BY <3>1, <4>1 DEF Waiting, ToSet
      <3> QED
        BY <1>9, <2>2, <3>1, <3>2 DEF Delivery
    <2> QED
      BY <2>1, <2>2
  <1>13. \A t \in Types : plugin'[t].pc # "idle" =>
           /\ plugin'[t].m \in Messages /\ t \in msg'[plugin'[t].m].todo
           /\ plugin'[t].pc \in {"process", "asking", "derived"} => msg'[plugin'[t].m].kind = "process"
           /\ plugin'[t].pc = "end" => msg'[plugin'[t].m].kind = "end"
    BY <1>8, <1>9 DEF Delivery
  <1>14. \A n \in Messages \ {m} : Over(n)' <=> Over(n)
    BY <1>9 DEF Over
  <1>15. (\A n \in Completing' : Over(n)' /\ n \notin handling') /\ \A n \in handling' : Over(n)'
    <2>1. Completing \subseteq Messages
      BY DEF Shape, Completing, ToSet
    <2> QED
      BY <1>2, <1>7, <1>14, <2>1 DEF Delivery, Shape
  <1>16. Delivery'
    BY <1>5, <1>11, <1>12, <1>13, <1>15 DEF Delivery
  <1>17. msg' \in [Messages -> MsgRecords]
    BY <1>1, <1>9, <1>10 DEF Shape
  <1> QED
    BY <1>1, <1>2, <1>4, <1>9, <1>10, <1>16, <1>17

-----------------------------------------------------------------------------
(* What an action leaves alone, in terms of the parts of the invariant.     *)

LEMMA DeliveryFrame ==
    ASSUME Delivery, UNCHANGED <<msg, inbox, plugin, xfer, handling>>
    PROVE  Delivery'
BY DEF Delivery, TakenOnce, Waiting, Completing, Over

LEMMA OrderedFrame ==
    ASSUME Ordered, UNCHANGED <<msg, flags>>,
           \A x \in Threads : run'[x].pc = "post" => run[x].pc = "post" /\ run'[x].subs = run[x].subs
    PROVE  Ordered'
BY DEF Ordered, Independent, Good

\* A thread goes on, its local variables as they are; or starts something new.
LEMMA GoesOn ==
    ASSUME Shape, NEW x \in Threads, NEW l \in Pcs, goto(x, l)
    PROVE  /\ run' \in [Threads -> RunRecords]
           /\ run'[x].pc = l /\ run'[x].for = run[x].for /\ run'[x].subs = run[x].subs
           /\ run'[x].call = run[x].call
           /\ \A y \in Threads \ {x} : run'[y] = run[y]
  <1>1. run \in [Threads -> RunRecords] /\ run' = [run EXCEPT ![x].pc = l]
    BY DEF Shape, goto
  <1>2. run[x] \in RunRecords
    BY <1>1
  <1>3. run'[x] = [run[x] EXCEPT !.pc = l] /\ \A y \in Threads \ {x} : run'[y] = run[y]
    BY <1>1
  <1>4. /\ run'[x] \in RunRecords
        /\ run'[x].pc = l /\ run'[x].for = run[x].for /\ run'[x].subs = run[x].subs
        /\ run'[x].call = run[x].call
    BY <1>2, <1>3 DEF RunRecords
  <1> QED
    BY <1>1, <1>3, <1>4

LEMMA IdleIsRun == Idle \in RunRecords
BY DEF Idle, RunRecords, Pcs

LEMMA StartsNew ==
    ASSUME Shape, NEW x \in Threads, NEW l \in Pcs,
           NEW for \in {"nothing", "operation", "child", "dispatch", "handler"},
           NEW r, r = [Idle EXCEPT !.pc = l, !.for = for], run' = [run EXCEPT ![x] = r]
    PROVE  /\ run' \in [Threads -> RunRecords]
           /\ run'[x].pc = l /\ run'[x].for = for
           /\ \A y \in Threads \ {x} : run'[y] = run[y]
  <1>1. run'[x] = r /\ \A y \in Threads \ {x} : run'[y] = run[y]
    BY DEF Shape
  <1>2. run'[x].pc = l /\ run'[x].for = for /\ run'[x] \in RunRecords
    <2>1. run'[x] \in RunRecords
      <3>1. ASSUME NEW q \in RunRecords
            PROVE  [q EXCEPT !.pc = l, !.for = for] \in RunRecords
        BY DEF RunRecords
      <3> QED
        BY <1>1, <3>1, IdleIsRun
    <2>2. run'[x].pc = l /\ run'[x].for = for
      BY <1>1, ZenonT(60) DEF Idle
    <2> QED
      BY <2>1, <2>2
  <1> QED
    BY <1>1, <1>2 DEF Shape

LEMMA StartsOrRests ==
    ASSUME Shape, NEW x \in Threads, NEW l \in Pcs,
           run' = [run EXCEPT ![x] = [Idle EXCEPT !.pc = l]]
    PROVE  /\ run' \in [Threads -> RunRecords]
           /\ run'[x].pc = l /\ run'[x].for = "nothing"
           /\ \A y \in Threads \ {x} : run'[y] = run[y]
  <1>1. run'[x] = [Idle EXCEPT !.pc = l] /\ \A y \in Threads \ {x} : run'[y] = run[y]
    BY DEF Shape
  <1>2. run'[x].pc = l /\ run'[x].for = "nothing" /\ run'[x] \in RunRecords
    <2>1. run'[x] \in RunRecords
      BY <1>1, IdleIsRun DEF RunRecords
    <2>2. run'[x].pc = l /\ run'[x].for = "nothing"
      BY <1>1 DEF Idle
    <2> QED
      BY <2>1, <2>2
  <1> QED
    BY <1>1, <1>2 DEF Shape

LEMMA AfterEndFacts ==
    ASSUME NEW x \in Threads
    PROVE  /\ AfterEnd(x) \in {"destroy", "report", "idle"}
           /\ AfterEnd(x) = "idle" => run[x].for \notin {"operation", "child"}
           /\ AfterEnd(x) = "destroy" => run[x].for = "operation"
           /\ AfterEnd(x) = "report" => run[x].for = "child"
BY DEF AfterEnd

LEMMA DeliveryPlugin ==
    ASSUME Delivery, UNCHANGED <<msg, inbox, xfer, handling>>,
           \A t \in Types :
             /\ plugin'[t].m = plugin[t].m
             /\ plugin'[t].pc = "idle" <=> plugin[t].pc = "idle"
             /\ plugin'[t].pc \in {"process", "asking", "derived"} =>
                  plugin[t].pc \in {"process", "asking", "derived"}
             /\ plugin'[t].pc = "end" => plugin[t].pc = "end"
    PROVE  Delivery'
BY DEF Delivery, TakenOnce, Waiting, Completing, Over

LEMMA Rests ==
    ASSUME Shape, NEW x \in Threads, run' = [run EXCEPT ![x] = Idle]
    PROVE  /\ run' \in [Threads -> RunRecords]
           /\ run'[x].pc = "idle" /\ run'[x].for = "nothing"
           /\ \A y \in Threads \ {x} : run'[y] = run[y]
  <1>1. run'[x] = Idle /\ \A y \in Threads \ {x} : run'[y] = run[y]
    BY DEF Shape
  <1>2. run' \in [Threads -> RunRecords]
    BY <1>1, IdleIsRun DEF Shape
  <1> QED
    BY <1>1, <1>2 DEF Idle

LEMMA ReadyIndependent == Shape => Independent(Ready)
  <1> SUFFICES ASSUME Shape, NEW t \in Ready PROVE Good(t) /\ DepsOf[t] \cap Ready = {}
    BY DEF Independent
  <1>1. ASSUME NEW d \in DepsOf[t]
        PROVE  /\ "disabled" \in flags[d] \/ {"completed", "failed"} \cap flags[d] = {"completed"}
               /\ d \notin Ready
    BY DEF Ready, Met
  <1> QED
    BY <1>1 DEF Good

\* Marking types as processed disturbs no order.
LEMMA MarkedOrdered ==
    ASSUME Shape, NEW S, flags' = [t \in Types |-> flags[t] \cup (IF t \in S THEN {"processed"} ELSE {})],
           NEW T \in SUBSET Types, Independent(T)
    PROVE  Independent(T)'
  <1>1. ASSUME NEW t \in T PROVE Good(t)'
    <2> SUFFICES ASSUME NEW d \in DepsOf[t]
                 PROVE  "disabled" \in flags'[d] \/ {"completed", "failed"} \cap flags'[d] = {"completed"}
      BY DEF Good
    <2>1. d \in Types
      BY DispatchAssumption
    <2>2. "disabled" \in flags[d] \/ {"completed", "failed"} \cap flags[d] = {"completed"}
      BY <1>1 DEF Independent, Good
    <2>3. flags'[d] = flags[d] \/ flags'[d] = flags[d] \cup {"processed"}
      BY <2>1
    <2> QED
      BY <2>2, <2>3
  <1> QED
    BY <1>1 DEF Independent

-----------------------------------------------------------------------------
(* Beginning and ending operations, and the application's exit.             *)

LEMMA BeginCountKeeps ==
    ASSUME IInv, NEW x \in Threads, BeginCount(x)
    PROVE  IInv'
  <1>1. /\ run[x].pc = "begin" /\ goto(x, "began")
        /\ app' = [app EXCEPT !.pending = app.pending + 1]
        /\ UNCHANGED <<kind, nc, flags, cs, msg, inbox, plugin, xfer, handling, wizard, wnd, children>>
    BY DEF BeginCount, CountOne
  <1>2. /\ run' \in [Threads -> RunRecords]
        /\ run'[x].pc = "began" /\ run'[x].for = run[x].for
        /\ run'[x].subs = run[x].subs /\ run'[x].call = run[x].call
        /\ \A y \in Threads \ {x} : run'[y] = run[y]
    <2>1. "began" \in Pcs
      BY <1>1 DEF Pcs
    <2> QED
      BY <1>1, <2>1, GoesOn, ThreadFacts DEF IInv
  <1>3. Shape'
    <2>1. app' \in AppRecords
      <3>1. app \in AppRecords
        BY DEF IInv, Shape
      <3> QED
        BY <1>1, <3>1 DEF AppRecords
    <2> QED
      BY <1>1, <1>2, <2>1 DEF IInv, Shape
  <1>4. Delivery'
    BY <1>1, <1>2, DeliveryFrame DEF IInv
  <1>5. NotBegun'
    BY <1>1, <1>2, ThreadFacts DEF IInv, NotBegun, Owner
  <1>6. Control'
    BY <1>1, <1>2, ThreadFacts DEF IInv, Control, Drives, Owner
  <1>7. Batches'
    BY <1>1, <1>2, ThreadFacts DEF IInv, Batches, Outstanding, Drives
  <1>8. Open'
    BY <1>1, <1>2, ThreadFacts DEF IInv, Open, IsOpen
  <1>9. Ordered'
    BY <1>1, <1>2, OrderedFrame DEF IInv
  <1> QED
    BY <1>3, <1>4, <1>5, <1>6, <1>7, <1>8, <1>9 DEF IInv

LEMMA OperationBeginsKeeps ==
    ASSUME IInv, NEW x \in Threads, BeginAccepted(x), run[x].for = "operation"
    PROVE  IInv'
  <1>1. /\ run[x].pc = "began" /\ run[x].for = "operation" /\ run' = [run EXCEPT ![x] = Idle]
        /\ nc' = [nc EXCEPT !.alive = TRUE, !.types = Types,
                           !.result = IF kind = "renew" THEN "process" ELSE "cancel"]
        /\ wizard' = IF kind = "dialog" THEN [wizard EXCEPT !.page = "options"] ELSE wizard
        /\ UNCHANGED <<kind, flags, cs, msg, inbox, plugin, xfer, handling, wnd, children, app>>
    BY DEF BeginAccepted
  <1>2. /\ run' \in [Threads -> RunRecords]
        /\ run'[x].pc = "idle" /\ run'[x].for = "nothing"
        /\ \A y \in Threads \ {x} : run'[y] = run[y]
    BY <1>1, Rests, ThreadFacts DEF IInv
  <1>3. Shape'
    <2>1. nc' \in NcRecords
      BY <1>1 DEF IInv, Shape, NcRecords
    <2>2. wizard' \in WizardRecords
      BY <1>1 DEF IInv, Shape, WizardRecords
    <2> QED
      BY <1>1, <1>2, <2>1, <2>2 DEF IInv, Shape
  <1>4. Delivery'
    BY <1>1, <1>2, DeliveryFrame DEF IInv
  <1>5. NotBegun'
    BY <1>1, <1>2, ThreadFacts DEF IInv, NotBegun, Owner
  <1>6. Control'
    BY <1>1, <1>2, ThreadFacts DEF IInv, Control, Drives, Owner
  <1>7. Batches'
    <2>1. \A m \in Messages : msg[m].kind = "free"
      BY <1>1 DEF IInv, NotBegun
    <2>2. nc.last = None
      BY <2>1 DEF IInv, Shape, NcRecords, Batches, Outstanding
    <2>3. nc.state = "none"
      BY <1>1, <2>1, ThreadFacts DEF IInv, Batches, Outstanding, Drives, NotBegun
    <2>4. nc'.last = nc.last /\ nc'.state = nc.state
      BY <1>1 DEF IInv, Shape, NcRecords
    <2> QED
      BY <1>1, <1>2, <2>1, <2>2, <2>3, <2>4 DEF IInv, Batches, Outstanding, Drives, Delivery
  <1>8. Open'
    <2>1. \A m \in Messages : msg[m].kind = "free"
      BY <1>1 DEF IInv, NotBegun
    <2>2. nc'.alive /\ (kind = "renew" => wizard'.page = "none")
      BY <1>1 DEF IInv, Shape, NcRecords, NotBegun
    <2>3. \A y \in Threads : run'[y].for = "nothing"
      BY <1>1, <1>2 DEF IInv, NotBegun
    <2> QED
      BY <1>1, <2>1, <2>2, <2>3 DEF Open
  <1>9. Ordered'
    BY <1>1, <1>2, OrderedFrame DEF IInv
  <1> QED
    BY <1>3, <1>4, <1>5, <1>6, <1>7, <1>8, <1>9 DEF IInv

LEMMA ChildBeginsKeeps ==
    ASSUME IInv, NEW x \in Threads, BeginAccepted(x), run[x].for # "operation"
    PROVE  IInv'
  <1>1. /\ run[x].pc = "began" /\ run[x].for # "operation" /\ run' = [run EXCEPT ![x] = Idle]
        /\ children' = children + 1
        /\ plugin' = [t \in Types |-> IF plugin[t].pc = "asking"
                                     THEN [plugin[t] EXCEPT !.pc = "derived"] ELSE plugin[t]]
        /\ UNCHANGED <<kind, nc, flags, cs, msg, inbox, xfer, handling, wizard, wnd, app>>
    BY DEF BeginAccepted
  <1>0. /\ plugin' \in [Types -> PluginRecords]
        /\ \A t \in Types : /\ plugin'[t].m = plugin[t].m
                            /\ \/ plugin'[t].pc = plugin[t].pc
                               \/ plugin[t].pc = "asking" /\ plugin'[t].pc = "derived"
    <2>1. ASSUME NEW t \in Types
          PROVE  /\ plugin'[t] \in PluginRecords /\ plugin'[t].m = plugin[t].m
                 /\ \/ plugin'[t].pc = plugin[t].pc
                    \/ plugin[t].pc = "asking" /\ plugin'[t].pc = "derived"
      <3>1. plugin[t] \in PluginRecords
        BY DEF IInv, Shape
      <3>2. plugin'[t] = IF plugin[t].pc = "asking" THEN [plugin[t] EXCEPT !.pc = "derived"] ELSE plugin[t]
        BY <1>1
      <3>3. CASE plugin[t].pc = "asking"
        <4>1. plugin'[t] = [plugin[t] EXCEPT !.pc = "derived"]
          BY <3>2, <3>3
        <4> QED
          BY <3>1, <3>3, <4>1 DEF PluginRecords
      <3>4. CASE plugin[t].pc # "asking"
        BY <3>1, <3>2, <3>4
      <3> QED
        BY <3>3, <3>4
    <2> QED
      BY <1>1, <2>1
  <1>2. /\ run' \in [Threads -> RunRecords]
        /\ run'[x].pc = "idle" /\ run'[x].for = "nothing"
        /\ \A y \in Threads \ {x} : run'[y] = run[y]
    BY <1>1, Rests, ThreadFacts DEF IInv
  <1>3. Shape'
    <2>1. children + 1 \in Int
      BY DEF IInv, Shape
    <2> QED
      BY <1>0, <1>1, <1>2, <2>1 DEF IInv, Shape
  <1>4. Delivery'
    BY <1>0, <1>1, DeliveryPlugin DEF IInv
  <1>5. NotBegun'
    BY <1>0, <1>1, <1>2, ThreadFacts DEF IInv, NotBegun, Owner
  <1>6. Control'
    BY <1>0, <1>1, <1>2, ThreadFacts DEF IInv, Control, Drives, Owner
  <1>7. Batches'
    BY <1>0, <1>1, <1>2, ThreadFacts DEF IInv, Batches, Outstanding, Drives
  <1>8. Open'
    BY <1>0, <1>1, <1>2, ThreadFacts DEF IInv, Open, IsOpen
  <1>9. Ordered'
    BY <1>0, <1>1, <1>2, OrderedFrame DEF IInv
  <1> QED
    BY <1>3, <1>4, <1>5, <1>6, <1>7, <1>8, <1>9 DEF IInv

LEMMA BeginAcceptedKeeps ==
    ASSUME IInv, NEW x \in Threads, BeginAccepted(x)
    PROVE  IInv'
BY OperationBeginsKeeps, ChildBeginsKeeps

LEMMA BeginRefusedKeeps ==
    ASSUME IInv, NEW x \in Threads, BeginRefused(x)
    PROVE  IInv'
  <1>1. /\ run[x].pc = "began" /\ run' = [run EXCEPT ![x] = [Idle EXCEPT !.pc = "end"]]
        /\ plugin' = [t \in Types |-> IF run[x].for = "child" /\ plugin[t].pc = "asking"
                                     THEN [plugin[t] EXCEPT !.pc = "derived"] ELSE plugin[t]]
        /\ UNCHANGED <<kind, nc, flags, cs, msg, inbox, xfer, handling, wizard, wnd, children, app>>
    BY DEF BeginRefused, GivesBack
  <1>0. /\ plugin' \in [Types -> PluginRecords]
        /\ \A t \in Types : /\ plugin'[t].m = plugin[t].m
                            /\ \/ plugin'[t].pc = plugin[t].pc
                               \/ plugin[t].pc = "asking" /\ plugin'[t].pc = "derived"
    <2>1. ASSUME NEW t \in Types
          PROVE  /\ plugin'[t] \in PluginRecords /\ plugin'[t].m = plugin[t].m
                 /\ \/ plugin'[t].pc = plugin[t].pc
                    \/ plugin[t].pc = "asking" /\ plugin'[t].pc = "derived"
      <3>1. plugin[t] \in PluginRecords
        BY DEF IInv, Shape
      <3>2. plugin'[t] = IF run[x].for = "child" /\ plugin[t].pc = "asking" THEN [plugin[t] EXCEPT !.pc = "derived"] ELSE plugin[t]
        BY <1>1
      <3>3. CASE run[x].for = "child" /\ plugin[t].pc = "asking"
        <4>1. plugin'[t] = [plugin[t] EXCEPT !.pc = "derived"]
          BY <3>2, <3>3
        <4> QED
          BY <3>1, <3>3, <4>1 DEF PluginRecords
      <3>4. CASE ~ (run[x].for = "child" /\ plugin[t].pc = "asking")
        BY <3>1, <3>2, <3>4
      <3> QED
        BY <3>3, <3>4
    <2> QED
      BY <1>1, <2>1
  <1>2. /\ run' \in [Threads -> RunRecords]
        /\ run'[x].pc = "end" /\ run'[x].for = "nothing"
        /\ \A y \in Threads \ {x} : run'[y] = run[y]
    <2>1. "end" \in Pcs
      BY DEF Pcs
    <2> QED
      BY <1>1, <2>1, StartsOrRests, ThreadFacts DEF IInv
  <1>3. Shape'
    BY <1>0, <1>1, <1>2 DEF IInv, Shape
  <1>4. Delivery'
    BY <1>0, <1>1, DeliveryPlugin DEF IInv
  <1>5. NotBegun'
    BY <1>0, <1>1, <1>2, ThreadFacts DEF IInv, NotBegun, Owner
  <1>6. Control'
    BY <1>0, <1>1, <1>2, ThreadFacts DEF IInv, Control, Drives, Owner
  <1>7. Batches'
    BY <1>0, <1>1, <1>2, ThreadFacts DEF IInv, Batches, Outstanding, Drives
  <1>8. Open'
    BY <1>0, <1>1, <1>2, ThreadFacts DEF IInv, Open, IsOpen
  <1>9. Ordered'
    BY <1>0, <1>1, <1>2, OrderedFrame DEF IInv
  <1> QED
    BY <1>3, <1>4, <1>5, <1>6, <1>7, <1>8, <1>9 DEF IInv

LEMMA EndReadKeeps ==
    ASSUME IInv, NEW x \in Threads, EndRead(x)
    PROVE  IInv'
  <1>1. /\ run[x].pc = "end"
        /\ run' = [run EXCEPT ![x].pc = "uncount", ![x].exiting = app.exiting]
        /\ UNCHANGED <<kind, nc, flags, cs, msg, inbox, plugin, xfer, handling, wizard, wnd, children, app>>
    BY DEF EndRead
  <1>2. /\ run' \in [Threads -> RunRecords]
        /\ run'[x].pc = "uncount" /\ run'[x].for = run[x].for
        /\ run'[x].subs = run[x].subs /\ run'[x].call = run[x].call
        /\ \A y \in Threads \ {x} : run'[y] = run[y]
    <2>1. run[x] \in RunRecords /\ app.exiting \in BOOLEAN
      BY DEF IInv, Shape, AppRecords
    <2>2. run'[x] = [run[x] EXCEPT !.pc = "uncount", !.exiting = app.exiting]
          /\ \A y \in Threads \ {x} : run'[y] = run[y]
      BY <1>1 DEF IInv, Shape
    <2>3. ASSUME NEW r \in RunRecords, NEW s, s = [r EXCEPT !.pc = "uncount", !.exiting = app.exiting]
          PROVE  /\ s \in RunRecords /\ s.pc = "uncount"
                 /\ s.for = r.for /\ s.subs = r.subs /\ s.call = r.call
      BY <2>1, <2>3 DEF RunRecords, Pcs
    <2>4. run' \in [Threads -> RunRecords]
      BY <1>1, <2>1, <2>2, <2>3 DEF IInv, Shape
    <2> QED
      BY <2>1, <2>2, <2>3, <2>4
  <1>3. Shape'
    BY <1>1, <1>2 DEF IInv, Shape
  <1>4. Delivery'
    BY <1>1, <1>2, DeliveryFrame DEF IInv
  <1>5. NotBegun'
    BY <1>1, <1>2, ThreadFacts DEF IInv, NotBegun, Owner
  <1>6. Control'
    BY <1>1, <1>2, ThreadFacts DEF IInv, Control, Drives, Owner
  <1>7. Batches'
    BY <1>1, <1>2, ThreadFacts DEF IInv, Batches, Outstanding, Drives
  <1>8. Open'
    BY <1>1, <1>2, ThreadFacts DEF IInv, Open, IsOpen
  <1>9. Ordered'
    BY <1>1, <1>2, OrderedFrame DEF IInv
  <1> QED
    BY <1>3, <1>4, <1>5, <1>6, <1>7, <1>8, <1>9 DEF IInv

LEMMA EndCountKeeps ==
    ASSUME IInv, NEW x \in Threads, EndCount(x)
    PROVE  IInv'
  <1>0. /\ run[x].pc = "uncount"
        /\ app' = [app EXCEPT !.pending = @ - 1]
        /\ UNCHANGED <<kind, nc, flags, cs, msg, inbox, plugin, xfer, handling, wizard, wnd, children>>
    BY DEF EndCount
  <1>1. PICK l \in {"exit", "destroy", "report", "idle"} :
          /\ goto(x, l)
          /\ l = "idle" => run[x].for \notin {"operation", "child"}
          /\ l = "destroy" => run[x].for = "operation"
          /\ l = "report" => run[x].for = "child"
    BY AfterEndFacts DEF EndCount
  <1>2. /\ run' \in [Threads -> RunRecords]
        /\ run'[x].pc = l /\ run'[x].for = run[x].for
        /\ run'[x].subs = run[x].subs /\ run'[x].call = run[x].call
        /\ \A y \in Threads \ {x} : run'[y] = run[y]
    <2>1. l \in Pcs
      BY <1>1 DEF Pcs
    <2> QED
      BY <1>1, <2>1, GoesOn, ThreadFacts DEF IInv
  <1>3. Shape'
    <2>1. app' \in AppRecords
      <3>1. app \in AppRecords
        BY DEF IInv, Shape
      <3> QED
        BY <1>0, <3>1 DEF AppRecords
    <2> QED
      BY <1>0, <1>2, <2>1 DEF IInv, Shape
  <1>4. Delivery'
    BY <1>0, <1>1, <1>2, DeliveryFrame DEF IInv
  <1>5. NotBegun'
    BY <1>0, <1>1, <1>2, ThreadFacts DEF IInv, NotBegun, Owner
  <1>6. Control'
    BY <1>0, <1>1, <1>2, ThreadFacts DEF IInv, Control, Drives, Owner
  <1>7. Batches'
    BY <1>0, <1>1, <1>2, ThreadFacts DEF IInv, Batches, Outstanding, Drives
  <1>8. Open'
    BY <1>0, <1>1, <1>2, ThreadFacts DEF IInv, Open, IsOpen
  <1>9. Ordered'
    BY <1>0, <1>1, <1>2, OrderedFrame DEF IInv
  <1> QED
    BY <1>3, <1>4, <1>5, <1>6, <1>7, <1>8, <1>9 DEF IInv

LEMMA ExitCountKeeps ==
    ASSUME IInv, NEW x \in Threads, ExitCount(x)
    PROVE  IInv'
  <1>1. /\ run[x].pc = "exit" /\ goto(x, "exiting")
        /\ app' = [app EXCEPT !.exiting = TRUE]
        /\ UNCHANGED <<kind, nc, flags, cs, msg, inbox, plugin, xfer, handling, wizard, wnd, children>>
    BY DEF ExitCount
  <1>2. /\ run' \in [Threads -> RunRecords]
        /\ run'[x].pc = "exiting" /\ run'[x].for = run[x].for
        /\ run'[x].subs = run[x].subs /\ run'[x].call = run[x].call
        /\ \A y \in Threads \ {x} : run'[y] = run[y]
    <2>1. "exiting" \in Pcs
      BY <1>1 DEF Pcs
    <2> QED
      BY <1>1, <2>1, GoesOn, ThreadFacts DEF IInv
  <1>3. Shape'
    <2>1. app' \in AppRecords
      <3>1. app \in AppRecords
        BY DEF IInv, Shape
      <3> QED
        BY <1>1, <3>1 DEF AppRecords
    <2> QED
      BY <1>1, <1>2, <2>1 DEF IInv, Shape
  <1>4. Delivery'
    BY <1>1, <1>2, DeliveryFrame DEF IInv
  <1>5. NotBegun'
    BY <1>1, <1>2, ThreadFacts DEF IInv, NotBegun, Owner
  <1>6. Control'
    BY <1>1, <1>2, ThreadFacts DEF IInv, Control, Drives, Owner
  <1>7. Batches'
    BY <1>1, <1>2, ThreadFacts DEF IInv, Batches, Outstanding, Drives
  <1>8. Open'
    BY <1>1, <1>2, ThreadFacts DEF IInv, Open, IsOpen
  <1>9. Ordered'
    BY <1>1, <1>2, OrderedFrame DEF IInv
  <1> QED
    BY <1>3, <1>4, <1>5, <1>6, <1>7, <1>8, <1>9 DEF IInv

LEMMA ExitWindowKeeps ==
    ASSUME IInv, NEW x \in Threads, ExitWindow(x)
    PROVE  IInv'
  <1>0. /\ run[x].pc = "exiting"
        /\ app' \in {app, [app EXCEPT !.window = FALSE]}
        /\ UNCHANGED <<kind, nc, flags, cs, msg, inbox, plugin, xfer, handling, wizard, wnd, children>>
    BY DEF ExitWindow
  <1>1. PICK l \in {"destroy", "report", "idle"} :
          /\ goto(x, l)
          /\ l = "idle" => run[x].for \notin {"operation", "child"}
          /\ l = "destroy" => run[x].for = "operation"
          /\ l = "report" => run[x].for = "child"
    BY AfterEndFacts DEF ExitWindow
  <1>2. /\ run' \in [Threads -> RunRecords]
        /\ run'[x].pc = l /\ run'[x].for = run[x].for
        /\ run'[x].subs = run[x].subs /\ run'[x].call = run[x].call
        /\ \A y \in Threads \ {x} : run'[y] = run[y]
    <2>1. l \in Pcs
      BY <1>1 DEF Pcs
    <2> QED
      BY <1>1, <2>1, GoesOn, ThreadFacts DEF IInv
  <1>3. Shape'
    <2>1. app' \in AppRecords
      <3>1. app \in AppRecords
        BY DEF IInv, Shape
      <3> QED
        BY <1>0, <3>1 DEF AppRecords
    <2> QED
      BY <1>0, <1>2, <2>1 DEF IInv, Shape
  <1>4. Delivery'
    BY <1>0, <1>1, <1>2, DeliveryFrame DEF IInv
  <1>5. NotBegun'
    BY <1>0, <1>1, <1>2, ThreadFacts DEF IInv, NotBegun, Owner
  <1>6. Control'
    BY <1>0, <1>1, <1>2, ThreadFacts DEF IInv, Control, Drives, Owner
  <1>7. Batches'
    BY <1>0, <1>1, <1>2, ThreadFacts DEF IInv, Batches, Outstanding, Drives
  <1>8. Open'
    BY <1>0, <1>1, <1>2, ThreadFacts DEF IInv, Open, IsOpen
  <1>9. Ordered'
    BY <1>0, <1>1, <1>2, OrderedFrame DEF IInv
  <1> QED
    BY <1>3, <1>4, <1>5, <1>6, <1>7, <1>8, <1>9 DEF IInv

LEMMA UserExitsKeeps ==
    ASSUME IInv, UserExits
    PROVE  IInv'
  <1>1. /\ run["ui"].pc = "idle"
        /\ run' = [run EXCEPT !["ui"] = [Idle EXCEPT !.pc = "exit"]]
        /\ UNCHANGED <<kind, nc, flags, cs, msg, inbox, plugin, xfer, handling, wizard, wnd, children, app>>
    BY DEF UserExits
  <1>2. /\ run' \in [Threads -> RunRecords]
        /\ run'["ui"].pc = "exit" /\ run'["ui"].for = "nothing"
        /\ \A y \in Threads \ {"ui"} : run'[y] = run[y]
    <2>1. "exit" \in Pcs
      BY DEF Pcs
    <2> QED
      BY <1>1, <2>1, StartsOrRests, ThreadFacts DEF IInv
  <1>3. Shape'
    BY <1>1, <1>2 DEF IInv, Shape
  <1>4. Delivery'
    BY <1>1, <1>2, DeliveryFrame DEF IInv
  <1>5. NotBegun'
    BY <1>1, <1>2, ThreadFacts DEF IInv, NotBegun, Owner
  <1>6. Control'
    BY <1>1, <1>2, ThreadFacts DEF IInv, Control, Drives, Owner
  <1>7. Batches'
    BY <1>1, <1>2, ThreadFacts DEF IInv, Batches, Outstanding, Drives
  <1>8. Open'
    BY <1>1, <1>2, ThreadFacts DEF IInv, Open, IsOpen
  <1>9. Ordered'
    BY <1>1, <1>2, OrderedFrame DEF IInv
  <1> QED
    BY <1>3, <1>4, <1>5, <1>6, <1>7, <1>8, <1>9 DEF IInv

LEMMA DestroyKeeps ==
    ASSUME IInv, NEW x \in Threads, Destroy(x)
    PROVE  IInv'
  <1>1. /\ run[x].pc = "destroy" /\ goto(x, "return")
        /\ nc' = [nc EXCEPT !.alive = FALSE, !.last = None]
        /\ UNCHANGED <<kind, flags, cs, msg, inbox, plugin, xfer, handling, wizard, wnd, children, app>>
    BY DEF Destroy
  <1>2. /\ run' \in [Threads -> RunRecords]
        /\ run'[x].pc = "return" /\ run'[x].for = run[x].for
        /\ run'[x].subs = run[x].subs /\ run'[x].call = run[x].call
        /\ \A y \in Threads \ {x} : run'[y] = run[y]
    <2>1. "return" \in Pcs
      BY <1>1 DEF Pcs
    <2> QED
      BY <1>1, <2>1, GoesOn, ThreadFacts DEF IInv
  <1>3. Shape'
    <2>1. nc' \in NcRecords
      <3>1. nc \in NcRecords
        BY DEF IInv, Shape
      <3> QED
        BY <1>1, <3>1 DEF NcRecords
    <2> QED
      BY <1>1, <1>2, <2>1 DEF IInv, Shape
  <1>4. Delivery'
    BY <1>1, <1>2, DeliveryFrame DEF IInv
  <1>5. NotBegun'
    BY <1>1, <1>2, ThreadFacts DEF IInv, NotBegun, Owner
  <1>6. Control'
    BY <1>1, <1>2, ThreadFacts DEF IInv, Control, Drives, Owner
  <1>7. Batches'
    BY <1>1, <1>2, ThreadFacts DEF IInv, Batches, Outstanding, Drives
  <1>8. Open'
    <2>1. ~ IsOpen
      BY <1>1 DEF IInv, Control, Open
    <2> QED
      BY <1>1, <2>1 DEF IInv, Open, IsOpen
  <1>9. Ordered'
    BY <1>1, <1>2, OrderedFrame DEF IInv
  <1> QED
    BY <1>3, <1>4, <1>5, <1>6, <1>7, <1>8, <1>9 DEF IInv

LEMMA ChildReportKeeps ==
    ASSUME IInv, NEW x \in Threads, ChildReport(x)
    PROVE  IInv'
  <1>1. /\ run[x].pc = "report"
        /\ run' = [run EXCEPT ![x].pc = "uncount_child", ![x].n = nc.children]
        /\ UNCHANGED <<kind, nc, flags, cs, msg, inbox, plugin, xfer, handling, wizard, wnd, children, app>>
    BY DEF ChildReport
  <1>2. /\ run' \in [Threads -> RunRecords]
        /\ run'[x].pc = "uncount_child" /\ run'[x].for = run[x].for
        /\ run'[x].subs = run[x].subs /\ run'[x].call = run[x].call
        /\ \A y \in Threads \ {x} : run'[y] = run[y]
    <2>1. run[x] \in RunRecords /\ nc.children \in Int
      BY DEF IInv, Shape, NcRecords
    <2>2. run'[x] = [run[x] EXCEPT !.pc = "uncount_child", !.n = nc.children]
          /\ \A y \in Threads \ {x} : run'[y] = run[y]
      BY <1>1 DEF IInv, Shape
    <2>3. ASSUME NEW r \in RunRecords, NEW s, s = [r EXCEPT !.pc = "uncount_child", !.n = nc.children]
          PROVE  /\ s \in RunRecords /\ s.pc = "uncount_child"
                 /\ s.for = r.for /\ s.subs = r.subs /\ s.call = r.call
      BY <2>1, <2>3 DEF RunRecords, Pcs
    <2>4. run' \in [Threads -> RunRecords]
      BY <1>1, <2>1, <2>2, <2>3 DEF IInv, Shape
    <2> QED
      BY <2>1, <2>2, <2>3, <2>4
  <1>3. Shape'
    BY <1>1, <1>2 DEF IInv, Shape
  <1>4. Delivery'
    BY <1>1, <1>2, DeliveryFrame DEF IInv
  <1>5. NotBegun'
    BY <1>1, <1>2, ThreadFacts DEF IInv, NotBegun, Owner
  <1>6. Control'
    BY <1>1, <1>2, ThreadFacts DEF IInv, Control, Drives, Owner
  <1>7. Batches'
    BY <1>1, <1>2, ThreadFacts DEF IInv, Batches, Outstanding, Drives
  <1>8. Open'
    BY <1>1, <1>2, ThreadFacts DEF IInv, Open, IsOpen
  <1>9. Ordered'
    BY <1>1, <1>2, OrderedFrame DEF IInv
  <1> QED
    BY <1>3, <1>4, <1>5, <1>6, <1>7, <1>8, <1>9 DEF IInv

LEMMA ChildUncountKeeps ==
    ASSUME IInv, NEW x \in Threads, ChildUncount(x)
    PROVE  IInv'
  <1>0. /\ run[x].pc = "uncount_child"
        /\ nc' = [nc EXCEPT !.children = run[x].n - 1]
        /\ children' = children - 1
        /\ UNCHANGED <<kind, flags, cs, msg, inbox, plugin, xfer, handling, wizard, wnd, app>>
    BY DEF ChildUncount
  <1>1. PICK l \in {"tell_parent", "return"} : goto(x, l)
    BY DEF ChildUncount
  <1>2. /\ run' \in [Threads -> RunRecords]
        /\ run'[x].pc = l /\ run'[x].for = run[x].for
        /\ run'[x].subs = run[x].subs /\ run'[x].call = run[x].call
        /\ \A y \in Threads \ {x} : run'[y] = run[y]
    <2>1. l \in Pcs
      BY <1>1 DEF Pcs
    <2> QED
      BY <1>1, <2>1, GoesOn, ThreadFacts DEF IInv
  <1>3. Shape'
    <2>1. run[x].n - 1 \in Int /\ children - 1 \in Int
      BY DEF IInv, Shape, RunRecords
    <2>2. nc' \in NcRecords
      BY <1>0, <2>1 DEF IInv, Shape, NcRecords
    <2> QED
      BY <1>0, <1>2, <2>1, <2>2 DEF IInv, Shape
  <1>4. Delivery'
    BY <1>0, <1>1, <1>2, DeliveryFrame DEF IInv
  <1>5. NotBegun'
    BY <1>0, <1>1, <1>2, ThreadFacts DEF IInv, NotBegun, Owner
  <1>6. Control'
    BY <1>0, <1>1, <1>2, ThreadFacts DEF IInv, Control, Drives, Owner
  <1>7. Batches'
    BY <1>0, <1>1, <1>2, ThreadFacts DEF IInv, Batches, Outstanding, Drives
  <1>8. Open'
    BY <1>0, <1>1, <1>2, ThreadFacts DEF IInv, Open, IsOpen
  <1>9. Ordered'
    BY <1>0, <1>1, <1>2, OrderedFrame DEF IInv
  <1> QED
    BY <1>3, <1>4, <1>5, <1>6, <1>7, <1>8, <1>9 DEF IInv


-----------------------------------------------------------------------------
(* Dispatching.                                                             *)

LEMMA RenewReadyKeeps ==
    ASSUME IInv, RenewReady
    PROVE  IInv'
  <1>1. /\ run["completion"].pc = "idle" /\ kind = "renew" /\ nc.alive /\ goto("completion", "dispatch")
        /\ wizard' = [wizard EXCEPT !.starts = 1]
        /\ UNCHANGED <<kind, nc, flags, cs, msg, inbox, plugin, xfer, handling, wnd, children, app>>
    BY DEF RenewReady
  <1>2. /\ run' \in [Threads -> RunRecords]
        /\ run'["completion"].pc = "dispatch" /\ run'["completion"].for = run["completion"].for
        /\ run'["completion"].subs = run["completion"].subs /\ run'["completion"].call = run["completion"].call
        /\ \A y \in Threads \ {"completion"} : run'[y] = run[y]
    <2>1. "dispatch" \in Pcs
      BY <1>1 DEF Pcs
    <2> QED
      BY <1>1, <2>1, GoesOn, ThreadFacts DEF IInv
  <1>3. Shape'
    <2>1. wizard' \in WizardRecords
      <3>1. wizard \in WizardRecords
        BY DEF IInv, Shape
      <3> QED
        BY <1>1, <3>1 DEF WizardRecords
    <2> QED
      BY <1>1, <1>2, <2>1 DEF IInv, Shape
  <1>4. Delivery'
    BY <1>1, <1>2, DeliveryFrame DEF IInv
  <1>5. NotBegun'
    BY <1>1, <1>2, ThreadFacts DEF IInv, NotBegun, Owner
  <1>6. Control'
    BY <1>1, <1>2, ThreadFacts DEF IInv, Control, Drives, Owner
  <1>7. Batches'
    BY <1>1, <1>2, ThreadFacts DEF IInv, Batches, Outstanding, Drives
  <1>8. Open'
    BY <1>1, <1>2, ThreadFacts DEF IInv, Open, IsOpen
  <1>9. Ordered'
    BY <1>1, <1>2, OrderedFrame DEF IInv
  <1> QED
    BY <1>3, <1>4, <1>5, <1>6, <1>7, <1>8, <1>9 DEF IInv

LEMMA FinishKeeps ==
    ASSUME IInv, Finish
    PROVE  IInv'
  <1>1. /\ run["ui"].pc = "idle" /\ wizard.page \in {"options", "retry"} /\ goto("ui", "dispatch")
        /\ nc' = [nc EXCEPT !.result = "process"]
        /\ wizard' = [wizard EXCEPT !.page = "progress", !.starts = @ + 1]
        /\ UNCHANGED <<kind, flags, cs, msg, inbox, plugin, xfer, handling, wnd, children, app>>
    BY DEF Finish
  <1>2. /\ run' \in [Threads -> RunRecords]
        /\ run'["ui"].pc = "dispatch" /\ run'["ui"].for = run["ui"].for
        /\ run'["ui"].subs = run["ui"].subs /\ run'["ui"].call = run["ui"].call
        /\ \A y \in Threads \ {"ui"} : run'[y] = run[y]
    <2>1. "dispatch" \in Pcs
      BY <1>1 DEF Pcs
    <2> QED
      BY <1>1, <2>1, GoesOn, ThreadFacts DEF IInv
  <1>3. Shape'
    <2>1. nc' \in NcRecords
      BY <1>1 DEF IInv, Shape, NcRecords
    <2>2. wizard' \in WizardRecords
      <3>1. wizard.starts + 1 \in Nat
        BY DEF IInv, Shape, WizardRecords
      <3> QED
        BY <1>1, <3>1 DEF IInv, Shape, WizardRecords
    <2> QED
      BY <1>1, <1>2, <2>1, <2>2 DEF IInv, Shape
  <1>4. Delivery'
    BY <1>1, <1>2, DeliveryFrame DEF IInv
  <1>5. NotBegun'
    BY <1>1, <1>2, ThreadFacts DEF IInv, NotBegun, Owner
  <1>6. Control'
    <2>1. Owner = "ui"
      BY <1>1 DEF IInv, Open, Shape, Owner
    <2>2. Owner' = "ui"
      BY <1>1, <2>1 DEF Owner
    <2>3. nc'.state = nc.state
      BY <1>1 DEF IInv, Shape, NcRecords
    <2> QED
      BY <1>1, <1>2, <2>1, <2>2, <2>3, ThreadFacts DEF IInv, Control, Drives
  <1>7. Batches'
    BY <1>1, <1>2, ThreadFacts DEF IInv, Batches, Outstanding, Drives
  <1>8. Open'
    BY <1>1, <1>2, ThreadFacts DEF IInv, Open, IsOpen
  <1>9. Ordered'
    BY <1>1, <1>2, OrderedFrame DEF IInv
  <1> QED
    BY <1>3, <1>4, <1>5, <1>6, <1>7, <1>8, <1>9 DEF IInv

LEMMA DispatchEndsKeeps ==
    ASSUME IInv, NEW x \in Threads, Dispatch(x), nc.types = {} \/ nc.state # "none"
    PROVE  IInv'
  <1>1. /\ run[x].pc = "dispatch" /\ goto(x, "terminate")
        /\ UNCHANGED <<kind, nc, flags, cs, msg, inbox, plugin, xfer, handling, wizard, wnd, children, app>>
    BY DEF Dispatch
  <1>2. /\ run' \in [Threads -> RunRecords]
        /\ run'[x].pc = "terminate" /\ run'[x].for = run[x].for
        /\ run'[x].subs = run[x].subs /\ run'[x].call = run[x].call
        /\ \A y \in Threads \ {x} : run'[y] = run[y]
    <2>1. "terminate" \in Pcs
      BY <1>1 DEF Pcs
    <2> QED
      BY <1>1, <2>1, GoesOn, ThreadFacts DEF IInv
  <1>3. Shape'
    BY <1>1, <1>2 DEF IInv, Shape
  <1>4. Delivery'
    BY <1>1, <1>2, DeliveryFrame DEF IInv
  <1>5. NotBegun'
    BY <1>1, <1>2, ThreadFacts DEF IInv, NotBegun, Owner
  <1>6. Control'
    BY <1>1, <1>2, ThreadFacts DEF IInv, Control, Drives, Owner
  <1>7. Batches'
    BY <1>1, <1>2, ThreadFacts DEF IInv, Batches, Outstanding, Drives
  <1>8. Open'
    BY <1>1, <1>2, ThreadFacts DEF IInv, Open, IsOpen
  <1>9. Ordered'
    BY <1>1, <1>2, OrderedFrame DEF IInv
  <1> QED
    BY <1>3, <1>4, <1>5, <1>6, <1>7, <1>8, <1>9 DEF IInv

LEMMA DispatchBeginsKeeps ==
    ASSUME IInv, NEW x \in Threads, Dispatch(x), ~ (nc.types = {} \/ nc.state # "none")
    PROVE  IInv'
  <1>1. /\ run[x].pc = "dispatch" /\ nc.state = "none"
        /\ flags' = ResetFlags /\ nc' = [nc EXCEPT !.noexit = FALSE]
        /\ run' = [run EXCEPT ![x].pc = "level", ![x].for = "dispatch"]
        /\ UNCHANGED <<kind, cs, msg, inbox, plugin, xfer, handling, wizard, wnd, children, app>>
    BY DEF Dispatch
  <1>2. /\ run' \in [Threads -> RunRecords]
        /\ run'[x].pc = "level" /\ run'[x].for = "dispatch" /\ run'[x].subs = run[x].subs /\ run'[x].call = run[x].call
        /\ \A y \in Threads \ {x} : run'[y] = run[y]
    <2>1. run[x] \in RunRecords /\ "level" \in Pcs
      BY <1>1 DEF IInv, Shape, Pcs
    <2>2. run'[x] = [run[x] EXCEPT !.pc = "level", !.for = "dispatch"]
          /\ \A y \in Threads \ {x} : run'[y] = run[y]
      BY <1>1 DEF IInv, Shape
    <2>3. PICK r, s : r = run[x] /\ s = run'[x]
      OBVIOUS
    <2>4. r \in RunRecords /\ s = [r EXCEPT !.pc = "level", !.for = "dispatch"]
      BY <2>1, <2>2, <2>3
    <2>5. s \in RunRecords /\ s.pc = "level" /\ s.for = "dispatch" /\ s.subs = r.subs /\ s.call = r.call
      BY <2>1, <2>4 DEF RunRecords
    <2>6. run' \in [Threads -> RunRecords]
      BY <1>1, <2>1, <2>2, <2>3, <2>5 DEF IInv, Shape
    <2> QED
      BY <2>2, <2>3, <2>5, <2>6
  <1>3. Shape'
    <2>1. nc' \in NcRecords
      BY <1>1 DEF IInv, Shape, NcRecords
    <2>2. ASSUME NEW t \in Types PROVE ResetFlags[t] \in SUBSET Flags
      <3>1. flags[t] \in SUBSET Flags /\ "completed" \in Flags
        BY DEF IInv, Shape, Flags
      <3> QED
        BY <3>1 DEF ResetFlags
    <2>3. flags' \in [Types -> SUBSET Flags]
      BY <1>1, <2>2 DEF ResetFlags
    <2> QED
      BY <1>1, <1>2, <2>1, <2>3 DEF IInv, Shape
  <1>4. Delivery'
    BY <1>1, <1>2, DeliveryFrame DEF IInv
  <1>5. NotBegun'
    BY <1>1, <1>2, ThreadFacts DEF IInv, NotBegun, Owner
  <1>6. Control'
    BY <1>1, <1>2, ThreadFacts DEF IInv, Control, Drives, Owner
  <1>7. Batches'
    BY <1>1, <1>2, ThreadFacts DEF IInv, Batches, Outstanding, Drives
  <1>8. Open'
    BY <1>1, <1>2, ThreadFacts DEF IInv, Open, IsOpen
  <1>9. Ordered'
    <2>1. ASSUME NEW m \in Messages, msg[m].kind = "process" PROVE msg[m].todo = {}
      BY <1>1, <2>1, NoneInWork DEF IInv
    <2>2. \A y \in Threads : run'[y].pc # "post"
      BY <1>1, <1>2 DEF IInv, Control, Drives
    <2> QED
      BY <1>1, <2>1, <2>2 DEF Ordered, Independent
  <1> QED
    BY <1>3, <1>4, <1>5, <1>6, <1>7, <1>8, <1>9 DEF IInv

LEMMA DispatchKeeps ==
    ASSUME IInv, NEW x \in Threads, Dispatch(x)
    PROVE  IInv'
BY DispatchEndsKeeps, DispatchBeginsKeeps

LEMMA LevelMarkKeeps ==
    ASSUME IInv, NEW x \in Threads, LevelMark(x)
    PROVE  IInv'
  <1>1. PICK S \in SUBSET Types, l \in {"close", "post"} :
          /\ run[x].pc = "level" /\ S \in {{}, Ready}
          /\ nc' = [nc EXCEPT !.last = None]
          /\ flags' = [t \in Types |-> flags[t] \cup (IF t \in S THEN {"processed"} ELSE {})]
          /\ run' = [run EXCEPT ![x].pc = l, ![x].subs = S]
          /\ UNCHANGED <<kind, cs, msg, inbox, plugin, xfer, handling, wizard, wnd, children, app>>
    <2>1. nc.types \in SUBSET Types
      BY DEF IInv, Shape, NcRecords
    <2>2. {} \in SUBSET Types /\ Ready \in SUBSET Types
      BY <2>1 DEF Ready
    <2> QED
      BY <2>2, SMTT(60) DEF LevelMark, ForgetsCall
  <1>2. /\ run' \in [Threads -> RunRecords]
        /\ run'[x].pc = l /\ run'[x].subs = S /\ run'[x].for = run[x].for /\ run'[x].call = run[x].call
        /\ \A y \in Threads \ {x} : run'[y] = run[y]
    <2>1. run[x] \in RunRecords /\ S \in SUBSET Types /\ l \in Pcs
      BY <1>1 DEF IInv, Shape, Pcs
    <2>2. run'[x] = [run[x] EXCEPT !.pc = l, !.subs = S]
          /\ \A y \in Threads \ {x} : run'[y] = run[y]
      BY <1>1 DEF IInv, Shape
    <2>3. PICK r, s : r = run[x] /\ s = run'[x]
      OBVIOUS
    <2>4. r \in RunRecords /\ s = [r EXCEPT !.pc = l, !.subs = S]
      BY <2>1, <2>2, <2>3
    <2>5. s \in RunRecords /\ s.pc = l /\ s.subs = S /\ s.for = r.for /\ s.call = r.call
      BY <2>1, <2>4 DEF RunRecords
    <2>6. run' \in [Threads -> RunRecords]
      BY <1>1, <2>1, <2>2, <2>3, <2>5 DEF IInv, Shape
    <2> QED
      BY <2>2, <2>3, <2>5, <2>6
  <1>3. Shape'
    <2>1. nc' \in NcRecords
      BY <1>1 DEF IInv, Shape, NcRecords
    <2>2. ASSUME NEW t \in Types PROVE flags'[t] \in SUBSET Flags
      <3>1. flags[t] \in SUBSET Flags /\ "processed" \in Flags
        BY DEF IInv, Shape, Flags
      <3>2. flags'[t] = flags[t] \cup (IF t \in S THEN {"processed"} ELSE {})
        BY <1>1
      <3> QED
        BY <3>1, <3>2
    <2>3. flags' \in [Types -> SUBSET Flags]
      BY <1>1, <2>2
    <2> QED
      BY <1>1, <1>2, <2>1, <2>3 DEF IInv, Shape
  <1>4. Delivery'
    BY <1>1, <1>2, DeliveryFrame DEF IInv
  <1>5. NotBegun'
    BY <1>1, <1>2, ThreadFacts DEF IInv, NotBegun, Owner
  <1>6. Control'
    BY <1>1, <1>2, ThreadFacts DEF IInv, Control, Drives, Owner
  <1>7. Batches'
    <2>1. nc'.last = None /\ nc'.state = nc.state /\ nc'.alive = nc.alive
      BY <1>1 DEF IInv, Shape, NcRecords
    <2>2. \A m \in Messages : ~ Outstanding(m)
      BY <1>1, OneDriver DEF IInv, Batches, Drives
    <2>3. nc.state # "none" => Drives("completion") /\ run["completion"].for = "handler"
      BY <2>2 DEF IInv, Batches
    <2> QED
      BY <1>1, <1>2, <2>1, <2>2, <2>3, ThreadFacts DEF IInv, Batches, Outstanding, Drives
  <1>8. Open'
    BY <1>1, <1>2, ThreadFacts DEF IInv, Open, IsOpen
  <1>9. Ordered'
    <2>1. Shape /\ Ordered
      BY DEF IInv
    <2>2. Independent(S)
      BY <1>1, <2>1, ReadyIndependent DEF Independent
    <2>3. \A T \in SUBSET Types : Independent(T) => Independent(T)'
      BY <1>1, <2>1, MarkedOrdered
    <2>4. ASSUME NEW m \in Messages, (msg[m].kind = "process")' PROVE Independent(msg[m].todo)'
      <3>1. PICK T \in SUBSET Types : T = msg[m].todo
        BY <2>1 DEF Shape, MsgRecords
      <3>2. Independent(T)'
        BY <1>1, <2>1, <2>3, <2>4, <3>1 DEF Ordered
      <3> QED
        BY <1>1, <3>1, <3>2 DEF Independent, Good
    <2>5. ASSUME NEW y \in Threads, (run[y].pc = "post")' PROVE Independent(run[y].subs)'
      <3>1. y = x
        BY <1>1, <1>2, <2>5, OneDriver DEF IInv, Drives
      <3>2. Independent(S)'
        BY <2>2, <2>3
      <3> QED
        BY <1>2, <3>1, <3>2 DEF Independent, Good
    <2> QED
      BY <2>4, <2>5 DEF Ordered
  <1> QED
    BY <1>3, <1>4, <1>5, <1>6, <1>7, <1>8, <1>9 DEF IInv

LEMMA LevelCloseKeeps ==
    ASSUME IInv, NEW x \in Threads, LevelClose(x)
    PROVE  IInv'
  <1>0. /\ run[x].pc = "close"
        /\ nc' = [nc EXCEPT !.state = "none"]
        /\ UNCHANGED <<kind, flags, cs, msg, inbox, plugin, xfer, handling, wizard, wnd, children, app>>
    BY DEF LevelClose, Closed
  <1>1. PICK l \in {"terminate", "conclude"} : goto(x, l)
    BY DEF LevelClose
  <1>2. /\ run' \in [Threads -> RunRecords]
        /\ run'[x].pc = l /\ run'[x].for = run[x].for
        /\ run'[x].subs = run[x].subs /\ run'[x].call = run[x].call
        /\ \A y \in Threads \ {x} : run'[y] = run[y]
    <2>1. l \in Pcs
      BY <1>1 DEF Pcs
    <2> QED
      BY <1>1, <2>1, GoesOn, ThreadFacts DEF IInv
  <1>3. Shape'
    <2>1. nc' \in NcRecords
      BY <1>0 DEF IInv, Shape, NcRecords
    <2> QED
      BY <1>0, <1>2, <2>1 DEF IInv, Shape
  <1>4. Delivery'
    BY <1>0, <1>1, <1>2, DeliveryFrame DEF IInv
  <1>5. NotBegun'
    BY <1>0, <1>1, <1>2, ThreadFacts DEF IInv, NotBegun, Owner
  <1>6. Control'
    BY <1>0, <1>1, <1>2, ThreadFacts DEF IInv, Control, Drives, Owner
  <1>7. Batches'
    BY <1>0, <1>1, <1>2, ThreadFacts DEF IInv, Batches, Outstanding, Drives
  <1>8. Open'
    BY <1>0, <1>1, <1>2, ThreadFacts DEF IInv, Open, IsOpen
  <1>9. Ordered'
    BY <1>0, <1>1, <1>2, OrderedFrame DEF IInv
  <1> QED
    BY <1>3, <1>4, <1>5, <1>6, <1>7, <1>8, <1>9 DEF IInv

LEMMA LevelPostKeeps ==
    ASSUME IInv, NEW x \in Threads, LevelPost(x)
    PROVE  IInv'
  <1>1. PICK m \in Messages, T \in SUBSET Types :
          /\ run[x].pc = "post" /\ run[x].subs = T /\ Send(m, "process", T, TRUE)
          /\ run' = [run EXCEPT ![x].pc = "commit", ![x].call = m, ![x].subs = {}]
          /\ UNCHANGED <<kind, nc, flags, cs, plugin, xfer, handling, wizard, wnd, children, app>>
    <2>1. run[x].subs \in SUBSET Types
      BY DEF IInv, Shape, RunRecords
    <2> QED
      BY <2>1 DEF LevelPost
  <1>0. /\ Delivery' /\ msg' \in [Messages -> MsgRecords] /\ inbox' \in [Types -> Seq(Messages)]
        /\ msg'[m].kind = "process" /\ msg'[m].todo = T /\ msg'[m].held
        /\ \A n \in Messages \ {m} : msg'[n] = msg[n]
        /\ msg[m].kind = "free" /\ ~ msg[m].held /\ m \notin handling
    BY <1>1, SendKeeps DEF IInv
  <1>2. /\ run' \in [Threads -> RunRecords]
        /\ run'[x].pc = "commit" /\ run'[x].call = m /\ run'[x].subs = {} /\ run'[x].for = run[x].for
        /\ \A y \in Threads \ {x} : run'[y] = run[y]
    <2>1. run[x] \in RunRecords /\ "commit" \in Pcs
      BY <1>1 DEF IInv, Shape, Pcs
    <2>2. run'[x] = [run[x] EXCEPT !.pc = "commit", !.call = m, !.subs = {}]
          /\ \A y \in Threads \ {x} : run'[y] = run[y]
      BY <1>1 DEF IInv, Shape
    <2>3. PICK r, s : r = run[x] /\ s = run'[x]
      OBVIOUS
    <2>4. r \in RunRecords /\ s = [r EXCEPT !.pc = "commit", !.call = m, !.subs = {}]
      BY <2>1, <2>2, <2>3
    <2>5. s \in RunRecords /\ s.pc = "commit" /\ s.call = m /\ s.subs = {} /\ s.for = r.for
      BY <2>1, <2>4 DEF RunRecords
    <2>6. run' \in [Threads -> RunRecords]
      BY <1>1, <2>1, <2>2, <2>3, <2>5 DEF IInv, Shape
    <2> QED
      BY <2>2, <2>3, <2>5, <2>6
  <1>3. Shape'
    BY <1>0, <1>1, <1>2 DEF IInv, Shape
  <1>4. Delivery'
    BY <1>0
  <1>5. NotBegun'
    BY <1>0, <1>1, <1>2, ThreadFacts DEF IInv, NotBegun, Owner
  <1>6. Control'
    <2>1. \A y \in Threads : Drives(y) => y = x
      BY <1>1, OneDriver DEF IInv, Drives
    <2>2. \A n \in handling : n \in Messages /\ msg'[n] = msg[n]
      BY <1>0 DEF IInv, Shape
    <2>3. m \in Messages \ handling /\ handling' = handling /\ nc'.state = nc.state /\ Owner' = Owner
      BY <1>0, <1>1 DEF Owner
    <2>4. \/ run[x].for = "dispatch" /\ x = Owner /\ nc.state = "none"
          \/ /\ run[x].for = "handler" /\ x = "completion" /\ nc.state # "none"
             /\ \E n \in handling : msg[n].kind = "process"
      BY <1>1 DEF IInv, Control, Drives
    <2> QED
      BY <1>0, <1>1, <1>2, <2>1, <2>2, <2>3, <2>4, ThreadFacts, SMTT(60) DEF IInv, Control, Drives, Owner
  <1>7. Batches'
    <2>1. \A y \in Threads : Drives(y) => y = x
      BY <1>1, OneDriver DEF IInv, Drives
    <2>2. \A n \in Messages : ~ Outstanding(n) /\ ~ msg[n].held
      BY <1>1, <2>1 DEF IInv, Batches, Drives
    <2>3. nc.state # "none" => Drives("completion") /\ run["completion"].for = "handler"
      BY <2>2 DEF IInv, Batches
    <2>4. nc.last = None
      <3>1. nc.last \in Messages \cup {None}
        BY DEF IInv, Shape, NcRecords
      <3> QED
        BY <1>1, <2>1, <2>2, <3>1, ThreadFacts DEF IInv, Batches, Drives
    <2>5. \A n \in Messages : ~ Outstanding(n)'
      BY <1>0, <1>1, <2>2 DEF Outstanding
    <2>6. Drives("completion") => Drives("completion")'
      BY <1>0, <1>1, <1>2, <2>1, ThreadFacts DEF Drives
    <2>7. \A n \in Messages : msg'[n].held => run'[x].pc = "commit" /\ run'[x].call = n
      BY <1>0, <1>2, <2>2
    <2>8. run'["completion"].for = run["completion"].for
      BY <1>2, ThreadFacts
    <2> QED
      BY <1>1, <2>3, <2>4, <2>5, <2>6, <2>7, <2>8 DEF Batches
  <1>8. Open'
    BY <1>0, <1>1, <1>2, ThreadFacts DEF IInv, Open, IsOpen
  <1>9. Ordered'
    <2>1. Independent(T)
      BY <1>1 DEF IInv, Ordered
    <2>2. \A y \in Threads : run'[y].pc # "post"
      BY <1>0, <1>1, <1>2, OneDriver DEF IInv, Drives
    <2> QED
      BY <1>0, <1>1, <2>1, <2>2 DEF IInv, Ordered, Independent, Good
  <1> QED
    BY <1>3, <1>4, <1>5, <1>6, <1>7, <1>8, <1>9 DEF IInv


\* What the two outcomes of LevelCommit have in common: the batch m is let go.
Committed(x, m) ==
    /\ run[x].pc = "commit" /\ run[x].call = m /\ m \in Messages \ handling
    /\ msg[m].kind = "process" /\ msg[m].held
    /\ msg' \in [Messages -> MsgRecords]
    /\ msg'[m].kind = "process" /\ msg'[m].todo = msg[m].todo /\ ~ msg'[m].held
    /\ \A n \in Messages \ {m} : msg'[n] = msg[n]
    /\ nc' \in NcRecords /\ nc'.last = m /\ nc'.alive = nc.alive
    /\ nc'.state # "none" /\ (nc'.state = "aborted" => msg'[m].aborted)
    /\ \A y \in Threads : Drives(y) => y = x
    /\ \A n \in Messages : ~ Outstanding(n) /\ (msg[n].held => n = m)
    /\ m \notin Completing
    /\ UNCHANGED <<kind, flags, inbox, plugin, wizard, wnd, children, app>>

LEMMA CommitFacts ==
    ASSUME IInv, NEW x \in Threads, LevelCommit(x)
    PROVE  \E m \in Messages : Committed(x, m)
  <1>1. PICK m \in Messages : m = run[x].call /\ m \notin handling /\ msg[m].kind = "process" /\ msg[m].held
    BY DEF LevelCommit, IInv, Control
  <1>2. run[x].pc = "commit"
    BY DEF LevelCommit
  <1>3. PICK told \in BOOLEAN : /\ msg' = [msg EXCEPT ![m].held = FALSE, ![m].aborted = told]
                                /\ nc.state = "aborted" => told
    BY <1>1 DEF LevelCommit, Told
  <1>4. PICK s \in {"incall", "aborted"} : /\ nc' = [nc EXCEPT !.state = s, !.last = m]
                                           /\ s = "aborted" => nc.state = "aborted"
    BY <1>1 DEF LevelCommit, InCall
  <1>5. /\ msg' \in [Messages -> MsgRecords]
        /\ msg'[m].kind = "process" /\ msg'[m].todo = msg[m].todo /\ ~ msg'[m].held
        /\ msg'[m].aborted = told
        /\ \A n \in Messages \ {m} : msg'[n] = msg[n]
    <2>1. msg \in [Messages -> MsgRecords]
      BY DEF IInv, Shape
    <2>2. PICK r, q : r = msg[m] /\ q = msg'[m]
      OBVIOUS
    <2>3. r \in MsgRecords /\ q = [r EXCEPT !.held = FALSE, !.aborted = told]
      BY <1>3, <2>1, <2>2
    <2>4. q \in MsgRecords /\ q.kind = r.kind /\ q.todo = r.todo /\ ~ q.held /\ q.aborted = told
      BY <2>3 DEF MsgRecords
    <2>5. \A n \in Messages \ {m} : msg'[n] = msg[n]
      BY <1>3, <2>1
    <2>6. msg' \in [Messages -> MsgRecords]
      BY <1>3, <2>1, <2>2, <2>4
    <2> QED
      BY <1>1, <2>2, <2>4, <2>5, <2>6
  <1>6. nc' \in NcRecords /\ nc'.last = m /\ nc'.alive = nc.alive /\ nc'.state = s
    BY <1>4 DEF IInv, Shape, NcRecords
  <1>7. \A y \in Threads : Drives(y) => y = x
    BY <1>2, OneDriver DEF IInv, Drives
  <1>8. \A n \in Messages : ~ Outstanding(n) /\ (msg[n].held => n = m)
    BY <1>1, <1>2, <1>7 DEF IInv, Batches, Drives
  <1>9. m \notin Completing
    BY <1>1 DEF IInv, Delivery, Over
  <1>10. UNCHANGED <<kind, flags, inbox, plugin, wizard, wnd, children, app>>
    BY DEF LevelCommit
  <1> QED
    BY <1>1, <1>2, <1>3, <1>4, <1>5, <1>6, <1>7, <1>8, <1>9, <1>10, ZenonT(60) DEF Committed

\* The parts of the invariant that do not depend on whether the batch is over.
LEMMA CommitParts ==
    ASSUME IInv, NEW x \in Threads, NEW m \in Messages, Committed(x, m),
           run'[x].pc \in {"level", "return"},
           \A y \in Threads \ {x} : run'[y] = run[y]
    PROVE  /\ NotBegun' /\ Ordered'
           /\ \A t \in Types : Waiting(t)' = Waiting(t)
           /\ \A n \in Messages : msg'[n].kind = msg[n].kind /\ msg'[n].todo = msg[n].todo
  <1>1. \A n \in Messages : msg'[n].kind = msg[n].kind /\ msg'[n].todo = msg[n].todo
    BY DEF Committed
  <1>2. NotBegun'
    BY DEF Committed, IInv, NotBegun
  <1>3. Ordered'
    <2>1. \A n \in Messages : (msg[n].kind = "process" => Independent(msg[n].todo))'
      BY <1>1 DEF Committed, IInv, Ordered, Independent, Good
    <2>2. \A y \in Threads : (run[y].pc = "post" => Independent(run[y].subs))'
      BY DEF Committed, Drives
    <2> QED
      BY <2>1, <2>2 DEF Ordered
  <1>4. \A t \in Types : Waiting(t)' = Waiting(t)
    BY DEF Committed, Waiting
  <1> QED
    BY <1>1, <1>2, <1>3, <1>4

LEMMA CommitNestedKeeps ==
    ASSUME IInv, NEW x \in Threads, LevelCommit(x),
           msg[run[x].call].todo = {}, x = "completion"
    PROVE  IInv'
  <1>1. PICK m \in Messages : Committed(x, m)
    BY CommitFacts
  <1>2. /\ msg[m].todo = {} /\ handling' = handling \cup {m}
        /\ run' = [run EXCEPT ![x] = [Idle EXCEPT !.pc = "level", !.for = "handler"]]
        /\ UNCHANGED xfer
    BY <1>1 DEF LevelCommit, Committed
  <1>3. /\ run' \in [Threads -> RunRecords]
        /\ run'[x].pc = "level" /\ run'[x].for = "handler"
        /\ \A y \in Threads \ {x} : run'[y] = run[y]
    <2>1. "level" \in Pcs
      BY DEF Pcs
    <2>2. PICK r : r = [Idle EXCEPT !.pc = "level", !.for = "handler"]
      OBVIOUS
    <2>3. run' = [run EXCEPT ![x] = r] /\ Shape
      BY <1>2, <2>2 DEF IInv
    <2> QED
      BY <2>1, <2>2, <2>3, StartsNew
  <1>4. /\ NotBegun' /\ Ordered'
        /\ \A t \in Types : Waiting(t)' = Waiting(t)
        /\ \A n \in Messages : msg'[n].kind = msg[n].kind /\ msg'[n].todo = msg[n].todo
    BY <1>1, <1>3, CommitParts
  <1>5. Shape'
    BY <1>1, <1>2, <1>3 DEF Committed, IInv, Shape
  <1>6. Delivery'
    <2>1. Completing' = Completing /\ TakenOnce'
      BY <1>1, <1>2 DEF Committed, Completing, IInv, Delivery, TakenOnce
    <2>2. Over(m)' /\ \A n \in Messages : Over(n) => Over(n)'
      BY <1>1, <1>2 DEF Committed, Over
    <2>3. Completing \subseteq Messages /\ handling \subseteq Messages
      BY DEF IInv, Shape, Completing, ToSet
    <2>4. /\ \A n \in Completing' : Over(n)' /\ n \notin handling'
          /\ \A n \in handling' : Over(n)'
      BY <1>1, <1>2, <2>1, <2>2, <2>3 DEF Committed, IInv, Delivery
    <2>5. /\ \A n \in Messages : (msg[n].kind = "free" => msg[n].todo = {} /\ ~ msg[n].held)'
          /\ \A n \in Messages : (msg[n].kind = "child" => msg[n].todo = {})'
      BY <1>1, <1>4 DEF Committed, IInv, Delivery
    <2>6. \A t \in Types : \A n \in Waiting(t)' : t \in msg'[n].todo /\ plugin'[t].m # n
      <3>1. \A t \in Types : Waiting(t) \subseteq Messages
        BY DEF IInv, Shape, Waiting, ToSet
      <3> QED
        BY <1>1, <1>4, <3>1 DEF Committed, IInv, Delivery
    <2>7. plugin' = plugin
      BY <1>1 DEF Committed
    <2> QED
      BY <1>4, <2>1, <2>4, <2>5, <2>6, <2>7 DEF IInv, Delivery
  <1>7. Control'
    BY <1>1, <1>2, <1>3 DEF Committed, IInv, Control, Drives, Owner, Threads
  <1>8. \A n \in Messages : ~ Outstanding(n)' /\ ~ msg'[n].held
    BY <1>1, <1>2 DEF Committed, Outstanding
  <1>9. Batches'
    <2>1. Drives("completion")' /\ run'["completion"].for = "handler" /\ run'["completion"].pc = "level"
      BY <1>3 DEF Drives
    <2>2. nc'.last = m /\ m \in handling' /\ msg'[m].kind = "process"
      BY <1>1, <1>2 DEF Committed
    <2> QED
      BY <1>8, <2>1, <2>2 DEF Batches
  <1>10. Open'
    BY <1>1, <1>3, <1>4 DEF Committed, IInv, Open, IsOpen
  <1> QED
    BY <1>4, <1>5, <1>6, <1>7, <1>9, <1>10 DEF IInv

LEMMA CommitReturnsKeeps ==
    ASSUME IInv, NEW x \in Threads, LevelCommit(x),
           ~ (msg[run[x].call].todo = {} /\ x = "completion")
    PROVE  IInv'
  <1>1. PICK m \in Messages : Committed(x, m)
    BY CommitFacts
  <1>2. /\ handling' = handling
        /\ run' = [run EXCEPT ![x] = [Idle EXCEPT !.pc = "return"]]
        /\ \/ xfer' = xfer
           \/ xfer' = Append(xfer, m) /\ msg[m].todo = {}
    BY <1>1 DEF LevelCommit, Committed
  <1>3. /\ run' \in [Threads -> RunRecords]
        /\ run'[x].pc = "return" /\ run'[x].for = "nothing"
        /\ \A y \in Threads \ {x} : run'[y] = run[y]
    <2>1. "return" \in Pcs
      BY DEF Pcs
    <2> QED
      BY <1>2, <2>1, StartsOrRests DEF IInv
  <1>4. /\ NotBegun' /\ Ordered'
        /\ \A t \in Types : Waiting(t)' = Waiting(t)
        /\ \A n \in Messages : msg'[n].kind = msg[n].kind /\ msg'[n].todo = msg[n].todo
    BY <1>1, <1>3, CommitParts
  <1>5. /\ xfer' \in Seq(Messages) /\ IsInjective(xfer')
        /\ \/ Completing' = Completing
           \/ Completing' = Completing \cup {m} /\ msg[m].todo = {}
    <2>1. xfer \in Seq(Messages) /\ IsInjective(xfer) /\ m \notin ToSet(xfer)
      BY <1>1 DEF IInv, Shape, Delivery, TakenOnce, Committed, Completing
    <2>2. CASE xfer' = xfer
      BY <2>1, <2>2 DEF Completing
    <2>3. CASE xfer' = Append(xfer, m) /\ msg[m].todo = {}
      <3>1. xfer' \in Seq(Messages) /\ IsInjective(xfer') /\ ToSet(xfer') = ToSet(xfer) \cup {m}
        BY <2>1, <2>3, AppendFacts
      <3> QED
        BY <2>3, <3>1 DEF Completing
    <2> QED
      BY <1>2, <2>2, <2>3
  <1>6. Shape'
    BY <1>1, <1>2, <1>3, <1>5 DEF Committed, IInv, Shape
  <1>7. Delivery'
    <2>1. TakenOnce'
      BY <1>1, <1>5 DEF Committed, IInv, Delivery, TakenOnce
    <2>2. (msg[m].todo = {} => Over(m)') /\ \A n \in Messages : Over(n) => Over(n)'
      BY <1>1, <1>2 DEF Committed, Over
    <2>3. Completing \subseteq Messages /\ handling \subseteq Messages
      BY DEF IInv, Shape, Completing, ToSet
    <2>4. /\ \A n \in Completing' : Over(n)' /\ n \notin handling'
          /\ \A n \in handling' : Over(n)'
      BY <1>1, <1>2, <1>5, <2>2, <2>3 DEF Committed, IInv, Delivery
    <2>5. /\ \A n \in Messages : (msg[n].kind = "free" => msg[n].todo = {} /\ ~ msg[n].held)'
          /\ \A n \in Messages : (msg[n].kind = "child" => msg[n].todo = {})'
      BY <1>1, <1>4 DEF Committed, IInv, Delivery
    <2>6. \A t \in Types : \A n \in Waiting(t)' : t \in msg'[n].todo /\ plugin'[t].m # n
      <3>1. \A t \in Types : Waiting(t) \subseteq Messages
        BY DEF IInv, Shape, Waiting, ToSet
      <3> QED
        BY <1>1, <1>4, <3>1 DEF Committed, IInv, Delivery
    <2>7. plugin' = plugin
      BY <1>1 DEF Committed
    <2> QED
      BY <1>4, <2>1, <2>4, <2>5, <2>6, <2>7 DEF IInv, Delivery
  <1>8. \A y \in Threads : ~ Drives(y)'
    BY <1>1, <1>3 DEF Committed, Drives
  <1>9. Control'
    BY <1>1, <1>2, <1>3, <1>8 DEF Committed, IInv, Control, Drives, Owner, Threads
  <1>10. Outstanding(m)' /\ \A n \in Messages : Outstanding(n)' \/ msg'[n].held => n = m
    BY <1>1, <1>2 DEF Committed, Outstanding
  <1>11. Batches'
    <2>1. \A n \in Messages : ~ msg'[n].held
      BY <1>1, <1>10 DEF Committed
    <2>2. /\ nc'.last = m /\ nc'.state # "none" /\ (nc'.state = "aborted" => msg'[m].aborted)
      BY <1>1 DEF Committed
    <2> QED
      BY <1>8, <1>10, <2>1, <2>2 DEF Batches
  <1>12. Open'
    BY <1>1, <1>3, <1>4 DEF Committed, IInv, Open, IsOpen
  <1> QED
    BY <1>4, <1>6, <1>7, <1>9, <1>11, <1>12 DEF IInv

LEMMA LevelCommitKeeps ==
    ASSUME IInv, NEW x \in Threads, LevelCommit(x)
    PROVE  IInv'
BY CommitNestedKeeps, CommitReturnsKeeps

-----------------------------------------------------------------------------
(* Telling the window or the plug-ins; the window; the completion thread.   *)

\* Messages are posted; what concerns the batches stays.
SameBatches ==
    \A n \in Messages : (\/ msg[n].kind = "process" \/ msg'[n].kind = "process"
                         \/ msg[n].held \/ msg'[n].held)
                        => msg'[n] = msg[n]

LEMMA EndPosted ==
    ASSUME IInv, PostEnd, UNCHANGED <<plugin, xfer, handling>>
    PROVE  /\ Delivery' /\ SameBatches
           /\ msg' \in [Messages -> MsgRecords] /\ inbox' \in [Types -> Seq(Messages)]
  <1>1. PICK m \in Messages : Send(m, "end", Types, FALSE)
    BY DEF PostEnd
  <1>2. Types \in SUBSET Types
    OBVIOUS
  <1>3. /\ Delivery'
        /\ inbox' \in [Types -> Seq(Messages)]
        /\ msg' \in [Messages -> MsgRecords]
        /\ msg'[m].kind = "end" /\ msg'[m].held = FALSE
        /\ \A n \in Messages \ {m} : msg'[n] = msg[n]
        /\ msg[m].kind = "free" /\ ~ msg[m].held
    BY <1>1, <1>2, SendKeeps DEF IInv
  <1> QED
    BY <1>3 DEF SameBatches

\* A thread tells the window or the plug-ins that it is done, and returns.
LEMMA Tells ==
    ASSUME IInv, NEW x \in Threads, run[x].pc \in {"terminate", "conclude", "tell_parent"},
           goto(x, "return"), (kind = "renew" /\ PostEnd) \/ UNCHANGED <<msg, inbox>>,
           UNCHANGED <<kind, nc, flags, plugin, xfer, handling, wizard, children, app>>
    PROVE  IInv'
  <1>1. /\ Delivery' /\ SameBatches
        /\ msg' \in [Messages -> MsgRecords] /\ inbox' \in [Types -> Seq(Messages)]
    <2>1. CASE PostEnd
      BY <2>1, EndPosted
    <2>2. CASE UNCHANGED <<msg, inbox>>
      BY <2>2, DeliveryFrame DEF IInv, Shape, SameBatches
    <2> QED
      BY <2>1, <2>2
  <1>2. /\ run' \in [Threads -> RunRecords]
        /\ run'[x].pc = "return" /\ run'[x].for = run[x].for
        /\ \A y \in Threads \ {x} : run'[y] = run[y]
    <2>1. "return" \in Pcs
      BY DEF Pcs
    <2> QED
      BY <2>1, GoesOn DEF IInv
  <1>3. Shape'
    BY <1>1, <1>2 DEF IInv, Shape
  <1>4. NotBegun'
    BY <1>2 DEF IInv, NotBegun
  <1>5. Control'
    <2>1. handling \subseteq Messages
      BY DEF IInv, Shape
    <2>2. \A n \in Messages : msg[n].kind = "process" => msg'[n] = msg[n]
      BY <1>1 DEF SameBatches
    <2>3. \A y \in Threads : run'[y] = run[y] \/ run'[y].pc = "return"
      BY <1>2
    <2>4. Owner' = Owner /\ UNCHANGED <<nc, handling>>
      BY DEF Owner
    <2>5. ASSUME NEW y \in Threads, Drives(y)'
          PROVE  /\ \/ run'[y].for = "dispatch" /\ y = Owner' /\ nc'.state = "none"
                    \/ /\ run'[y].for = "handler" /\ y = "completion" /\ nc'.state # "none"
                       /\ \E m \in handling' : msg'[m].kind = "process"
      BY <2>1, <2>2, <2>3, <2>4, <2>5 DEF IInv, Control, Drives
    <2>6. ASSUME NEW y \in Threads, run'[y].pc = "commit"
          PROVE  /\ run'[y].call \in Messages \ handling'
                 /\ msg'[run'[y].call].kind = "process" /\ msg'[run'[y].call].held
      BY <2>2, <2>3, <2>4, <2>6 DEF IInv, Control
    <2>7. \A y \in Threads : /\ run'[y].pc = "dispatch" => y = Owner'
                             /\ run'[y].pc \in {"end", "uncount", "exit", "exiting"} =>
                                  run'[y].for \in {"nothing", "operation", "child"}
                             /\ run'[y].pc = "destroy" => run'[y].for = "operation"
      BY <2>3, <2>4 DEF IInv, Control
    <2>8. (\/ run'["completion"].pc \in {"idle", "begin", "began"}
           \/ /\ run'["completion"].for = "nothing"
              /\ run'["completion"].pc \in {"end", "uncount", "exit", "exiting"})
          => handling' = {}
      BY <2>3, <2>4, ThreadFacts DEF IInv, Control
    <2> QED
      BY <2>5, <2>6, <2>7, <2>8 DEF Control
  <1>6. \A n \in Messages : Outstanding(n)' <=> Outstanding(n)
    BY <1>1 DEF Outstanding, SameBatches
  <1>7. \A y \in Threads : /\ Drives(y)' <=> Drives(y)
                           /\ Drives(y) => run'[y] = run[y]
    BY <1>2 DEF Drives
  <1>8. Batches'
    <2>1. \A n \in Messages : msg'[n].held => msg[n].held
      BY <1>1 DEF SameBatches
    <2>2. \A n \in Messages : Outstanding(n) => msg'[n] = msg[n]
      BY <1>1 DEF SameBatches, Outstanding
    <2>3. \A n \in handling : msg[n].kind = "process" => msg'[n].kind = "process"
      BY <1>1 DEF SameBatches, IInv, Shape
    <2>4. nc.last \in Messages \cup {None}
      BY DEF IInv, Shape, NcRecords
    <2> QED
      BY <1>2, <1>6, <1>7, <2>1, <2>2, <2>3, <2>4, ThreadFacts DEF IInv, Batches, Drives
  <1>9. Open'
    <2>1. CASE kind = "renew"
      BY <2>1 DEF IInv, Open, IsOpen
    <2>2. CASE UNCHANGED msg
      BY <1>2, <2>2 DEF IInv, Open, IsOpen
    <2> QED
      BY <2>1, <2>2
  <1>10. Ordered'
    <2>1. \A n \in Messages : msg'[n].kind = "process" => msg'[n] = msg[n]
      BY <1>1 DEF SameBatches
    <2> QED
      BY <1>2, <2>1 DEF IInv, Ordered, Independent, Good
  <1> QED
    BY <1>1, <1>3, <1>4, <1>5, <1>8, <1>9, <1>10 DEF IInv

LEMMA TerminateKeeps ==
    ASSUME IInv, NEW x \in Threads, Terminate(x)
    PROVE  IInv'
BY Tells DEF Terminate

LEMMA ConcludeKeeps ==
    ASSUME IInv, NEW x \in Threads, Conclude(x)
    PROVE  IInv'
BY Tells DEF Conclude

LEMMA TellParentKeeps ==
    ASSUME IInv, NEW x \in Threads, TellParent(x)
    PROVE  IInv'
  <1>1. (kind = "renew" /\ PostEnd) \/ UNCHANGED <<msg, inbox>>
    BY DEF TellParent, IInv, Shape
  <1> QED
    BY <1>1, Tells DEF TellParent

\* The window, open before, changes page or closes with KMSG_CRED_END posted.
LEMMA WindowStep ==
    ASSUME IInv, IsOpen, UNCHANGED <<kind, flags, plugin, xfer, handling, run, children, app>>,
           wizard' \in WizardRecords, nc' \in NcRecords,
           nc'.alive = nc.alive, nc'.state = nc.state, nc'.last = nc.last,
           (wizard'.page = "closed" /\ PostEnd) \/ UNCHANGED <<msg, inbox>>
    PROVE  IInv'
  <1>1. /\ Delivery' /\ SameBatches
        /\ msg' \in [Messages -> MsgRecords] /\ inbox' \in [Types -> Seq(Messages)]
    <2>1. CASE PostEnd
      BY <2>1, EndPosted
    <2>2. CASE UNCHANGED <<msg, inbox>>
      BY <2>2, DeliveryFrame DEF IInv, Shape, SameBatches
    <2> QED
      BY <2>1, <2>2
  <1>2. Shape'
    BY <1>1 DEF IInv, Shape
  <1>3. NotBegun'
    BY DEF IInv, NotBegun, IsOpen
  <1>4. \A n \in Messages : msg[n].kind = "process" => msg'[n] = msg[n]
    BY <1>1 DEF SameBatches
  <1>5. handling \subseteq Messages /\ nc.last \in Messages \cup {None}
    BY DEF IInv, Shape, NcRecords
  <1>6. Control'
    <2>1. Owner' = Owner /\ UNCHANGED <<handling, run>>
      BY DEF Owner
    <2> QED
      BY <1>4, <1>5, <2>1 DEF IInv, Control, Drives
  <1>7. \A n \in Messages : Outstanding(n)' <=> Outstanding(n)
    BY <1>1 DEF Outstanding, SameBatches
  <1>8. Batches'
    <2>1. \A n \in Messages : msg'[n].held => msg[n].held
      BY <1>1 DEF SameBatches
    <2>2. \A n \in Messages : Outstanding(n) => msg'[n] = msg[n]
      BY <1>4 DEF Outstanding
    <2> QED
      BY <1>4, <1>5, <1>7, <2>1, <2>2, ThreadFacts DEF IInv, Batches, Drives
  <1>9. Open'
    <2>1. kind # "renew"
      BY DEF IInv, Open, IsOpen
    <2>2. CASE wizard'.page = "closed"
      BY <2>1, <2>2 DEF Open, IsOpen
    <2>3. CASE UNCHANGED msg
      BY <2>1, <2>3 DEF IInv, Open, IsOpen
    <2> QED
      BY <2>2, <2>3
  <1>10. Ordered'
    <2>1. \A n \in Messages : msg'[n].kind = "process" => msg'[n] = msg[n]
      BY <1>1 DEF SameBatches
    <2> QED
      BY <2>1 DEF IInv, Ordered, Independent, Good
  <1> QED
    BY <1>1, <1>2, <1>3, <1>6, <1>8, <1>9, <1>10 DEF IInv

LEMMA CloseKeeps ==
    ASSUME IInv, Close
    PROVE  IInv'
  <1>1. wizard' \in WizardRecords /\ wizard'.page = "closed"
    BY DEF Close, IInv, Shape, WizardRecords
  <1>2. nc' \in NcRecords /\ UNCHANGED nc
    BY DEF Close, IInv, Shape
  <1> QED
    BY <1>1, <1>2, WindowStep DEF Close, IsOpen

LEMMA OnProcessCompleteKeeps ==
    ASSUME IInv, OnProcessComplete
    PROVE  IInv'
  <1>1. IsOpen /\ UNCHANGED <<kind, flags, plugin, xfer, handling, run, children, app>>
    BY DEF OnProcessComplete
  <1>2. \/ UNCHANGED nc
        \/ nc' = [nc EXCEPT !.result = "cancel"]
    BY DEF OnProcessComplete
  <1>3. /\ nc' \in NcRecords /\ nc'.alive = nc.alive
        /\ nc'.state = nc.state /\ nc'.last = nc.last
    BY <1>2 DEF IInv, Shape, NcRecords
  <1>4. PICK p \in {"options", "retry", "preend", "closed"} :
          wizard' = wizard \/ wizard' = [wizard EXCEPT !.page = p]
    BY DEF OnProcessComplete, End
  <1>5. wizard' \in WizardRecords
    BY <1>4 DEF IInv, Shape, WizardRecords
  <1>6. (wizard'.page = "closed" /\ PostEnd) \/ UNCHANGED <<msg, inbox>>
    <2>1. wizard \in WizardRecords
      BY DEF IInv, Shape
    <2>2. UNCHANGED <<msg, inbox>> \/ (PostEnd /\ wizard' = [wizard EXCEPT !.page = "closed"])
      BY DEF OnProcessComplete, End
    <2> QED
      BY <2>1, <2>2 DEF WizardRecords
  <1> QED
    BY <1>1, <1>3, <1>5, <1>6, WindowStep

LEMMA CancelDispatches ==
    ASSUME IInv, Cancel, nc.state = "none"
    PROVE  IInv'
  <1>1. /\ run["ui"].pc = "idle" /\ IsOpen /\ goto("ui", "dispatch")
        /\ wizard' = [wizard EXCEPT !.page = "progress", !.cancelled = TRUE]
        /\ nc' = [nc EXCEPT !.result = "cancel"]
        /\ UNCHANGED <<kind, flags, cs, msg, inbox, plugin, xfer, handling, wnd, children, app>>
    BY DEF Cancel, NotReady
  <1>2. /\ run' \in [Threads -> RunRecords]
        /\ run'["ui"].pc = "dispatch" /\ run'["ui"].for = run["ui"].for
        /\ \A y \in Threads \ {"ui"} : run'[y] = run[y]
    <2>1. "dispatch" \in Pcs
      BY DEF Pcs
    <2> QED
      BY <1>1, <2>1, GoesOn, ThreadFacts DEF IInv
  <1>3. nc' \in NcRecords /\ nc'.alive = nc.alive /\ nc'.state = nc.state /\ nc'.last = nc.last
    BY <1>1 DEF IInv, Shape, NcRecords
  <1>4. wizard' \in WizardRecords /\ wizard'.page = "progress"
    BY <1>1 DEF IInv, Shape, WizardRecords
  <1>5. Shape'
    BY <1>1, <1>2, <1>3, <1>4 DEF IInv, Shape
  <1>6. Delivery'
    BY <1>1, DeliveryFrame DEF IInv
  <1>7. kind = "dialog" /\ Owner = "ui" /\ Owner' = "ui"
    BY <1>1 DEF IInv, Shape, Open, Owner, IsOpen
  <1>8. NotBegun'
    BY <1>1, <1>2, <1>4 DEF IInv, NotBegun, IsOpen
  <1>9. Control'
    BY <1>1, <1>2, <1>3, <1>7, ThreadFacts DEF IInv, Control, Drives
  <1>10. Batches'
    BY <1>1, <1>2, <1>3, ThreadFacts DEF IInv, Batches, Outstanding, Drives
  <1>11. Open'
    BY <1>1, <1>2, <1>3, <1>4, <1>7, ThreadFacts DEF IInv, Open, IsOpen
  <1>12. Ordered'
    BY <1>1, <1>2, OrderedFrame DEF IInv
  <1> QED
    BY <1>5, <1>6, <1>8, <1>9, <1>10, <1>11, <1>12 DEF IInv

\* An abort finds the batch whose call last_dispatch is.
LEMMA CancelAborts ==
    ASSUME IInv, Cancel, nc.state # "none"
    PROVE  IInv'
  <1>1. /\ IsOpen
        /\ wizard' = [wizard EXCEPT !.page = "progress", !.cancelled = TRUE]
        /\ \/ /\ nc.state = "incall" /\ nc' = [nc EXCEPT !.state = "aborted"]
              /\ msg' = IF nc.last = None THEN msg ELSE [msg EXCEPT ![nc.last].aborted = TRUE]
           \/ nc.state = "aborted" /\ UNCHANGED <<nc, msg>>
        /\ UNCHANGED <<kind, flags, cs, inbox, plugin, xfer, handling, run, wnd, children, app>>
    BY DEF Cancel, NotReady, IInv, Shape, NcRecords
  <1>2. /\ nc' \in NcRecords /\ nc'.alive = nc.alive /\ nc'.last = nc.last
        /\ nc'.state = "aborted"
    BY <1>1 DEF IInv, Shape, NcRecords
  <1>3. wizard' \in WizardRecords /\ wizard'.page = "progress"
    BY <1>1 DEF IInv, Shape, WizardRecords
  <1>4. /\ msg' \in [Messages -> MsgRecords]
        /\ \A n \in Messages : /\ msg'[n].kind = msg[n].kind /\ msg'[n].todo = msg[n].todo
                               /\ msg'[n].held = msg[n].held
                               /\ msg[n].aborted => msg'[n].aborted
                               /\ n = nc.last => msg'[n].aborted \/ nc.state = "aborted"
    <2>1. msg \in [Messages -> MsgRecords] /\ nc.last \in Messages \cup {None} /\ None \notin Messages
      BY DispatchAssumption DEF IInv, Shape, NcRecords
    <2>2. CASE msg' = msg /\ (nc.last = None \/ nc.state = "aborted")
      BY <2>1, <2>2
    <2>3. CASE nc.last # None /\ msg' = [msg EXCEPT ![nc.last].aborted = TRUE]
      <3>1. PICK m \in Messages : m = nc.last
        BY <2>1, <2>3
      <3>2. PICK r, q : r = msg[m] /\ q = msg'[m]
        OBVIOUS
      <3>3. r \in MsgRecords /\ q = [r EXCEPT !.aborted = TRUE]
        BY <2>1, <2>3, <3>1, <3>2
      <3>4. q \in MsgRecords /\ q.kind = r.kind /\ q.todo = r.todo /\ q.held = r.held /\ q.aborted
        BY <3>3 DEF MsgRecords
      <3>5. \A n \in Messages \ {m} : msg'[n] = msg[n]
        BY <2>1, <2>3, <3>1
      <3>6. msg' \in [Messages -> MsgRecords]
        BY <2>1, <2>3, <3>1, <3>2, <3>4
      <3> QED
        BY <3>1, <3>2, <3>4, <3>5, <3>6
    <2> QED
      BY <1>1, <2>2, <2>3
  <1>5. Shape'
    BY <1>1, <1>2, <1>3, <1>4 DEF IInv, Shape
  <1>6. kind = "dialog" /\ Owner' = Owner /\ nc.alive
    BY <1>1 DEF IInv, Shape, Open, Owner, IsOpen
  <1>7. handling \subseteq Messages /\ nc.last \in Messages \cup {None}
    BY DEF IInv, Shape, NcRecords
  <1>8. \A n \in Messages : Over(n)' <=> Over(n)
    BY <1>4 DEF Over
  <1>9. Delivery'
    <2>1. TakenOnce' /\ Completing' = Completing /\ \A t \in Types : Waiting(t)' = Waiting(t)
      BY <1>1 DEF IInv, Delivery, TakenOnce, Completing, Waiting
    <2>2. Completing \subseteq Messages /\ \A t \in Types : Waiting(t) \subseteq Messages
      BY DEF IInv, Shape, Completing, Waiting, ToSet
    <2> QED
      BY <1>1, <1>4, <1>7, <1>8, <2>1, <2>2 DEF IInv, Delivery
  <1>10. NotBegun'
    BY <1>1, <1>3 DEF IInv, NotBegun, IsOpen
  <1>11. Control'
    BY <1>1, <1>2, <1>4, <1>6, <1>7 DEF IInv, Control, Drives
  <1>12. \A n \in Messages : Outstanding(n)' <=> Outstanding(n)
    BY <1>1, <1>4 DEF Outstanding
  <1>13. \A n \in Messages : Outstanding(n) => n = nc.last
    BY <1>6 DEF IInv, Batches
  <1>14. Batches'
    BY <1>1, <1>2, <1>4, <1>7, <1>12, <1>13, ThreadFacts DEF IInv, Batches, Drives
  <1>15. Open'
    BY <1>1, <1>2, <1>3, <1>4, <1>6 DEF IInv, Open, IsOpen
  <1>16. Ordered'
    BY <1>1, <1>4 DEF IInv, Ordered, Independent, Good
  <1> QED
    BY <1>5, <1>9, <1>10, <1>11, <1>14, <1>15, <1>16 DEF IInv

LEMMA CancelKeeps ==
    ASSUME IInv, Cancel
    PROVE  IInv'
BY CancelDispatches, CancelAborts

LEMMA WindowReturnKeeps ==
    ASSUME IInv, NEW x \in Threads, Return(x), x # "completion"
    PROVE  IInv'
  <1>1. /\ run[x].pc = "return" /\ run' = [run EXCEPT ![x] = Idle]
        /\ UNCHANGED <<kind, nc, flags, msg, handling, inbox, plugin, xfer, wizard, wnd, children, app>>
    BY DEF Return
  <1>2. /\ run' \in [Threads -> RunRecords]
        /\ run'[x].pc = "idle" /\ run'[x].for = "nothing"
        /\ \A y \in Threads \ {x} : run'[y] = run[y]
    BY <1>1, Rests DEF IInv
  <1>3. Shape'
    BY <1>1, <1>2 DEF IInv, Shape
  <1>4. Delivery'
    BY <1>1, DeliveryFrame DEF IInv
  <1>5. NotBegun'
    BY <1>1, <1>2 DEF IInv, NotBegun, Owner
  <1>6. Control'
    BY <1>1, <1>2, ThreadFacts DEF IInv, Control, Drives, Owner
  <1>7. Batches'
    BY <1>1, <1>2, ThreadFacts DEF IInv, Batches, Outstanding, Drives
  <1>8. Open'
    BY <1>1, <1>2 DEF IInv, Open, IsOpen
  <1>9. Ordered'
    BY <1>1, <1>2, OrderedFrame DEF IInv
  <1> QED
    BY <1>3, <1>4, <1>5, <1>6, <1>7, <1>8, <1>9 DEF IInv

\* The completion thread frees what it handled: nobody waits for it.
LEMMA CompletionReturnKeeps ==
    ASSUME IInv, Return("completion")
    PROVE  IInv'
  <1>1. /\ run["completion"].pc = "return" /\ run' = [run EXCEPT !["completion"] = Idle]
        /\ msg' = [m \in Messages |-> IF m \in handling THEN Free ELSE msg[m]] /\ handling' = {}
        /\ UNCHANGED <<kind, nc, flags, inbox, plugin, xfer, wizard, wnd, children, app>>
    BY DEF Return
  <1>2. /\ run' \in [Threads -> RunRecords]
        /\ run'["completion"].pc = "idle" /\ run'["completion"].for = "nothing"
        /\ \A y \in Threads \ {"completion"} : run'[y] = run[y]
    BY <1>1, Rests, ThreadFacts DEF IInv
  <1>3. Free \in MsgRecords /\ Free.kind = "free" /\ Free.todo = {} /\ ~ Free.held
    BY DEF Free, MsgRecords
  <1>4. /\ \A n \in Messages \ handling : msg'[n] = msg[n]
        /\ \A n \in handling : /\ msg'[n].kind = "free" /\ msg'[n].todo = {} /\ ~ msg'[n].held
                               /\ msg[n].todo = {} /\ ~ msg[n].held
        /\ msg' \in [Messages -> MsgRecords] /\ handling \subseteq Messages
    <2>1. msg \in [Messages -> MsgRecords] /\ handling \subseteq Messages
      BY DEF IInv, Shape
    <2>2. \A n \in handling : msg[n].todo = {} /\ ~ msg[n].held
      BY DEF IInv, Delivery, Over
    <2>3. \A n \in handling : msg'[n] = Free
      BY <1>1, <2>1
    <2>4. \A n \in Messages \ handling : msg'[n] = msg[n]
      BY <1>1
    <2>5. msg' \in [Messages -> MsgRecords]
      BY <1>1, <1>3, <2>1
    <2> QED
      BY <1>3, <2>1, <2>2, <2>3, <2>4, <2>5
  <1>5. Shape'
    BY <1>1, <1>2, <1>4 DEF IInv, Shape
  <1>6. Delivery'
    <2>1. TakenOnce' /\ Completing' = Completing /\ \A t \in Types : Waiting(t)' = Waiting(t)
      BY <1>1 DEF IInv, Delivery, TakenOnce, Completing, Waiting
    <2>2. Completing \subseteq Messages /\ \A t \in Types : Waiting(t) \subseteq Messages
      BY DEF IInv, Shape, Completing, Waiting, ToSet
    <2>3. /\ \A n \in Messages : (msg[n].kind = "free" => msg[n].todo = {} /\ ~ msg[n].held)'
          /\ \A n \in Messages : (msg[n].kind = "child" => msg[n].todo = {})'
      BY <1>4 DEF IInv, Delivery
    <2>4. \A t \in Types : \A n \in Waiting(t)' : t \in msg'[n].todo /\ plugin'[t].m # n
      BY <1>1, <1>4, <2>1, <2>2, SMTT(60) DEF IInv, Delivery
    <2>5. \A t \in Types : plugin[t].pc # "idle" => plugin[t].m \in Messages \ handling
      BY <1>4 DEF IInv, Delivery
    <2>6. \A n \in Completing' : Over(n)' /\ n \notin handling'
      BY <1>1, <1>4, <2>1, <2>2 DEF IInv, Delivery, Over
    <2> QED
      BY <1>1, <1>4, <2>1, <2>3, <2>4, <2>5, <2>6 DEF IInv, Delivery
  <1>7. NotBegun'
    BY <1>1, <1>2, ThreadFacts DEF IInv, NotBegun, Owner
  <1>8. \A y \in Threads : Drives(y)' => y # "completion" /\ Drives(y)
    BY <1>2 DEF Drives
  <1>9. Control'
    BY <1>1, <1>2, <1>4, <1>8, ThreadFacts DEF IInv, Control, Drives, Owner
  <1>10. \A n \in Messages : Outstanding(n)' <=> Outstanding(n)
    BY <1>1, <1>4 DEF Outstanding
  <1>11. Batches'
    <2>1. \A n \in Messages : Outstanding(n) => msg'[n] = msg[n]
      BY <1>4 DEF Outstanding
    <2>2. \A n \in Messages : msg'[n].held => msg[n].held
      BY <1>4
    <2>3. nc.last \in Messages \cup {None}
      BY DEF IInv, Shape, NcRecords
    <2> QED
      BY <1>1, <1>2, <1>8, <1>10, <2>1, <2>2, <2>3, ThreadFacts DEF IInv, Batches, Drives
  <1>12. Open'
    BY <1>1, <1>2, <1>4 DEF IInv, Open, IsOpen
  <1>13. Ordered'
    BY <1>1, <1>2, <1>4 DEF IInv, Ordered, Independent, Good
  <1> QED
    BY <1>5, <1>6, <1>7, <1>9, <1>11, <1>12, <1>13 DEF IInv

LEMMA ReturnKeeps ==
    ASSUME IInv, NEW x \in Threads, Return(x)
    PROVE  IInv'
BY WindowReturnKeeps, CompletionReturnKeeps

\* The completion thread takes a message nobody has to do any more; the handler
\* of a batch makes the next one.
LEMMA ComplTakeKeeps ==
    ASSUME IInv, ComplTake
    PROVE  IInv'
  <1>1. PICK m \in Messages :
          /\ m = Head(xfer) /\ m \in Completing /\ Completing' = Completing \ {m}
          /\ xfer' \in Seq(Messages) /\ IsInjective(xfer')
    <2>1. xfer \in Seq(Messages) /\ xfer # <<>> /\ IsInjective(xfer) /\ xfer' = Tail(xfer)
      BY DEF ComplTake, IInv, Shape, Delivery, TakenOnce
    <2> QED
      BY <2>1, TailFacts DEF Completing
  <1>2. Over(m) /\ m \notin handling
    BY <1>1 DEF IInv, Delivery
  <1>3. PICK l \in {"level", "end"}, f \in {"handler", "operation", "child"} :
          /\ run' = [run EXCEPT !["completion"] = [Idle EXCEPT !.pc = l, !.for = f]]
          /\ l = "level" => f = "handler" /\ msg[m].kind = "process"
          /\ l = "end" => f \in {"operation", "child"} /\ msg[m].kind # "process"
          /\ f = "operation" => msg[m].kind = "end"
    <2>1. msg[m].kind \in {"process", "end", "child"}
      BY <1>2 DEF Over, IInv, Shape, MsgRecords
    <2>2. run' = [run EXCEPT !["completion"] =
              CASE msg[m].kind = "process" -> [Idle EXCEPT !.pc = "level", !.for = "handler"]
                [] msg[m].kind = "end"     -> [Idle EXCEPT !.pc = "end", !.for = "operation"]
                [] msg[m].kind = "child"   -> [Idle EXCEPT !.pc = "end", !.for = "child"]]
      BY <1>1 DEF ComplTake
    <2>3. CASE msg[m].kind = "process"
      BY <2>2, <2>3
    <2>4. CASE msg[m].kind = "end"
      BY <2>2, <2>4
    <2>5. CASE msg[m].kind = "child"
      BY <2>2, <2>5
    <2> QED
      BY <2>1, <2>3, <2>4, <2>5
  <1>4. /\ run["completion"].pc = "idle" /\ handling' = {m}
        /\ UNCHANGED <<kind, nc, flags, cs, msg, inbox, plugin, wizard, wnd, children, app>>
    BY <1>1 DEF ComplTake
  <1>5. /\ run' \in [Threads -> RunRecords]
        /\ run'["completion"].pc = l /\ run'["completion"].for = f
        /\ \A y \in Threads \ {"completion"} : run'[y] = run[y]
    <2>1. l \in Pcs /\ f \in {"nothing", "operation", "child", "dispatch", "handler"}
      BY DEF Pcs
    <2>2. PICK r : r = [Idle EXCEPT !.pc = l, !.for = f]
      OBVIOUS
    <2>3. PICK x \in Threads : x = "completion"
      BY ThreadFacts
    <2>4. run' = [run EXCEPT ![x] = r] /\ Shape
      BY <1>3, <2>2, <2>3 DEF IInv
    <2>5. /\ run' \in [Threads -> RunRecords]
          /\ run'[x].pc = l /\ run'[x].for = f
          /\ \A y \in Threads \ {x} : run'[y] = run[y]
      BY <2>1, <2>2, <2>4, StartsNew
    <2> QED
      BY <2>3, <2>5
  <1>6. Shape'
    BY <1>1, <1>4, <1>5 DEF IInv, Shape
  <1>7. handling = {}
    BY <1>4 DEF IInv, Control
  <1>8. Delivery'
    <2>1. TakenOnce' /\ \A t \in Types : Waiting(t)' = Waiting(t)
      BY <1>1, <1>4 DEF IInv, Delivery, TakenOnce, Waiting
    <2>2. \A n \in Messages : Over(n)' <=> Over(n)
      BY <1>4 DEF Over
    <2>3. Completing \subseteq Messages
      BY DEF IInv, Shape, Completing, ToSet
    <2> QED
      BY <1>1, <1>2, <1>4, <2>1, <2>2, <2>3 DEF IInv, Delivery
  <1>9. msg[m].kind # "free"
    BY <1>2 DEF Over
  <1>10. NotBegun'
    BY <1>3, <1>4, <1>5, <1>9 DEF IInv, NotBegun
  <1>11. CASE l = "level"
    <2>1. Outstanding(m) /\ msg[m].kind = "process"
      BY <1>2, <1>3, <1>11 DEF Outstanding, Over
    <2>2. /\ nc.state # "none" /\ (nc.alive => nc.last = m)
          /\ \A y \in Threads : ~ Drives(y)
          /\ \A n \in Messages : Outstanding(n) => n = m
      BY <2>1 DEF IInv, Batches
    <2>3. \A y \in Threads : Drives(y)' => y = "completion"
      BY <1>5, <2>2 DEF Drives
    <2>4. Control'
      BY <1>3, <1>4, <1>5, <1>11, <2>1, <2>2, <2>3, ThreadFacts DEF IInv, Control, Drives, Owner
    <2>5. \A n \in Messages : ~ Outstanding(n)'
      BY <1>4, <1>7, <2>2 DEF Outstanding
    <2>6. nc.last = None \/ nc.last = m
      <3>1. nc.last \in Messages \cup {None} /\ run["completion"].pc # "level"
        BY <1>4 DEF IInv, Shape, NcRecords
      <3> QED
        BY <2>2, <3>1 DEF IInv, Batches
    <2>7. Batches'
      <3>1. Drives("completion")' /\ run'["completion"].for = "handler" /\ run'["completion"].pc = "level"
        BY <1>3, <1>5, <1>11 DEF Drives
      <3>2. \A n \in Messages : msg'[n].held => \E y \in Threads : run'[y].pc = "commit" /\ run'[y].call = n
        BY <1>4, <1>5 DEF IInv, Batches
      <3> QED
        BY <1>4, <2>1, <2>5, <2>6, <3>1, <3>2 DEF Batches
    <2>8. Open'
      BY <1>3, <1>4, <1>5, <1>11, ThreadFacts DEF IInv, Open, IsOpen
    <2>9. Ordered'
      BY <1>4, <1>5, <1>11, OrderedFrame DEF IInv
    <2> QED
      BY <1>6, <1>8, <1>10, <2>4, <2>7, <2>8, <2>9 DEF IInv
  <1>12. CASE l = "end"
    <2>1. f \in {"operation", "child"} /\ msg[m].kind # "process"
      BY <1>3, <1>12
    <2>2. Control'
      BY <1>4, <1>5, <1>7, <1>12, <2>1, ThreadFacts DEF IInv, Control, Drives, Owner
    <2>3. \A n \in Messages : Outstanding(n)' <=> Outstanding(n)
      BY <1>4, <1>7, <2>1 DEF Outstanding
    <2>4. \A y \in Threads : Drives(y)' <=> Drives(y)
      BY <1>4, <1>5, <1>12 DEF Drives
    <2>5. Batches'
      <3>1. nc.last \in Messages \cup {None} /\ run["completion"].pc # "level"
            /\ ~ Drives("completion")
        BY <1>4 DEF IInv, Shape, NcRecords, Drives
      <3>2. /\ nc.state # "none" => \E n \in Messages : Outstanding(n)
            /\ nc.last # None => Outstanding(nc.last)
        BY <3>1 DEF IInv, Batches
      <3>3. nc.last # None => Outstanding(nc.last)'
        BY <1>4, <2>3, <3>1, <3>2 DEF Outstanding
      <3>4. \A n \in Messages : msg'[n].held => \E y \in Threads : run'[y].pc = "commit" /\ run'[y].call = n
        BY <1>4, <1>5 DEF IInv, Batches
      <3> QED
        BY <1>4, <2>3, <2>4, <3>2, <3>3, <3>4 DEF IInv, Batches
    <2>6. Open'
      BY <1>3, <1>4, <1>5, <1>12 DEF IInv, Open, IsOpen
    <2>7. Ordered'
      BY <1>4, <1>5, <1>12, OrderedFrame DEF IInv
    <2> QED
      BY <1>6, <1>8, <1>10, <2>2, <2>5, <2>6, <2>7 DEF IInv
  <1> QED
    BY <1>11, <1>12

-----------------------------------------------------------------------------
(* The plug-ins.                                                            *)

LEMMA PluginFrame ==
    ASSUME IInv, UNCHANGED <<kind, msg, handling, run, wizard, children>>,
           nc'.alive = nc.alive, nc'.state = nc.state, nc'.last = nc.last
    PROVE  NotBegun' /\ Control' /\ Batches' /\ Open'
  <1>1. NotBegun'
    BY DEF IInv, NotBegun, Owner
  <1>2. Control'
    BY DEF IInv, Control, Drives, Owner
  <1>3. Batches'
    BY DEF IInv, Batches, Outstanding, Drives
  <1>4. Open'
    BY DEF IInv, Open, IsOpen
  <1> QED
    BY <1>1, <1>2, <1>3, <1>4

LEMMA PluginTakeKeeps ==
    ASSUME IInv, NEW t \in Types, PluginTake(t)
    PROVE  IInv'
  <1>1. /\ plugin[t].pc = "idle"
        /\ UNCHANGED <<kind, nc, flags, cs, msg, xfer, handling, run, wizard, wnd, children, app>>
    BY DEF PluginTake
  <1>2. PICK m \in Messages :
          /\ m \in Waiting(t) /\ Waiting(t)' = Waiting(t) \ {m}
          /\ inbox' \in [Types -> Seq(Messages)] /\ IsInjective(inbox'[t])
          /\ \A u \in Types \ {t} : inbox'[u] = inbox[u]
          /\ plugin' = [plugin EXCEPT ![t] = [pc |-> msg[m].kind, m |-> m]]
    <2>1. /\ inbox \in [Types -> Seq(Messages)] /\ inbox[t] # <<>> /\ IsInjective(inbox[t])
          /\ inbox' = [inbox EXCEPT ![t] = Tail(inbox[t])]
      BY DEF PluginTake, IInv, Shape, Delivery, TakenOnce
    <2>2. /\ Head(inbox[t]) \in Messages /\ Head(inbox[t]) \in ToSet(inbox[t])
          /\ Tail(inbox[t]) \in Seq(Messages) /\ IsInjective(Tail(inbox[t]))
          /\ ToSet(Tail(inbox[t])) = ToSet(inbox[t]) \ {Head(inbox[t])}
      BY <2>1, TailFacts
    <2>3. inbox'[t] = Tail(inbox[t]) /\ \A u \in Types \ {t} : inbox'[u] = inbox[u]
      BY <2>1
    <2>4. inbox' \in [Types -> Seq(Messages)]
      BY <2>1, <2>2
    <2>5. plugin' = [plugin EXCEPT ![t] = [pc |-> msg[Head(inbox[t])].kind, m |-> Head(inbox[t])]]
      BY DEF PluginTake
    <2> QED
      BY <2>2, <2>3, <2>4, <2>5 DEF Waiting
  <1>3. t \in msg[m].todo /\ msg[m].kind \in {"process", "end"}
    <2>1. t \in msg[m].todo
      BY <1>2 DEF IInv, Delivery
    <2>2. msg[m].kind \in {"free", "process", "end", "child"}
      BY DEF IInv, Shape, MsgRecords
    <2> QED
      BY <2>1, <2>2 DEF IInv, Delivery
  <1>4. /\ plugin' \in [Types -> PluginRecords]
        /\ plugin'[t].pc = msg[m].kind /\ plugin'[t].m = m
        /\ \A u \in Types \ {t} : plugin'[u] = plugin[u]
    <2>1. plugin \in [Types -> PluginRecords]
      BY DEF IInv, Shape
    <2>2. [pc |-> msg[m].kind, m |-> m] \in PluginRecords
      BY <1>3 DEF PluginRecords
    <2> QED
      BY <1>2, <2>1, <2>2
  <1>5. Shape'
    BY <1>1, <1>2, <1>4 DEF IInv, Shape
  <1>6. Delivery'
    <2>1. TakenOnce' /\ Completing' = Completing /\ \A u \in Types \ {t} : Waiting(u)' = Waiting(u)
      BY <1>1, <1>2 DEF IInv, Delivery, TakenOnce, Completing, Waiting
    <2>2. \A n \in Messages : Over(n)' <=> Over(n)
      BY <1>1 DEF Over
    <2>3. Completing \subseteq Messages /\ handling \subseteq Messages
      BY DEF IInv, Shape, Completing, ToSet
    <2>4. \A u \in Types : \A n \in Waiting(u)' : u \in msg'[n].todo /\ plugin'[u].m # n
      BY <1>1, <1>2, <1>4, <2>1 DEF IInv, Delivery
    <2>5. \A u \in Types : plugin'[u].pc # "idle" =>
            /\ plugin'[u].m \in Messages /\ u \in msg'[plugin'[u].m].todo
            /\ plugin'[u].pc \in {"process", "asking", "derived"} => msg'[plugin'[u].m].kind = "process"
            /\ plugin'[u].pc = "end" => msg'[plugin'[u].m].kind = "end"
      BY <1>1, <1>3, <1>4 DEF IInv, Delivery
    <2>6. \A u \in Types : plugin'[u].pc = "idle" => plugin'[u].m = None
      BY <1>3, <1>4 DEF IInv, Delivery
    <2> QED
      BY <1>1, <2>1, <2>2, <2>3, <2>4, <2>5, <2>6 DEF IInv, Delivery
  <1>7. NotBegun' /\ Control' /\ Batches' /\ Open'
    BY <1>1, PluginFrame
  <1>8. Ordered'
    BY <1>1, OrderedFrame DEF IInv
  <1> QED
    BY <1>5, <1>6, <1>7, <1>8 DEF IInv

\* A plug-in goes on to l, with the message it has.
LEMMA PluginGoesOn ==
    ASSUME IInv, NEW t \in Types, NEW l \in {"asking", "done"},
           plugin[t].pc # "idle", l = "done" \/ plugin[t].pc = "process",
           plugin' = [plugin EXCEPT ![t].pc = l],
           UNCHANGED <<msg, inbox, xfer, handling>>
    PROVE  plugin' \in [Types -> PluginRecords] /\ Delivery'
  <1>1. plugin[t] \in PluginRecords /\ plugin'[t] = [plugin[t] EXCEPT !.pc = l]
        /\ \A u \in Types \ {t} : plugin'[u] = plugin[u]
    BY DEF IInv, Shape
  <1>2. plugin'[t] \in PluginRecords /\ plugin'[t].pc = l /\ plugin'[t].m = plugin[t].m
    BY <1>1 DEF PluginRecords
  <1>3. plugin' \in [Types -> PluginRecords]
    BY <1>2 DEF IInv, Shape
  <1>4. Delivery'
    BY <1>1, <1>2, DeliveryPlugin DEF IInv
  <1> QED
    BY <1>3, <1>4

LEMMA PluginSilentKeeps ==
    ASSUME IInv, NEW t \in Types, PluginSilent(t)
    PROVE  IInv'
  <1>1. /\ plugin[t].pc # "idle" /\ plugin' = [plugin EXCEPT ![t].pc = "done"]
        /\ UNCHANGED <<kind, nc, flags, cs, msg, inbox, xfer, handling, run, wizard, wnd, children, app>>
    BY DEF PluginSilent
  <1>2. plugin' \in [Types -> PluginRecords] /\ Delivery'
    BY <1>1, PluginGoesOn
  <1>3. Shape'
    BY <1>1, <1>2 DEF IInv, Shape
  <1>4. NotBegun' /\ Control' /\ Batches' /\ Open'
    BY <1>1, PluginFrame
  <1>5. Ordered'
    BY <1>1, OrderedFrame DEF IInv
  <1> QED
    BY <1>2, <1>3, <1>4, <1>5 DEF IInv

LEMMA PluginLeaveKeeps ==
    ASSUME IInv, NEW t \in Types, PluginLeave(t)
    PROVE  IInv'
  <1>1. /\ plugin[t].pc # "idle" /\ plugin' = [plugin EXCEPT ![t].pc = "done"]
        /\ nc' = [nc EXCEPT !.types = @ \ {t}]
        /\ UNCHANGED <<kind, flags, cs, msg, inbox, xfer, handling, run, wizard, wnd, children, app>>
    BY DEF PluginLeave
  <1>2. plugin' \in [Types -> PluginRecords] /\ Delivery'
    BY <1>1, PluginGoesOn
  <1>3. nc' \in NcRecords /\ nc'.alive = nc.alive /\ nc'.state = nc.state /\ nc'.last = nc.last
    BY <1>1 DEF IInv, Shape, NcRecords
  <1>4. Shape'
    BY <1>1, <1>2, <1>3 DEF IInv, Shape
  <1>5. NotBegun' /\ Control' /\ Batches' /\ Open'
    BY <1>1, <1>3, PluginFrame
  <1>6. Ordered'
    BY <1>1, OrderedFrame DEF IInv
  <1> QED
    BY <1>2, <1>4, <1>5, <1>6 DEF IInv

\* A response changes the flags of a type of the batch: none of the batch's
\* types waits for it.
LEMMA PluginRespondKeeps ==
    ASSUME IInv, NEW t \in Types, PluginRespond(t)
    PROVE  IInv'
  <1>1. PICK r \in Responses :
          /\ plugin[t].pc \in {"process", "derived"} /\ plugin' = [plugin EXCEPT ![t].pc = "done"]
          /\ flags' = [flags EXCEPT ![t] = (@ \ {"completed", "failed"}) \cup r.f]
          /\ nc' = [nc EXCEPT !.noexit = @ \/ r.noexit]
          /\ UNCHANGED <<kind, cs, msg, inbox, xfer, handling, run, wizard, wnd, children, app>>
    BY DEF PluginRespond
  <1>2. plugin' \in [Types -> PluginRecords] /\ Delivery'
    BY <1>1, PluginGoesOn
  <1>3. r.noexit \in BOOLEAN /\ r.f \in SUBSET {"completed", "failed"}
    <2>1. PICK e \in BOOLEAN, f \in {{}, {"completed"}, {"failed"}, {"completed", "failed"}} :
            r = [noexit |-> e, f |-> f]
      BY DEF Responses
    <2>2. r.noexit = e /\ r.f = f
      BY <2>1
    <2> QED
      BY <2>2
  <1>4. nc' \in NcRecords /\ nc'.alive = nc.alive /\ nc'.state = nc.state /\ nc'.last = nc.last
    <2>1. nc.noexit \/ r.noexit \in BOOLEAN
      BY <1>3 DEF IInv, Shape, NcRecords
    <2> QED
      BY <1>1, <2>1 DEF IInv, Shape, NcRecords
  <1>5. flags' \in [Types -> SUBSET Flags] /\ \A u \in Types \ {t} : flags'[u] = flags[u]
    <2>1. flags \in [Types -> SUBSET Flags] /\ {"completed", "failed"} \subseteq Flags
      BY DEF IInv, Shape, Flags
    <2>2. (flags[t] \ {"completed", "failed"}) \cup r.f \in SUBSET Flags
      BY <1>3, <2>1
    <2> QED
      BY <1>1, <2>1, <2>2
  <1>6. Shape'
    BY <1>1, <1>2, <1>4, <1>5 DEF IInv, Shape
  <1>7. NotBegun' /\ Control' /\ Batches' /\ Open'
    BY <1>1, <1>4, PluginFrame
  <1>8. PICK m \in Messages : m = plugin[t].m /\ msg[m].kind = "process" /\ t \in msg[m].todo
    BY <1>1 DEF IInv, Delivery
  <1>9. \A n \in Messages : msg[n].kind = "process" /\ msg[n].todo # {} => n = m
    BY <1>8, OneInWork DEF IInv
  <1>10. \A x \in Threads : run[x].pc # "post"
    BY <1>8, NoneInWork DEF IInv
  <1>11. Independent(msg[m].todo)'
    <2>1. PICK T : T = msg[m].todo
      OBVIOUS
    <2>2. Independent(T) /\ t \in T /\ T \subseteq Types
      BY <1>8, <2>1 DEF IInv, Ordered, Shape, MsgRecords
    <2>3. ASSUME NEW u \in T
          PROVE  Good(u)' /\ DepsOf[u] \cap T = {}
      <3>1. Good(u) /\ DepsOf[u] \cap T = {} /\ DepsOf[u] \subseteq Types
        BY <2>2, DispatchAssumption DEF Independent
      <3>2. \A d \in DepsOf[u] : flags'[d] = flags[d]
        BY <1>5, <2>2, <3>1
      <3> QED
        BY <3>1, <3>2 DEF Good
    <2> QED
      BY <1>1, <2>1, <2>3 DEF Independent, Good
  <1>12. Ordered'
    <2>1. ASSUME NEW n \in Messages, (msg[n].kind = "process")'
          PROVE  Independent(msg[n].todo)'
      <3>1. CASE n = m
        BY <1>11, <3>1
      <3>2. CASE n # m
        <4>1. msg'[n].todo = {}
          BY <1>1, <1>9, <2>1, <3>2
        <4> QED
          BY <4>1 DEF Independent
      <3> QED
        BY <3>1, <3>2
    <2> QED
      BY <1>1, <1>10, <2>1 DEF Ordered
  <1> QED
    BY <1>2, <1>6, <1>7, <1>12 DEF IInv

\* The last recipient hands the message to the completion thread.
LEMMA PluginDoneKeeps ==
    ASSUME IInv, NEW t \in Types, PluginDone(t)
    PROVE  IInv'
  <1>1. /\ plugin[t].pc = "done" /\ plugin' = [plugin EXCEPT ![t] = Asleep]
        /\ UNCHANGED <<kind, nc, flags, cs, inbox, handling, run, wizard, wnd, children, app>>
    BY DEF PluginDone
  <1>2. PICK m \in Messages : m = plugin[t].m /\ t \in msg[m].todo
    BY <1>1 DEF IInv, Delivery
  <1>3. /\ msg' = [msg EXCEPT ![m].todo = @ \ {t}]
        /\ xfer' = IF msg[m].todo = {t} /\ ~ msg[m].held THEN Append(xfer, m) ELSE xfer
    BY <1>2 DEF PluginDone
  <1>4. /\ msg' \in [Messages -> MsgRecords]
        /\ msg'[m].kind = msg[m].kind /\ msg'[m].todo = msg[m].todo \ {t}
        /\ msg'[m].held = msg[m].held /\ msg'[m].aborted = msg[m].aborted
        /\ \A n \in Messages \ {m} : msg'[n] = msg[n]
    <2>1. msg \in [Messages -> MsgRecords]
      BY DEF IInv, Shape
    <2>2. PICK r, q : r = msg[m] /\ q = msg'[m]
      OBVIOUS
    <2>3. r \in MsgRecords /\ q = [r EXCEPT !.todo = @ \ {t}]
      BY <1>3, <2>1, <2>2
    <2>4. /\ q \in MsgRecords /\ q.kind = r.kind /\ q.todo = r.todo \ {t}
          /\ q.held = r.held /\ q.aborted = r.aborted
      BY <2>3 DEF MsgRecords
    <2>5. \A n \in Messages \ {m} : msg'[n] = msg[n]
      BY <1>3, <2>1
    <2>6. msg' \in [Messages -> MsgRecords]
      BY <1>3, <2>1, <2>2, <2>4
    <2> QED
      BY <2>2, <2>4, <2>5, <2>6
  <1>5. m \notin Completing /\ m \notin handling /\ msg[m].kind # "free"
    BY <1>2 DEF IInv, Delivery, Over
  <1>6. /\ xfer' \in Seq(Messages) /\ IsInjective(xfer')
        /\ \/ Completing' = Completing
           \/ Completing' = Completing \cup {m} /\ msg[m].todo = {t} /\ ~ msg[m].held
    <2>1. xfer \in Seq(Messages) /\ IsInjective(xfer) /\ m \notin ToSet(xfer)
      BY <1>5 DEF IInv, Shape, Delivery, TakenOnce, Completing
    <2>2. CASE xfer' = xfer
      BY <2>1, <2>2 DEF Completing
    <2>3. CASE xfer' = Append(xfer, m) /\ msg[m].todo = {t} /\ ~ msg[m].held
      <3>1. xfer' \in Seq(Messages) /\ IsInjective(xfer') /\ ToSet(xfer') = ToSet(xfer) \cup {m}
        BY <2>1, <2>3, AppendFacts
      <3> QED
        BY <2>3, <3>1 DEF Completing
    <2> QED
      BY <1>3, <2>2, <2>3
  <1>7. /\ plugin' \in [Types -> PluginRecords]
        /\ plugin'[t].pc = "idle" /\ plugin'[t].m = None
        /\ \A u \in Types \ {t} : plugin'[u] = plugin[u]
    <2>1. plugin \in [Types -> PluginRecords]
      BY DEF IInv, Shape
    <2>2. Asleep \in PluginRecords /\ Asleep.pc = "idle" /\ Asleep.m = None
      BY DEF Asleep, PluginRecords
    <2> QED
      BY <1>1, <2>1, <2>2
  <1>8. Shape'
    BY <1>1, <1>4, <1>6, <1>7 DEF IInv, Shape
  <1>9. Delivery'
    <2>1. TakenOnce' /\ \A u \in Types : Waiting(u)' = Waiting(u)
      BY <1>1, <1>6 DEF IInv, Delivery, TakenOnce, Waiting
    <2>2. Completing \subseteq Messages /\ handling \subseteq Messages
          /\ \A u \in Types : Waiting(u) \subseteq Messages
      BY DEF IInv, Shape, Completing, Waiting, ToSet
    <2>3. \A n \in Messages \ {m} : Over(n)' <=> Over(n)
      BY <1>4 DEF Over
    <2>4. msg[m].todo = {t} /\ ~ msg[m].held => Over(m)'
      BY <1>4, <1>5 DEF Over
    <2>5. /\ \A n \in Completing' : Over(n)' /\ n \notin handling'
          /\ \A n \in handling' : Over(n)'
      BY <1>1, <1>5, <1>6, <2>2, <2>3, <2>4 DEF IInv, Delivery
    <2>6. /\ \A n \in Messages : (msg[n].kind = "free" => msg[n].todo = {} /\ ~ msg[n].held)'
          /\ \A n \in Messages : (msg[n].kind = "child" => msg[n].todo = {})'
      BY <1>4, <1>5 DEF IInv, Delivery
    <2>7. None \notin Messages
      BY DispatchAssumption
    <2>8. \A u \in Types : \A n \in Waiting(u)' : u \in msg'[n].todo /\ plugin'[u].m # n
      <3> SUFFICES ASSUME NEW u \in Types, NEW n \in Waiting(u)
                   PROVE  u \in msg'[n].todo /\ plugin'[u].m # n
        BY <2>1
      <3>1. n \in Messages /\ u \in msg[n].todo /\ plugin[u].m # n
        BY <2>2 DEF IInv, Delivery
      <3>2. n = m => u # t
        BY <1>2, <3>1
      <3> QED
        BY <1>4, <1>7, <2>7, <3>1, <3>2
    <2>9. \A u \in Types : plugin'[u].pc # "idle" =>
            /\ plugin'[u].m \in Messages /\ u \in msg'[plugin'[u].m].todo
            /\ plugin'[u].pc \in {"process", "asking", "derived"} => msg'[plugin'[u].m].kind = "process"
            /\ plugin'[u].pc = "end" => msg'[plugin'[u].m].kind = "end"
      BY <1>4, <1>7 DEF IInv, Delivery
    <2>10. \A u \in Types : plugin'[u].pc = "idle" => plugin'[u].m = None
      BY <1>7 DEF IInv, Delivery
    <2> QED
      BY <2>1, <2>5, <2>6, <2>8, <2>9, <2>10 DEF Delivery
  <1>10. NotBegun'
    BY <1>1, <1>5 DEF IInv, NotBegun
  <1>11. \A n \in Messages : /\ msg'[n].kind = msg[n].kind /\ msg'[n].held = msg[n].held
                            /\ msg'[n].aborted = msg[n].aborted /\ msg'[n].todo \subseteq msg[n].todo
    BY <1>4
  <1>12. Control'
    <2>1. handling \subseteq Messages /\ Owner' = Owner
      BY <1>1 DEF IInv, Shape, Owner
    <2> QED
      BY <1>1, <1>11, <2>1 DEF IInv, Control, Drives
  <1>13. Batches'
    <2>1. \A n \in Messages : Outstanding(n)' <=> Outstanding(n)
      BY <1>1, <1>11 DEF Outstanding
    <2>2. nc.last \in Messages \cup {None}
      BY DEF IInv, Shape, NcRecords
    <2> QED
      BY <1>1, <1>11, <2>1, <2>2 DEF IInv, Batches, Drives
  <1>14. Open'
    BY <1>1, <1>11 DEF IInv, Open, IsOpen
  <1>15. Ordered'
    <2>1. ASSUME NEW n \in Messages, (msg[n].kind = "process")'
          PROVE  Independent(msg[n].todo)'
      <3>1. Independent(msg[n].todo) /\ msg'[n].todo \subseteq msg[n].todo
        BY <1>11, <2>1 DEF IInv, Ordered
      <3> QED
        BY <1>1, <3>1 DEF Independent, Good
    <2>2. \A x \in Threads : (run[x].pc = "post" => Independent(run[x].subs))'
      BY <1>1 DEF IInv, Ordered, Independent, Good
    <2> QED
      BY <2>1, <2>2 DEF Ordered
  <1> QED
    BY <1>8, <1>9, <1>10, <1>12, <1>13, <1>14, <1>15 DEF IInv

LEMMA PluginDeriveKeeps ==
    ASSUME IInv, NEW t \in Types, PluginDerive(t)
    PROVE  IInv'
  <1>1. /\ plugin[t].pc = "process" /\ plugin' = [plugin EXCEPT ![t].pc = "asking"]
        /\ run["ui"].pc = "idle" /\ nc' = [nc EXCEPT !.children = @ + 1]
        /\ run' = [run EXCEPT !["ui"] = [Idle EXCEPT !.pc = "begin", !.for = "child"]]
        /\ UNCHANGED <<kind, flags, cs, msg, inbox, xfer, handling, wizard, wnd, children, app>>
    BY DEF PluginDerive
  <1>2. plugin' \in [Types -> PluginRecords] /\ Delivery'
    BY <1>1, PluginGoesOn
  <1>3. /\ run' \in [Threads -> RunRecords]
        /\ run'["ui"].pc = "begin" /\ run'["ui"].for = "child"
        /\ \A y \in Threads \ {"ui"} : run'[y] = run[y]
    <2>1. PICK l \in Pcs : l = "begin"
      BY DEF Pcs
    <2>2. PICK f \in {"nothing", "operation", "child", "dispatch", "handler"} : f = "child"
      OBVIOUS
    <2>3. PICK x \in Threads : x = "ui"
      BY ThreadFacts
    <2>4. PICK r : r = [Idle EXCEPT !.pc = l, !.for = f]
      OBVIOUS
    <2>5. run' = [run EXCEPT ![x] = r] /\ Shape
      BY <1>1, <2>1, <2>2, <2>3, <2>4 DEF IInv
    <2>6. /\ run' \in [Threads -> RunRecords]
          /\ run'[x].pc = l /\ run'[x].for = f
          /\ \A y \in Threads \ {x} : run'[y] = run[y]
      BY <2>4, <2>5, StartsNew
    <2> QED
      BY <2>1, <2>2, <2>3, <2>6
  <1>4. nc' \in NcRecords /\ nc'.alive = nc.alive /\ nc'.state = nc.state /\ nc'.last = nc.last
    <2>1. nc.children + 1 \in Int
      BY DEF IInv, Shape, NcRecords
    <2> QED
      BY <1>1, <2>1 DEF IInv, Shape, NcRecords
  <1>5. Shape'
    BY <1>1, <1>2, <1>3, <1>4 DEF IInv, Shape
  <1>6. \E m \in Messages : msg[m].kind # "free"
    BY <1>1 DEF IInv, Delivery
  <1>7. NotBegun'
    BY <1>1, <1>3, <1>6 DEF IInv, NotBegun
  <1>8. \A y \in Threads : /\ Drives(y)' <=> Drives(y)
                           /\ Drives(y) => run'[y] = run[y]
    BY <1>1, <1>3 DEF Drives
  <1>9. Control'
    BY <1>1, <1>3, <1>4, ThreadFacts DEF IInv, Control, Drives, Owner
  <1>10. Batches'
    BY <1>1, <1>3, <1>4, ThreadFacts DEF IInv, Batches, Outstanding, Drives
  <1>11. Open'
    BY <1>1, <1>3, <1>4 DEF IInv, Open, IsOpen
  <1>12. Ordered'
    BY <1>1, <1>3, OrderedFrame DEF IInv
  <1> QED
    BY <1>2, <1>5, <1>7, <1>9, <1>10, <1>11, <1>12 DEF IInv

-----------------------------------------------------------------------------
(* A child operation's END.                                                 *)

LEMMA ChildEndsKeeps ==
    ASSUME IInv, ChildEnds
    PROVE  IInv'
  <1>1. PICK m \in Messages :
          /\ msg[m].kind = "free"
          /\ msg' = [msg EXCEPT ![m] = [Free EXCEPT !.kind = "child"]]
          /\ xfer' = Append(xfer, m)
    BY DEF ChildEnds
  <1>2. UNCHANGED <<kind, nc, flags, cs, inbox, plugin, handling, run, wizard, wnd, children, app>>
    BY DEF ChildEnds
  <1>3. /\ msg' \in [Messages -> MsgRecords]
        /\ msg'[m].kind = "child" /\ msg'[m].todo = {} /\ ~ msg'[m].held
        /\ \A n \in Messages \ {m} : msg'[n] = msg[n]
    <2>1. PICK q : q = [Free EXCEPT !.kind = "child"]
      OBVIOUS
    <2>2. q \in MsgRecords /\ q.kind = "child" /\ q.todo = {} /\ ~ q.held
      BY <2>1 DEF Free, MsgRecords
    <2> QED
      BY <1>1, <2>1, <2>2 DEF IInv, Shape
  <1>4. msg[m].todo = {} /\ ~ msg[m].held /\ m \notin handling /\ m \notin Completing
    BY <1>1 DEF IInv, Delivery, Over
  <1>5. xfer' \in Seq(Messages) /\ IsInjective(xfer') /\ Completing' = Completing \cup {m}
    <2>1. xfer \in Seq(Messages) /\ IsInjective(xfer) /\ m \notin ToSet(xfer)
      BY <1>4 DEF IInv, Shape, Delivery, TakenOnce, Completing
    <2> QED
      BY <1>1, <2>1, AppendFacts DEF Completing
  <1>6. Shape'
    BY <1>2, <1>3, <1>5 DEF IInv, Shape
  <1>7. Delivery'
    <2>1. TakenOnce' /\ \A t \in Types : Waiting(t)' = Waiting(t)
      BY <1>2, <1>5 DEF IInv, Delivery, TakenOnce, Waiting
    <2>2. Completing \subseteq Messages /\ handling \subseteq Messages
          /\ \A t \in Types : Waiting(t) \subseteq Messages
      BY DEF IInv, Shape, Completing, Waiting, ToSet
    <2>3. \A n \in Messages \ {m} : Over(n)' <=> Over(n)
      BY <1>3 DEF Over
    <2>4. Over(m)'
      BY <1>3 DEF Over
    <2>5. /\ \A n \in Completing' : Over(n)' /\ n \notin handling'
          /\ \A n \in handling' : Over(n)'
      BY <1>2, <1>4, <1>5, <2>2, <2>3, <2>4 DEF IInv, Delivery
    <2>6. /\ \A n \in Messages : (msg[n].kind = "free" => msg[n].todo = {} /\ ~ msg[n].held)'
          /\ \A n \in Messages : (msg[n].kind = "child" => msg[n].todo = {})'
      BY <1>3 DEF IInv, Delivery
    <2>7. \A t \in Types : \A n \in Waiting(t)' : t \in msg'[n].todo /\ plugin'[t].m # n
      BY <1>2, <1>3, <1>4, <2>1, <2>2 DEF IInv, Delivery
    <2>8. \A t \in Types : plugin[t].pc # "idle" => plugin[t].m \in Messages \ {m}
      BY <1>4 DEF IInv, Delivery
    <2> QED
      BY <1>2, <1>3, <2>1, <2>5, <2>6, <2>7, <2>8 DEF IInv, Delivery
  <1>8. NotBegun'
    <2>1. ASSUME NEW x \in Threads, run[x].for = "operation", run[x].pc \in {"begin", "began"}
          PROVE  FALSE
      <3>1. children = 0 /\ \A n \in Messages : msg[n].kind = "free"
        BY <2>1 DEF IInv, NotBegun
      <3>2. {n \in Messages : msg[n].kind = "child"} = {}
        BY <3>1
      <3>3. Cardinality({n \in Messages : msg[n].kind = "child"}) = 0
        BY <3>2, FS_EmptySet
      <3> QED
        BY <3>1, <3>3 DEF ChildEnds
    <2> QED
      BY <1>2, <2>1 DEF NotBegun
  <1>9. SameBatches
    BY <1>1, <1>3, <1>4 DEF SameBatches
  <1>10. \A n \in Messages : msg[n].kind = "process" => msg'[n] = msg[n]
    BY <1>9 DEF SameBatches
  <1>11. handling \subseteq Messages /\ nc.last \in Messages \cup {None} /\ Owner' = Owner
    BY <1>2 DEF IInv, Shape, NcRecords, Owner
  <1>12. Control'
    BY <1>2, <1>10, <1>11 DEF IInv, Control, Drives
  <1>13. Batches'
    <2>1. \A n \in Messages : Outstanding(n)' <=> Outstanding(n)
      BY <1>2, <1>9 DEF Outstanding, SameBatches
    <2>2. \A n \in Messages : msg'[n].held => msg[n].held
      BY <1>9 DEF SameBatches
    <2>3. \A n \in Messages : Outstanding(n) => msg'[n] = msg[n]
      BY <1>10 DEF Outstanding
    <2> QED
      BY <1>2, <1>10, <1>11, <2>1, <2>2, <2>3, ThreadFacts DEF IInv, Batches, Drives
  <1>14. Open'
    BY <1>2, <1>3 DEF IInv, Open, IsOpen
  <1>15. Ordered'
    <2>1. \A n \in Messages : msg'[n].kind = "process" => msg'[n] = msg[n]
      BY <1>9 DEF SameBatches
    <2> QED
      BY <1>2, <2>1 DEF IInv, Ordered, Independent, Good
  <1> QED
    BY <1>6, <1>7, <1>8, <1>12, <1>13, <1>14, <1>15 DEF IInv

-----------------------------------------------------------------------------
(* The theorems.                                                            *)

\* The initial states satisfy the inductive invariant.
THEOREM InitHolds == Init => IInv
  <1> SUFFICES ASSUME Init PROVE IInv
    OBVIOUS
  <1>1. Shape
    <2>1. kind \in {"dialog", "renew"}
      BY DispatchAssumption DEF Init
    <2>2. nc \in NcRecords
      BY DEF Init, NcRecords
    <2>3. flags \in [Types -> SUBSET Flags]
      BY DEF Init, Flags
    <2>4. msg \in [Messages -> MsgRecords]
      <3>1. Free \in MsgRecords
        BY DEF Free, MsgRecords
      <3> QED
        BY <3>1 DEF Init
    <2>5. inbox \in [Types -> Seq(Messages)] /\ xfer \in Seq(Messages) /\ handling \in SUBSET Messages
      BY DEF Init
    <2>6. plugin \in [Types -> PluginRecords]
      <3>1. Asleep \in PluginRecords
        BY DEF Asleep, PluginRecords
      <3> QED
        BY <3>1 DEF Init
    <2>7. run \in [Threads -> RunRecords]
      <3>1. [Idle EXCEPT !.pc = "begin", !.for = "operation"] \in RunRecords
        BY IdleIsRun DEF RunRecords, Pcs
      <3> QED
        BY <3>1, IdleIsRun DEF Init
    <2>8. wizard \in WizardRecords
      BY DEF Init, WizardRecords
    <2>9. children \in Int
      BY DEF Init
    <2>10. app \in AppRecords
      BY DEF Init, AppRecords
    <2> QED
      BY <2>1, <2>2, <2>3, <2>4, <2>5, <2>6, <2>7, <2>8, <2>9, <2>10 DEF Shape
  <1>2. \A m \in Messages : msg[m].kind = "free" /\ msg[m].todo = {} /\ ~ msg[m].held
    BY DEF Init, Free
  <1>3. \A t \in Types : plugin[t].pc = "idle" /\ plugin[t].m = None
    BY DEF Init, Asleep
  <1>4. \A x \in Threads :
          \/ (x = Owner /\ run[x].pc = "begin" /\ run[x].for = "operation")
          \/ (x # Owner /\ run[x].pc = "idle" /\ run[x].for = "nothing")
    <2>1. ASSUME NEW x \in Threads, x = Owner
          PROVE  run[x].pc = "begin" /\ run[x].for = "operation"
      BY <2>1 DEF Init, Owner, Idle
    <2>2. ASSUME NEW x \in Threads, x # Owner
          PROVE  run[x].pc = "idle" /\ run[x].for = "nothing"
      BY <2>2 DEF Init, Owner, Idle
    <2> QED
      BY <2>1, <2>2
  <1>5. nc.state = "none" /\ nc.last = None /\ ~ nc.alive /\ wizard.page = "none"
        /\ children = 0 /\ handling = {}
    BY DEF Init
  <1>6. Delivery
    <2>1. TakenOnce
      BY DEF Init, TakenOnce, IsInjective
    <2>2. Completing = {} /\ \A t \in Types : Waiting(t) = {}
      BY DEF Init, Completing, Waiting, ToSet
    <2> QED
      BY <1>2, <1>3, <1>5, <2>1, <2>2 DEF Delivery
  <1>7. NotBegun
    BY <1>2, <1>4, <1>5 DEF NotBegun
  <1>8. Control
    BY <1>4, <1>5, ThreadFacts DEF Control, Drives
  <1>9. Batches
    BY <1>2, <1>5 DEF Batches, Outstanding
  <1>10. Open
    BY <1>5 DEF Open, IsOpen
  <1>11. Ordered
    BY <1>2, <1>4 DEF Ordered
  <1> QED
    BY <1>1, <1>6, <1>7, <1>8, <1>9, <1>10, <1>11 DEF IInv

\* Every step of a thread, a plug-in, the window or the user keeps it.
THEOREM StepHolds == IInv /\ [Next]_vars => IInv'
  <1> SUFFICES ASSUME IInv, [Next]_vars PROVE IInv'
    OBVIOUS
  <1>1. CASE UNCHANGED vars
    <2>1. Shape'
      BY <1>1 DEF IInv, Shape, vars
    <2>2. Delivery'
      BY <1>1, DeliveryFrame DEF IInv, vars
    <2>3. NotBegun' /\ Control' /\ Batches' /\ Open'
      BY <1>1, PluginFrame DEF vars
    <2>4. Ordered'
      BY <1>1, OrderedFrame DEF IInv, vars
    <2> QED
      BY <2>1, <2>2, <2>3, <2>4 DEF IInv
  <1>2. ASSUME NEW x \in Threads, ThreadStep(x) PROVE IInv'
    BY <1>2, BeginCountKeeps, BeginAcceptedKeeps, BeginRefusedKeeps, EndReadKeeps, EndCountKeeps,
       ExitCountKeeps, ExitWindowKeeps, DispatchKeeps, TerminateKeeps, LevelMarkKeeps,
       LevelCloseKeeps, LevelPostKeeps, LevelCommitKeeps, ConcludeKeeps, DestroyKeeps,
       ChildReportKeeps, ChildUncountKeeps, TellParentKeeps, ReturnKeeps DEF ThreadStep
  <1>3. ASSUME NEW t \in Types, PluginStep(t) PROVE IInv'
    BY <1>3, PluginTakeKeeps, PluginRespondKeeps, PluginSilentKeeps, PluginLeaveKeeps,
       PluginDoneKeeps DEF PluginStep
  <1>4. CASE SystemStep
    BY <1>2, <1>3, <1>4, RenewReadyKeeps, ComplTakeKeeps, ChildEndsKeeps,
       OnProcessCompleteKeeps DEF SystemStep
  <1>5. CASE UserStep
    BY <1>5, UserExitsKeeps, FinishKeeps, CancelKeeps, CloseKeeps, PluginDeriveKeeps DEF UserStep
  <1> QED
    BY <1>1, <1>4, <1>5 DEF Next

\* The inductive invariant of a new-credentials operation (credfuncs.c): there is
\* one batch of KMSG_CRED_PROCESS, or the one thread that makes the next.
THEOREM Invariance == Spec => []IInv
  <1>1. Init => IInv
    BY InitHolds
  <1>2. IInv /\ [Next]_vars => IInv'
    BY StepHolds
  <1> QED
    BY <1>1, <1>2, PTL DEF Spec

\* An abort reaches the plug-ins of the outstanding batch, whichever of the
\* abort and the poster's last section (credfuncs.c:1427-1433) comes first.
THEOREM AbortCorrect == Spec => []AbortReaches
  <1>1. IInv => AbortReaches
    BY DEF IInv, Batches, AbortReaches
  <1> QED
    BY <1>1, Invariance, PTL

\* What a type depends on is done, and stays done, while its plug-in processes.
THEOREM DependenciesCorrect == Spec => []DependenciesHold
  <1>1. IInv => DependenciesHold
    <2> SUFFICES ASSUME IInv, NEW t \in Types, plugin[t].pc \in {"process", "asking", "derived"}
                 PROVE  Good(t)
      BY DEF DependenciesHold, Good
    <2>1. PICK m \in Messages : msg[m].kind = "process" /\ t \in msg[m].todo
      BY DEF IInv, Delivery
    <2> QED
      BY <2>1 DEF IInv, Ordered, Independent
  <1> QED
    BY <1>1, Invariance, PTL

\* As long as the object exists there is one batch at a time, dispatch_state says
\* that there is and last_dispatch is its call; whatever the Deviations.
THEOREM OneBatchWhileAlive == Spec => [](nc.alive => OneBatch)
  <1>1. IInv => (nc.alive => OneBatch)
    <2> SUFFICES ASSUME IInv, nc.alive PROVE OneBatch
      OBVIOUS
    <2>1. \A m \in Messages : Outstanding(m) => nc.state # "none" /\ nc.last = m
      BY DEF IInv, Batches
    <2>2. nc.state # "none" => \E m \in Messages : msg[m].kind = "process"
      <3>1. ASSUME nc.state # "none", Drives("completion"), run["completion"].for = "handler"
            PROVE  \E m \in handling : msg[m].kind = "process"
        BY <3>1, ThreadFacts DEF IInv, Control
      <3>2. handling \subseteq Messages
        BY DEF IInv, Shape
      <3> QED
        BY <3>1, <3>2 DEF IInv, Batches, Outstanding
    <2> QED
      BY <2>1, <2>2 DEF OneBatch
  <1> QED
    BY <1>1, Invariance, PTL

\* last_dispatch, which an abort writes to, never refers to a freed message
\* (credfuncs.c:1436).
THEOREM CallStaysLive == Spec => []CallLive
  <1>1. IInv => CallLive
    BY DEF IInv, Batches, CallLive, Outstanding
  <1> QED
    BY <1>1, Invariance, PTL

-----------------------------------------------------------------------------
(* The end of an operation, as long as none of the three races occurs.      *)

Calm == Roles /\ Working /\ ChildrenCounted /\ ToldOnce /\ OneEnd /\ Leaving

-----------------------------------------------------------------------------
(* Counting the operations.                                                 *)

In(x) == IF x \in Counting THEN 1 ELSE 0
Alive == IF nc.alive /\ ~ Ended("completion", "operation") THEN 1 ELSE 0
ChildEnded == IF Ended("completion", "child") THEN 1 ELSE 0

LEMMA TwoThreads ==
    ASSUME NEW T \in SUBSET Threads
    PROVE  Cardinality(T) = (IF "ui" \in T THEN 1 ELSE 0) + (IF "completion" \in T THEN 1 ELSE 0)
<1>1. \/ T = {} \/ T = {"ui"} \/ T = {"completion"} \/ T = {"ui", "completion"}
  BY DEF Threads
<1>2. Cardinality({}) = 0 /\ Cardinality({"ui"}) = 1 /\ Cardinality({"completion"}) = 1
  BY FS_EmptySet, FS_Singleton
<1>3. Cardinality({"ui", "completion"}) = 2
  <2>1. {"ui", "completion"} = {"ui"} \cup {"completion"} /\ "completion" \notin {"ui"}
    OBVIOUS
  <2>2. IsFiniteSet({"ui"})
    BY FS_Singleton
  <2>3. Cardinality({"ui"} \cup {"completion"}) = Cardinality({"ui"}) + 1
    BY <2>1, <2>2, FS_AddElement
  <2> QED
    BY <1>2, <2>1, <2>3
<1>4. CASE T = {}
  BY <1>2, <1>4
<1>5. CASE T = {"ui"}
  BY <1>2, <1>5
<1>6. CASE T = {"completion"}
  BY <1>2, <1>6
<1>7. CASE T = {"ui", "completion"}
  BY <1>3, <1>7
<1> QED
  BY <1>1, <1>4, <1>5, <1>6, <1>7

LEMMA Sums ==
    /\ Operations = Alive + children - ChildEnded
    /\ PendingExact <=> app.pending = Operations + (In("ui") + In("completion"))
    /\ Alive \in {0, 1} /\ ChildEnded \in {0, 1} /\ \A x \in Threads : In(x) \in {0, 1}
<1>1. Operations = Alive + children - ChildEnded
  BY DEF Operations, Alive, ChildEnded
<1>2. Cardinality(Counting) = In("ui") + In("completion")
  <2>1. Counting \in SUBSET Threads
    BY DEF Counting
  <2> QED
    BY <2>1, TwoThreads DEF In
<1>3. PendingExact <=> app.pending = Operations + (In("ui") + In("completion"))
  BY <1>2 DEF PendingExact
<1>4. Alive \in {0, 1} /\ ChildEnded \in {0, 1} /\ \A x \in Threads : In(x) \in {0, 1}
  BY DEF Alive, ChildEnded, In
<1> QED
  BY <1>1, <1>3, <1>4

Summed ==
    /\ Operations = Alive + children - ChildEnded
    /\ PendingExact <=> app.pending = Operations + (In("ui") + In("completion"))
    /\ Alive \in {0, 1} /\ ChildEnded \in {0, 1} /\ In("ui") \in {0, 1} /\ In("completion") \in {0, 1}

LEMMA SumsNext ==
    /\ Operations' = Alive' + children' - ChildEnded'
    /\ PendingExact' <=> app'.pending = Operations' + (In("ui")' + In("completion")')
    /\ Alive' \in {0, 1} /\ ChildEnded' \in {0, 1} /\ In("ui")' \in {0, 1} /\ In("completion")' \in {0, 1}
<1>1. Summed
  BY Sums, ThreadFacts DEF Summed
<1>2. Summed'
  BY <1>1, PTL
<1> QED
  BY <1>2 DEF Summed

LEMMA LeavingMoves ==
    ASSUME Shape, Shape', Leaving, NEW d \in Int,
           app'.pending = app.pending + d,
           Operations' + (In("ui")' + In("completion")')
             = Operations + (In("ui") + In("completion")) + d,
           ~ app'.window => app'.exiting /\ Operations' = 0
    PROVE  Leaving'
<1>1. app.pending = Operations + (In("ui") + In("completion"))
  BY Sums DEF Leaving
<1>2. app'.pending = Operations' + (In("ui")' + In("completion")')
  BY <1>1
<1>3. PendingExact'
  BY <1>2, SumsNext
<1> QED
  BY <1>3 DEF Leaving, ExitNotDuringOperation

LEMMA OperationsInt ==
    ASSUME Shape, Shape'
    PROVE  Operations \in Int /\ Operations' \in Int
<1>1. children \in Int /\ children' \in Int
  BY DEF Shape
<1> QED
  BY <1>1, Sums, SumsNext

\* What is no step of the counting.
LEMMA LeavingSame ==
    ASSUME Shape, Shape', Leaving, app' = app, children' = children, nc'.alive = nc.alive,
           \A x \in Threads :
             /\ run'[x].pc = "began" <=> run[x].pc = "began"
             /\ run'[x].for = "nothing" /\ run'[x].pc \in {"end", "uncount"}
                  <=> run[x].for = "nothing" /\ run[x].pc \in {"end", "uncount"}
             /\ \A f \in {"operation", "child"} : Ended(x, f)' <=> Ended(x, f)
    PROVE  Leaving'
<1>1. Counting' = Counting
  BY DEF Counting
<1>2. In("ui")' = In("ui") /\ In("completion")' = In("completion")
  BY <1>1 DEF In
<1>3. Alive' = Alive /\ ChildEnded' = ChildEnded
  BY ThreadFacts DEF Alive, ChildEnded
<1>4. Operations' = Operations
  BY <1>3, Sums, SumsNext
<1>5. app'.pending = app.pending + 0
  BY DEF Shape, AppRecords
<1>6. /\ In("ui") + In("completion") + 0 = In("ui") + In("completion")
      /\ Operations + (In("ui") + In("completion")) + 0 = Operations + (In("ui") + In("completion"))
  BY Sums, OperationsInt, ThreadFacts
<1>7. ~ app'.window => app'.exiting /\ Operations' = 0
  BY <1>4 DEF Leaving, ExitNotDuringOperation
<1> QED
  BY <1>2, <1>4, <1>5, <1>6, <1>7, LeavingMoves

-----------------------------------------------------------------------------
(* A step within the counting, or before or after it, of one thread.        *)

Busy == Using \cup {"tell_parent", "return", "uncount_child"}

LEMMA CountingStepOf ==
    ASSUME Calm, NEW x \in Threads, run[x].pc \notin Busy, run'[x].pc \notin Busy,
           \A y \in Threads \ {x} : run'[y] = run[y],
           UNCHANGED <<kind, nc, msg, handling, wizard, wnd>>,
           \A t \in Types : plugin'[t].m = plugin[t].m /\ (plugin'[t].pc = "done" => plugin[t].pc = "done"),
           children' + Asking' = children + Asking,
           Cardinality(Counted) <= children => Cardinality(Counted) <= children'
    PROVE  Working' /\ ChildrenCounted' /\ ToldOnce' /\ OneEnd'
<1>1. \A y \in Threads : \A l \in Busy : run'[y].pc = l => run'[y] = run[y]
  OBVIOUS
<1>2. \A y \in Threads : \A l \in Busy : run[y].pc = l => run'[y] = run[y]
  OBVIOUS
<1>3. \A y \in Threads : run'[y].pc \in Using \cup {"tell_parent"} <=> run[y].pc \in Using \cup {"tell_parent"}
  BY <1>1, <1>2 DEF Busy
<1>4. Idling' <=> Idling
  BY <1>3 DEF Idling
<1>5. Quiet' <=> Quiet
  BY <1>4 DEF Quiet
<1>6. Counted' = Counted /\ Children' = Children
  BY <1>1, <1>2, ThreadFacts DEF Counted, Children, Busy
<1>7. Working'
  <2>1. \A y, z \in Threads : run'[y].pc \in Using /\ run'[z].pc \in Using => y = z
    BY <1>1 DEF Calm, Working, Busy
  <2>2. Owner' = Owner
    BY DEF Owner
  <2> QED
    BY <1>1, <2>1, <2>2 DEF Calm, Working, Busy, Using
<1>8. ChildrenCounted'
  <2>1. /\ run'["completion"].pc = "uncount_child" => run'["completion"] = run["completion"]
        /\ run'["completion"].pc = "tell_parent" => run'["completion"] = run["completion"]
    BY <1>1, ThreadFacts DEF Busy
  <2>2. \A y \in Threads : run'[y].pc \in Using => run[y].pc \in Using
    BY <1>1 DEF Busy
  <2> QED
    BY <1>4, <1>6, <2>1, <2>2 DEF Calm, ChildrenCounted
<1>9. ToldOnce'
  BY <1>4, <1>5, <1>6 DEF Calm, ToldOnce, Ending
<1>10. OneEnd'
  BY <1>1, <1>2, ThreadFacts DEF Calm, OneEnd, Busy
<1> QED
  BY <1>7, <1>8, <1>9, <1>10

LEMMA CountingStep ==
    ASSUME Calm, NEW x \in Threads, run[x].pc \notin Busy, run'[x].pc \notin Busy,
           \A y \in Threads \ {x} : run'[y] = run[y], Asking' = Asking,
           UNCHANGED <<kind, nc, msg, plugin, handling, wizard, wnd, children>>
    PROVE  Working' /\ ChildrenCounted' /\ ToldOnce' /\ OneEnd'
BY CountingStepOf

LEMMA GoesOnWith ==
    ASSUME Shape, NEW x \in Threads, NEW l \in Pcs, goto(x, l)
    PROVE  /\ run'[x].pc = l /\ run'[x].for = run[x].for
           /\ run'[x].exiting = run[x].exiting /\ run'[x].n = run[x].n
           /\ \A y \in Threads \ {x} : run'[y] = run[y]
<1>1. run \in [Threads -> RunRecords] /\ run' = [run EXCEPT ![x].pc = l]
  BY DEF Shape, goto
<1>2. run[x] \in RunRecords
  BY <1>1
<1>3. run'[x] = [run[x] EXCEPT !.pc = l] /\ \A y \in Threads \ {x} : run'[y] = run[y]
  BY <1>1
<1>4. /\ run'[x].pc = l /\ run'[x].for = run[x].for
      /\ run'[x].exiting = run[x].exiting /\ run'[x].n = run[x].n
  BY <1>2, <1>3 DEF RunRecords
<1> QED
  BY <1>3, <1>4

LEMMA InIs ==
    ASSUME NEW x \in Threads
    PROVE  /\ run[x].pc = "began" \/ (run[x].for = "nothing" /\ run[x].pc \in {"end", "uncount"})
                => In(x) = 1
           /\ ~ (run[x].pc = "began" \/ (run[x].for = "nothing" /\ run[x].pc \in {"end", "uncount"}))
                => In(x) = 0
           /\ run'[x].pc = "began" \/ (run'[x].for = "nothing" /\ run'[x].pc \in {"end", "uncount"})
                => In(x)' = 1
           /\ ~ (run'[x].pc = "began" \/ (run'[x].for = "nothing" /\ run'[x].pc \in {"end", "uncount"}))
                => In(x)' = 0
<1>1. /\ x \in Counting <=> (run[x].pc = "began" \/ (run[x].for = "nothing" /\ run[x].pc \in {"end", "uncount"}))
      /\ (x \in Counting)' <=> (run'[x].pc = "began" \/ (run'[x].for = "nothing" /\ run'[x].pc \in {"end", "uncount"}))
  <2>1. x \in Counting <=> (run[x].pc = "began" \/ (run[x].for = "nothing" /\ run[x].pc \in {"end", "uncount"}))
    BY Zenon DEF Counting
  <2>2. (x \in Counting)' <=> (run'[x].pc = "began" \/ (run'[x].for = "nothing" /\ run'[x].pc \in {"end", "uncount"}))
    BY Zenon DEF Counting
  <2> QED
    BY <2>1, <2>2
<1>2. In(x) = (IF x \in Counting THEN 1 ELSE 0) /\ In(x)' = (IF x \in Counting' THEN 1 ELSE 0)
  BY DEF In
<1> QED
  BY <1>1, <1>2

LEMMA InMoves ==
    ASSUME NEW x \in Threads, \A y \in Threads \ {x} : run'[y] = run[y],
           NEW i \in Int, In(x)' = In(x) + i
    PROVE  In("ui")' + In("completion")' = In("ui") + In("completion") + i
<1>1. \A y \in Threads \ {x} : In(y)' = In(y)
  BY DEF In, Counting
<1>2. In("ui") \in Int /\ In("completion") \in Int
  BY Sums, ThreadFacts
<1>3. CASE x = "ui"
  <2>1. In("completion")' = In("completion")
    BY <1>1, <1>3, ThreadFacts
  <2>2. In("ui")' = In("ui") + i
    BY <1>3
  <2> QED
    BY <1>2, <2>1, <2>2
<1>4. CASE x = "completion"
  <2>1. In("ui")' = In("ui")
    BY <1>1, <1>4, ThreadFacts
  <2>2. In("completion")' = In("completion") + i
    BY <1>4
  <2> QED
    BY <1>2, <2>1, <2>2
<1> QED
  BY <1>3, <1>4 DEF Threads

\* The number of operations is the same unless the completion thread ends one.
LEMMA OperationsSame ==
    ASSUME NEW x \in Threads, \A y \in Threads \ {x} : run'[y] = run[y],
           children' = children, nc'.alive = nc.alive,
           \A f \in {"operation", "child"} : Ended(x, f)' <=> Ended(x, f)
    PROVE  Operations' = Operations
<1>1. \A y \in Threads : \A f \in {"operation", "child"} : Ended(y, f)' <=> Ended(y, f)
  BY DEF Ended
<1>2. Alive' = Alive /\ ChildEnded' = ChildEnded
  BY <1>1, ThreadFacts DEF Alive, ChildEnded
<1> QED
  BY <1>2, Sums, SumsNext

\* How the counter follows what one thread does.
LEMMA LeavingCounts ==
    ASSUME Shape, Shape', Calm, NEW x \in Threads, \A y \in Threads \ {x} : run'[y] = run[y],
           NEW i \in Int, In(x)' = In(x) + i,
           NEW o \in Int, Operations' = Operations + o,
           app'.pending = app.pending + (i + o),
           ~ app'.window => app'.exiting /\ Operations' = 0
    PROVE  Leaving'
<1>1. In("ui")' + In("completion")' = In("ui") + In("completion") + i
  BY InMoves
<1>2. /\ In("ui") \in Int /\ In("completion") \in Int /\ Operations \in Int
      /\ In("ui")' \in Int /\ In("completion")' \in Int
  BY Sums, SumsNext, ThreadFacts, OperationsInt
<1>3. Operations' + (In("ui")' + In("completion")')
        = Operations + (In("ui") + In("completion")) + (i + o)
  BY <1>1, <1>2
<1> QED
  BY <1>3, LeavingMoves DEF Calm

LEMMA RolesStep ==
    ASSUME Roles, NEW x \in Threads, \A y \in Threads \ {x} : run'[y] = run[y],
           UNCHANGED <<msg, handling>>,
           app'.exiting = app.exiting \/ (x = "ui" /\ app'.exiting),
           Role(x)', x = "ui" => UiRole', x = "completion" => CompletionRole'
    PROVE  Roles'
<1>1. ASSUME NEW y \in Threads \ {x} PROVE Role(y)'
  <2>1. run'[y] = run[y] /\ Role(y)
    BY DEF Roles
  <2> QED
    BY <2>1 DEF Role
<1>2. \A y \in Threads : Role(y)'
  BY <1>1
<1>3. CASE x = "ui"
  <2>1. run'["completion"] = run["completion"]
    BY <1>3, ThreadFacts
  <2>2. Children' = Children /\ (app.exiting => app'.exiting)
    BY DEF Children
  <2>3. CompletionRole'
    BY <2>1, <2>2 DEF Roles, CompletionRole
  <2> QED
    BY <1>2, <1>3, <2>3 DEF Roles
<1>4. CASE x = "completion"
  <2>1. run'["ui"] = run["ui"] /\ app'.exiting = app.exiting
    BY <1>4, ThreadFacts
  <2>2. UiRole'
    BY <2>1 DEF Roles, UiRole
  <2> QED
    BY <1>2, <1>4, <2>2 DEF Roles
<1> QED
  BY <1>3, <1>4 DEF Threads

LEMMA BeginCountCalm ==
    ASSUME IInv, IInv', Calm, NEW x \in Threads, BeginCount(x)
    PROVE  Calm'
<1>1. /\ run[x].pc = "begin" /\ app' = [app EXCEPT !.pending = @ + 1] /\ goto(x, "began")
      /\ UNCHANGED <<kind, nc, flags, cs, msg, inbox, plugin, xfer, handling, wizard, wnd, children>>
  BY DEF BeginCount, CountOne
<1>2. /\ run'[x].pc = "began" /\ run'[x].for = run[x].for /\ run'[x].exiting = run[x].exiting
      /\ \A y \in Threads \ {x} : run'[y] = run[y]
  BY <1>1, GoesOnWith DEF IInv, Pcs
<1>3. app'.pending = app.pending + 1 /\ app'.exiting = app.exiting /\ app'.window = app.window
  BY <1>1 DEF IInv, Shape, AppRecords
<1>4. Roles'
  <2>1. Roles /\ Role(x) /\ UiRole /\ CompletionRole
    BY DEF Calm, Roles
  <2>2. Role(x)'
    BY <1>1, <1>2, <2>1 DEF Role
  <2>3. x = "ui" => UiRole'
    BY <1>1, <1>2, <1>3, <2>1 DEF UiRole
  <2>4. x = "completion" => CompletionRole'
    BY <1>1, <1>2, <2>1 DEF CompletionRole, Children
  <2> QED
    BY <1>1, <1>2, <1>3, <2>1, <2>2, <2>3, <2>4, RolesStep
<1>5. Working' /\ ChildrenCounted' /\ ToldOnce' /\ OneEnd'
  <2>1. Asking' = Asking
    BY <1>2, ThreadFacts DEF Asking
  <2> QED
    BY <1>1, <1>2, <2>1, CountingStep DEF Busy, Using
<1>6. Leaving'
  <2>1. In(x) = 0 /\ In(x)' = 1
    BY <1>1, <1>2, InIs
  <2>2. Operations' = Operations
    BY <1>1, <1>2, OperationsSame DEF Ended
  <2>3. Operations \in Int
    BY OperationsInt DEF IInv
  <2>4. ~ app'.window => app'.exiting /\ Operations' = 0
    BY <1>3, <2>2 DEF Calm, Leaving, ExitNotDuringOperation
  <2> DEFINE i == 1
             o == 0
  <2>5. In(x)' = In(x) + i /\ Operations' = Operations + o /\ app'.pending = app.pending + (i + o)
    BY <1>3, <2>1, <2>2, <2>3
  <2>6. i \in Int /\ o \in Int
    OBVIOUS
  <2> HIDE DEF i, o
  <2> QED
    BY <1>2, <2>4, <2>5, <2>6, LeavingCounts DEF IInv
<1> QED
  BY <1>4, <1>5, <1>6 DEF Calm

LEMMA KidFacts ==
    ASSUME Shape, Calm
    PROVE  /\ children \in Nat
           /\ IsFiniteSet(Counted) /\ Cardinality(Counted) \in Nat
           /\ Counted # {} => children >= 1
           /\ /\ run["completion"].for = "child"
              /\ run["completion"].pc \notin {"tell_parent", "return"}
              => Counted # {} /\ ChildEnded <= children
           /\ run["completion"].for # "child" => ChildEnded = 0
<1>1. IsFiniteSet(Counted)
  BY FS_Subset DEF Calm, ChildrenCounted, Counted
<1>2. Cardinality(Counted) \in Nat /\ (Counted # {} => Cardinality(Counted) # 0)
  BY <1>1, FS_CardinalityType, FS_EmptySet
<1>3. children \in Int /\ Cardinality(Counted) <= children
  BY DEF Calm, ChildrenCounted, Shape
<1>4. children \in Nat /\ (Counted # {} => children >= 1)
  BY <1>2, <1>3
<1>5. ASSUME run["completion"].for = "child", run["completion"].pc \notin {"tell_parent", "return"}
      PROVE  Counted # {}
  <2>1. PICK m \in Children : handling = {m}
    BY <1>5 DEF Calm, Roles, CompletionRole
  <2>2. Counted = Children
    BY <1>5 DEF Counted
  <2> QED
    BY <2>1, <2>2
<1>6. ChildEnded \in {0, 1}
  BY Sums
<1>7. run["completion"].for # "child" => ChildEnded = 0
  BY DEF ChildEnded, Ended
<1> QED
  BY <1>1, <1>2, <1>4, <1>5, <1>6, <1>7

LEMMA EndReadCalm ==
    ASSUME IInv, IInv', Calm, NEW x \in Threads, EndRead(x)
    PROVE  Calm'
<1>1. /\ run[x].pc = "end"
      /\ run' = [run EXCEPT ![x].pc = "uncount", ![x].exiting = app.exiting]
      /\ UNCHANGED <<kind, nc, flags, cs, msg, inbox, plugin, xfer, handling, wizard, wnd, children, app>>
  BY DEF EndRead
<1>2. /\ run'[x].pc = "uncount" /\ run'[x].for = run[x].for /\ run'[x].exiting = app.exiting
      /\ \A y \in Threads \ {x} : run'[y] = run[y]
  <2>1. PICK r \in RunRecords : r = run[x]
    BY DEF IInv, Shape
  <2>2. run'[x] = [r EXCEPT !.pc = "uncount", !.exiting = app.exiting] /\ \A y \in Threads \ {x} : run'[y] = run[y]
    BY <1>1, <2>1 DEF IInv, Shape
  <2>3. run'[x].pc = "uncount" /\ run'[x].for = r.for /\ run'[x].exiting = app.exiting
    BY <2>2 DEF RunRecords
  <2> QED
    BY <2>1, <2>2, <2>3
<1>3. Roles'
  <2>1. Roles /\ Role(x) /\ UiRole /\ CompletionRole
    BY DEF Calm, Roles
  <2>2. Role(x)'
    BY <1>1, <1>2, <2>1 DEF Role
  <2>3. x = "ui" => UiRole'
    BY <1>1, <1>2, <2>1 DEF UiRole
  <2>4. x = "completion" => CompletionRole'
    BY <1>1, <1>2, <2>1 DEF CompletionRole, Children
  <2> QED
    BY <1>1, <1>2, <2>1, <2>2, <2>3, <2>4, RolesStep
<1>4. Working' /\ ChildrenCounted' /\ ToldOnce' /\ OneEnd'
  <2>1. Asking' = Asking
    BY <1>2, ThreadFacts DEF Asking
  <2> QED
    BY <1>1, <1>2, <2>1, CountingStep DEF Busy, Using
<1>5. Leaving'
  <2>1. \A y \in Threads : y # x => run'[y] = run[y]
    BY <1>2
  <2> QED
    BY <1>1, <1>2, <2>1, LeavingSame DEF IInv, Calm, Ended
<1> QED
  BY <1>3, <1>4, <1>5 DEF Calm

LEMMA UserExitsCalm ==
    ASSUME IInv, IInv', Calm, UserExits
    PROVE  Calm'
<1>1. /\ run["ui"].pc = "idle" /\ run' = [run EXCEPT !["ui"] = [Idle EXCEPT !.pc = "exit"]]
      /\ UNCHANGED <<kind, nc, flags, cs, msg, inbox, plugin, xfer, handling, wizard, wnd, children, app>>
  BY DEF UserExits
<1>2. /\ run'["ui"].pc = "exit" /\ run'["ui"].for = "nothing" /\ run["ui"].for = "nothing"
      /\ \A y \in Threads \ {"ui"} : run'[y] = run[y]
  <2>1. "exit" \in Pcs
    BY DEF Pcs
  <2> QED
    BY <1>1, <2>1, StartsOrRests, ThreadFacts DEF IInv, Calm, Roles, Role
<1>3. Roles'
  <2>1. Roles /\ Role("ui") /\ UiRole
    BY ThreadFacts DEF Calm, Roles
  <2>2. Role("ui")' /\ UiRole'
    BY <1>1, <1>2, <2>1 DEF Role, UiRole
  <2> QED
    BY <1>1, <1>2, <2>1, <2>2, RolesStep, ThreadFacts
<1>4. Working' /\ ChildrenCounted' /\ ToldOnce' /\ OneEnd'
  <2>1. Asking' = Asking
    BY <1>2 DEF Asking
  <2> QED
    BY <1>1, <1>2, <2>1, CountingStep, ThreadFacts DEF Busy, Using
<1>5. Leaving'
  <2>1. \A y \in Threads : y # "ui" => run'[y] = run[y]
    BY <1>2
  <2> QED
    BY <1>1, <1>2, <2>1, LeavingSame DEF IInv, Calm, Ended
<1> QED
  BY <1>3, <1>4, <1>5 DEF Calm

LEMMA BeginRefusedCalm ==
    ASSUME IInv, IInv', Calm, NEW x \in Threads, BeginRefused(x)
    PROVE  Calm'
<1>1. /\ run[x].pc = "began" /\ app.exiting
      /\ run' = [run EXCEPT ![x] = [Idle EXCEPT !.pc = "end"]]
      /\ UNCHANGED <<kind, nc, flags, cs, msg, inbox, xfer, handling, wizard, wnd, children, app>>
  BY DEF BeginRefused, Refuses, GivesBack
<1>2. run[x].for = "operation"
  BY <1>1 DEF Calm, Roles, Role, UiRole, CompletionRole, Threads
<1>3. plugin' = plugin
  <2>1. plugin' = [t \in Types |-> plugin[t]]
    BY <1>2 DEF BeginRefused
  <2> QED
    BY <2>1 DEF IInv, Shape
<1>4. /\ run'[x].pc = "end" /\ run'[x].for = "nothing"
      /\ \A y \in Threads \ {x} : run'[y] = run[y]
  <2>1. "end" \in Pcs
    BY DEF Pcs
  <2> QED
    BY <1>1, <2>1, StartsOrRests DEF IInv
<1>5. Roles'
  <2>1. Roles /\ Role(x) /\ UiRole /\ CompletionRole
    BY DEF Calm, Roles
  <2>2. Role(x)'
    BY <1>1, <1>4, <2>1 DEF Role
  <2>3. x = "ui" => UiRole'
    BY <1>1, <1>4, <2>1 DEF UiRole
  <2>4. x = "completion" => handling = {}
    BY <1>1 DEF IInv, Control
  <2>5. x = "completion" => CompletionRole'
    BY <1>1, <1>4, <2>4 DEF CompletionRole
  <2> QED
    BY <1>1, <1>4, <2>1, <2>2, <2>3, <2>5, RolesStep
<1>6. Working' /\ ChildrenCounted' /\ ToldOnce' /\ OneEnd'
  <2>1. Asking' = Asking
    BY <1>2, <1>4, ThreadFacts DEF Asking
  <2> QED
    BY <1>1, <1>3, <1>4, <2>1, CountingStep DEF Busy, Using
<1>7. Leaving'
  <2>1. In(x) = 1 /\ In(x)' = 1
    BY <1>1, <1>4, InIs
  <2>2. Operations' = Operations
    BY <1>1, <1>4, OperationsSame DEF Ended
  <2>3. Operations \in Int /\ app.pending \in Int
    BY OperationsInt DEF IInv, Shape, AppRecords
  <2>4. ~ app'.window => app'.exiting /\ Operations' = 0
    BY <1>1, <2>2 DEF Calm, Leaving, ExitNotDuringOperation
  <2> DEFINE i == 0
             o == 0
  <2>5. In(x)' = In(x) + i /\ Operations' = Operations + o /\ app'.pending = app.pending + (i + o)
    BY <1>1, <2>1, <2>2, <2>3
  <2>6. i \in Int /\ o \in Int
    OBVIOUS
  <2> HIDE DEF i, o
  <2> QED
    BY <1>4, <2>4, <2>5, <2>6, LeavingCounts DEF IInv
<1> QED
  BY <1>5, <1>6, <1>7 DEF Calm

LEMMA ExitCountCalm ==
    ASSUME IInv, IInv', Calm, NEW x \in Threads, ExitCount(x)
    PROVE  Calm'
<1>1. /\ run[x].pc = "exit" /\ app' = [app EXCEPT !.exiting = TRUE] /\ goto(x, "exiting")
      /\ UNCHANGED <<kind, nc, flags, cs, msg, inbox, plugin, xfer, handling, wizard, wnd, children>>
  BY DEF ExitCount
<1>2. /\ run'[x].pc = "exiting" /\ run'[x].for = run[x].for /\ run'[x].exiting = run[x].exiting
      /\ \A y \in Threads \ {x} : run'[y] = run[y]
  BY <1>1, GoesOnWith DEF IInv, Pcs
<1>3. app'.pending = app.pending /\ app'.exiting /\ app'.window = app.window
  BY <1>1 DEF IInv, Shape, AppRecords
<1>4. Roles /\ Role(x) /\ UiRole /\ CompletionRole
  BY DEF Calm, Roles
<1>5. Roles'
  <2>1. Role(x)'
    BY <1>1, <1>2, <1>3, <1>4 DEF Role
  <2>2. x = "ui" => UiRole'
    BY <1>1, <1>2, <1>4 DEF UiRole
  <2>3. x = "completion" => CompletionRole'
    BY <1>1, <1>2, <1>4 DEF CompletionRole, Children
  <2>4. x = "completion" => app.exiting
    BY <1>1, <1>4 DEF CompletionRole
  <2>5. app'.exiting = app.exiting \/ (x = "ui" /\ app'.exiting)
    <3>1. app.exiting \in BOOLEAN /\ app'.exiting \in BOOLEAN
      BY DEF IInv, Shape, AppRecords
    <3> QED
      BY <1>3, <2>4, <3>1 DEF Threads
  <2> QED
    BY <1>1, <1>2, <1>4, <2>1, <2>2, <2>3, <2>5, RolesStep
<1>6. Working' /\ ChildrenCounted' /\ ToldOnce' /\ OneEnd'
  <2>1. Asking' = Asking
    BY <1>2, ThreadFacts DEF Asking
  <2> QED
    BY <1>1, <1>2, <2>1, CountingStep DEF Busy, Using
<1>7. Leaving'
  <2>1. In(x) = 0 /\ In(x)' = 0
    BY <1>1, <1>2, InIs
  <2>2. Operations' = Operations
    BY <1>1, <1>2, OperationsSame DEF Ended
  <2>3. Operations \in Int /\ app.pending \in Int
    BY OperationsInt DEF IInv, Shape, AppRecords
  <2>4. ~ app'.window => app'.exiting /\ Operations' = 0
    BY <1>3, <2>2 DEF Calm, Leaving, ExitNotDuringOperation
  <2> DEFINE i == 0
             o == 0
  <2>5. In(x)' = In(x) + i /\ Operations' = Operations + o /\ app'.pending = app.pending + (i + o)
    BY <1>3, <2>1, <2>2, <2>3
  <2>6. i \in Int /\ o \in Int
    OBVIOUS
  <2> HIDE DEF i, o
  <2> QED
    BY <1>2, <2>4, <2>5, <2>6, LeavingCounts DEF IInv
<1> QED
  BY <1>5, <1>6, <1>7 DEF Calm

LEMMA EndCountRoles ==
    ASSUME IInv, IInv', Calm, NEW x \in Threads, NEW l \in Pcs, run[x].pc \in {"uncount", "exiting"},
           l = AfterEnd(x) \/ (l = "exit" /\ app.exiting),
           goto(x, l), app'.exiting = app.exiting, UNCHANGED <<msg, handling>>
    PROVE  Roles'
<1>1. /\ run'[x].pc = l /\ run'[x].for = run[x].for /\ run'[x].exiting = run[x].exiting
      /\ \A y \in Threads \ {x} : run'[y] = run[y]
  BY GoesOnWith DEF IInv
<1>2. Roles /\ Role(x) /\ UiRole /\ CompletionRole
  BY DEF Calm, Roles
<1>3. run[x].for \in {"nothing", "operation", "child"}
  BY DEF IInv, Control
<1>4. /\ AfterEnd(x) = "destroy" <=> run[x].for = "operation"
      /\ AfterEnd(x) = "report" <=> run[x].for = "child"
      /\ AfterEnd(x) = "idle" <=> run[x].for = "nothing"
  BY <1>3 DEF AfterEnd
<1>5. Role(x)'
  BY <1>1, <1>3, <1>4 DEF Role
<1>6. x = "ui" => UiRole'
  <2> SUFFICES ASSUME x = "ui" PROVE UiRole'
    OBVIOUS
  <2>1. run[x].for = "nothing"
    BY <1>2, <1>3 DEF UiRole
  <2>2. l \in {"idle", "exit"}
    BY <1>4, <2>1
  <2> QED
    BY <1>1, <2>1, <2>2 DEF UiRole
<1>7. x = "completion" => CompletionRole'
  <2> SUFFICES ASSUME x = "completion" PROVE CompletionRole'
    OBVIOUS
  <2>1. Children' = Children
    BY DEF Children
  <2>2. CASE run[x].for = "operation"
    BY <1>1, <1>2, <1>4, <2>1, <2>2 DEF CompletionRole
  <2>3. CASE run[x].for = "child"
    BY <1>1, <1>2, <1>4, <2>1, <2>3 DEF CompletionRole
  <2>4. CASE run[x].for = "nothing"
    BY <1>1, <1>2, <1>4, <2>1, <2>4 DEF CompletionRole
  <2> QED
    BY <1>3, <2>2, <2>3, <2>4
<1> QED
  BY <1>1, <1>2, <1>5, <1>6, <1>7, RolesStep

\* An operation, or a child, is not counted any more when its end is.
LEMMA EndCountSums ==
    ASSUME IInv, IInv', Calm, NEW x \in Threads, run[x].pc = "uncount",
           NEW l, l = AfterEnd(x) \/ l = "exit", run'[x].pc = l, run'[x].for = run[x].for,
           \A y \in Threads \ {x} : run'[y] = run[y], UNCHANGED <<nc, children>>
    PROVE  \E i, o \in Int : /\ In(x)' = In(x) + i /\ Operations' = Operations + o /\ i + o = - 1
                             /\ ~ app.window => Operations' = 0
<1>0. run'[x].pc \in {"exit", "idle", "destroy", "report"}
  BY AfterEndFacts
<1>1. run[x].for \in {"nothing", "operation", "child"}
  BY DEF IInv, Control
<1>2. UiRole /\ CompletionRole
  BY DEF Calm, Roles
<1>3. Operations \in Int /\ children \in Nat /\ (~ app.window => Operations = 0)
  BY KidFacts, OperationsInt DEF IInv, Calm, Leaving, ExitNotDuringOperation
<1>4. CASE run[x].for = "nothing"
  <2>1. In(x) = 1 /\ In(x)' = 0
    BY <1>0, <1>4, InIs
  <2>2. Operations' = Operations
    <3>1. \A f \in {"operation", "child"} : Ended(x, f)' <=> Ended(x, f)
      BY <1>4 DEF Ended
    <3> QED
      BY <3>1, OperationsSame
  <2>3. In(x)' = In(x) + (- 1) /\ Operations' = Operations + 0 /\ (- 1) + 0 = - 1
    BY <1>3, <2>1, <2>2
  <2> QED
    BY <1>3, <2>2, <2>3
<1>5. CASE run[x].for # "nothing"
  <2>1. x = "completion"
    BY <1>1, <1>2, <1>5 DEF UiRole, Threads
  <2>2. In(x) = 0 /\ In(x)' = 0
    BY <1>0, <1>5, InIs
  <2>3. Operations >= 1 /\ Operations' = Operations - 1
    <3>1. CASE run[x].for = "operation"
      <4>1. nc.alive
        BY <1>2, <2>1, <3>1 DEF CompletionRole, Calm, OneEnd
      <4>2. Alive = 1 /\ ChildEnded = 0 /\ Alive' = 0 /\ ChildEnded' = 0
        <5>1. ~ Ended("completion", "operation") /\ ~ Ended("completion", "child")
          BY <2>1, <3>1 DEF Ended
        <5>2. Ended("completion", "operation")' /\ ~ Ended("completion", "child")'
          <6>1. l \in {"destroy", "exit"}
            BY <3>1 DEF AfterEnd
          <6> QED
            BY <2>1, <3>1, <6>1 DEF Ended
        <5> QED
          BY <4>1, <5>1, <5>2 DEF Alive, ChildEnded
      <4> QED
        BY <1>3, <4>2, Sums, SumsNext
    <3>2. CASE run[x].for = "child"
      <4>1. Counted # {}
        BY <2>1, <3>2, KidFacts DEF IInv
      <4>2. children >= 1
        BY <4>1, KidFacts DEF IInv
      <4>3. Alive' = Alive /\ ChildEnded = 0 /\ ChildEnded' = 1
        <5>1. ~ Ended("completion", "operation") /\ ~ Ended("completion", "child")
          BY <2>1, <3>2 DEF Ended
        <5>2. ~ Ended("completion", "operation")' /\ Ended("completion", "child")'
          <6>1. l \in {"report", "exit"}
            BY <3>2 DEF AfterEnd
          <6> QED
            BY <2>1, <3>2, <6>1 DEF Ended
        <5> QED
          BY <5>1, <5>2 DEF Alive, ChildEnded
      <4>4. Alive \in {0, 1}
        BY Sums
      <4> QED
        BY <1>3, <4>2, <4>3, <4>4, Sums, SumsNext
    <3> QED
      BY <1>1, <1>5, <3>1, <3>2
  <2>4. In(x)' = In(x) + 0 /\ Operations' = Operations + (- 1) /\ 0 + (- 1) = - 1
    BY <1>3, <2>2, <2>3
  <2> QED
    BY <1>3, <2>3, <2>4
<1> QED
  BY <1>4, <1>5

LEMMA EndCountCalm ==
    ASSUME IInv, IInv', Calm, NEW x \in Threads, EndCount(x)
    PROVE  Calm'
<1>1. PICK l \in Pcs :
        /\ run[x].pc = "uncount" /\ app' = [app EXCEPT !.pending = @ - 1] /\ goto(x, l)
        /\ l = AfterEnd(x) \/ (l = "exit" /\ run[x].exiting)
        /\ UNCHANGED <<kind, nc, flags, cs, msg, inbox, plugin, xfer, handling, wizard, wnd, children>>
  <2>1. AfterEnd(x) \in Pcs /\ "exit" \in Pcs
    BY AfterEndFacts DEF Pcs
  <2>2. CASE app.pending = 1 /\ run[x].exiting
    BY <2>1, <2>2 DEF EndCount
  <2>3. CASE ~ (app.pending = 1 /\ run[x].exiting)
    BY <2>1, <2>3 DEF EndCount
  <2> QED
    BY <2>2, <2>3
<1>2. /\ run'[x].pc = l /\ run'[x].for = run[x].for /\ run'[x].exiting = run[x].exiting
      /\ \A y \in Threads \ {x} : run'[y] = run[y]
  BY <1>1, GoesOnWith DEF IInv
<1>3. app'.pending = app.pending - 1 /\ app'.exiting = app.exiting /\ app'.window = app.window
  BY <1>1 DEF IInv, Shape, AppRecords
<1>4. run[x].exiting => app.exiting
  BY <1>1 DEF Calm, Roles, Role
<1>5. Roles'
  BY <1>1, <1>3, <1>4, EndCountRoles
<1>6. Working' /\ ChildrenCounted' /\ ToldOnce' /\ OneEnd'
  <2>1. Asking' = Asking
    BY <1>2, ThreadFacts DEF Asking
  <2>2. l \in {"idle", "destroy", "report", "exit"}
    BY <1>1, AfterEndFacts
  <2> QED
    BY <1>1, <1>2, <2>1, <2>2, CountingStep DEF Busy, Using
<1>7. Leaving'
  <2>1. l = AfterEnd(x) \/ l = "exit"
    BY <1>1
  <2>2. PICK i, o \in Int : /\ In(x)' = In(x) + i /\ Operations' = Operations + o /\ i + o = - 1
                            /\ ~ app.window => Operations' = 0
    BY <1>1, <1>2, <2>1, EndCountSums
  <2>3. app'.pending = app.pending + (i + o)
    BY <1>3, <2>2 DEF IInv, Shape, AppRecords
  <2>4. ~ app'.window => app'.exiting /\ Operations' = 0
    BY <1>3, <2>2 DEF Calm, Leaving
  <2> QED
    BY <1>2, <2>2, <2>3, <2>4, LeavingCounts DEF IInv
<1> QED
  BY <1>5, <1>6, <1>7 DEF Calm

LEMMA ExitWindowCalm ==
    ASSUME IInv, IInv', Calm, NEW x \in Threads, ExitWindow(x)
    PROVE  Calm'
<1>1. PICK l \in Pcs :
        /\ run[x].pc = "exiting" /\ goto(x, l) /\ l = AfterEnd(x)
        /\ UNCHANGED <<kind, nc, flags, cs, msg, inbox, plugin, xfer, handling, wizard, wnd, children>>
  <2>1. AfterEnd(x) \in Pcs
    BY AfterEndFacts DEF Pcs
  <2> QED
    BY <2>1 DEF ExitWindow
<1>2. /\ run'[x].pc = l /\ run'[x].for = run[x].for /\ run'[x].exiting = run[x].exiting
      /\ \A y \in Threads \ {x} : run'[y] = run[y]
  BY <1>1, GoesOnWith DEF IInv
<1>3. /\ app'.pending = app.pending /\ app'.exiting = app.exiting
      /\ app'.window = app.window \/ (~ app'.window /\ app.pending = 0)
  <2>1. CASE app.pending = 0 /\ x = "ui"
    BY <2>1 DEF ExitWindow, IInv, Shape, AppRecords
  <2>2. CASE ~ (app.pending = 0 /\ x = "ui")
    BY <2>2 DEF ExitWindow, IInv, Shape, AppRecords
  <2> QED
    BY <2>1, <2>2
<1>4. run[x].for \in {"nothing", "operation", "child"}
  BY <1>1 DEF IInv, Control
<1>5. Roles'
  BY <1>1, <1>3, EndCountRoles
<1>6. l \in {"idle", "destroy", "report"}
  BY <1>1, AfterEndFacts
<1>7. Working' /\ ChildrenCounted' /\ ToldOnce' /\ OneEnd'
  <2>1. Asking' = Asking
    BY <1>2, ThreadFacts DEF Asking
  <2> QED
    BY <1>1, <1>2, <1>6, <2>1, CountingStep DEF Busy, Using
<1>8. Leaving'
  <2>1. In(x) = 0 /\ In(x)' = 0
    BY <1>1, <1>2, <1>6, InIs
  <2>2. Operations' = Operations
    <3>1. ASSUME NEW f \in {"operation", "child"} PROVE Ended(x, f)' <=> Ended(x, f)
      <4>1. run[x].for = f => l \in {"destroy", "report"}
        BY <1>1, <3>1 DEF AfterEnd
      <4> QED
        BY <1>1, <1>2, <4>1 DEF Ended
    <3> QED
      BY <1>1, <1>2, <3>1, OperationsSame
  <2>3. Operations \in Int /\ app.pending \in Int /\ In("ui") \in {0, 1} /\ In("completion") \in {0, 1}
    BY OperationsInt, Sums, ThreadFacts DEF IInv, Shape, AppRecords
  <2>4. Operations >= 0
    <3>1. ChildEnded <= children /\ children \in Nat
      <4>1. run["completion"].for = "child" /\ run["completion"].pc \in {"tell_parent", "return"}
            => ~ Ended("completion", "child")
        BY DEF Ended
      <4>2. ~ Ended("completion", "child") => ChildEnded = 0
        BY DEF ChildEnded
      <4> QED
        BY <4>1, <4>2, KidFacts DEF IInv
    <3>2. Alive \in {0, 1} /\ ChildEnded \in {0, 1}
      BY Sums
    <3> QED
      BY <3>1, <3>2, Sums
  <2>5. app.pending = Operations + (In("ui") + In("completion"))
    BY Sums DEF Calm, Leaving
  <2>6. app.pending = 0 => Operations = 0
    BY <2>3, <2>4, <2>5
  <2>7. app.exiting
    BY <1>1 DEF Calm, Roles, Role
  <2>8. ~ app'.window => app'.exiting /\ Operations' = 0
    BY <1>3, <2>2, <2>6, <2>7 DEF Calm, Leaving, ExitNotDuringOperation
  <2> DEFINE i == 0
             o == 0
  <2>9. In(x)' = In(x) + i /\ Operations' = Operations + o /\ app'.pending = app.pending + (i + o)
    BY <1>3, <2>1, <2>2, <2>3
  <2>10. i \in Int /\ o \in Int
    OBVIOUS
  <2> HIDE DEF i, o
  <2> QED
    BY <1>2, <2>8, <2>9, <2>10, LeavingCounts DEF IInv
<1> QED
  BY <1>5, <1>7, <1>8 DEF Calm

LEMMA OperationBeginsCalm ==
    ASSUME IInv, IInv', Calm, NEW x \in Threads, BeginAccepted(x), run[x].for = "operation"
    PROVE  Calm'
<1>1. /\ run[x].pc = "began" /\ ~ app.exiting /\ run' = [run EXCEPT ![x] = Idle]
      /\ nc' = [nc EXCEPT !.alive = TRUE, !.types = Types,
                  !.result = IF kind = "renew" THEN "process" ELSE "cancel"]
      /\ wizard' = (IF kind = "dialog" THEN [wizard EXCEPT !.page = "options"] ELSE wizard)
      /\ UNCHANGED <<kind, flags, cs, msg, inbox, xfer, handling, wnd, app, children, plugin>>
  BY DEF BeginAccepted, Refuses
<1>2. /\ x = Owner /\ ~ nc.alive /\ wizard.page = "none" /\ children = 0
      /\ \A m \in Messages : msg[m].kind = "free"
      /\ \A y \in Threads \ {x} : run[y].for = "nothing" /\ run[y].pc \in {"idle", "exit", "exiting"}
  BY <1>1 DEF IInv, NotBegun
<1>3. /\ run'[x].pc = "idle" /\ run'[x].for = "nothing"
      /\ \A y \in Threads \ {x} : run'[y] = run[y]
  BY <1>1, Rests DEF IInv
<1>4. nc'.alive /\ nc'.state = nc.state /\ nc'.children = nc.children
  BY <1>1 DEF IInv, Shape, NcRecords
<1>5. wizard'.starts = wizard.starts
  BY <1>1 DEF IInv, Shape, WizardRecords
<1>6. \A y \in Threads : run'[y].for = "nothing" /\ run'[y].pc \in {"idle", "exit", "exiting"}
  BY <1>2, <1>3
<1>7. Children' = {} /\ Counted' = {} /\ Counted = {} /\ ~ Ending'
  BY <1>1, <1>2 DEF Children, Counted, Ending
<1>8. Quiet
  <2>1. kind \in {"dialog", "renew"}
    BY DEF IInv, Shape
  <2> QED
    BY <1>2, <2>1 DEF Calm, ToldOnce
<1>9. Quiet'
  BY <1>1, <1>4, <1>6, <1>8 DEF Quiet, Idling, Using
<1>10. Roles'
  <2>1. Roles /\ Role(x) /\ UiRole /\ CompletionRole
    BY DEF Calm, Roles
  <2>2. Role(x)'
    BY <1>3 DEF Role
  <2>3. x = "ui" => UiRole'
    BY <1>3 DEF UiRole
  <2>4. x = "completion" => handling = {}
    BY <1>1 DEF IInv, Control
  <2>5. x = "completion" => CompletionRole'
    BY <1>1, <1>3, <2>4 DEF CompletionRole
  <2> QED
    BY <1>1, <1>3, <2>1, <2>2, <2>3, <2>5, RolesStep
<1>11. Working'
  BY <1>6 DEF Working, Using
<1>12. ChildrenCounted'
  <2>1. Asking' = Asking
    BY <1>2, <1>3, ThreadFacts DEF Asking
  <2>2. IsFiniteSet({}) /\ Cardinality({}) = 0
    BY FS_EmptySet
  <2> QED
    BY <1>1, <1>2, <1>4, <1>6, <1>7, <2>1, <2>2, ThreadFacts DEF Calm, ChildrenCounted
<1>13. ToldOnce'
  BY <1>7, <1>9 DEF ToldOnce, Quiet
<1>14. OneEnd'
  BY <1>1, <1>2 DEF OneEnd
<1>15. Leaving'
  <2>1. In(x) = 1 /\ In(x)' = 0
    BY <1>1, <1>3, InIs
  <2>2. Alive = 0 /\ ChildEnded = 0
    <3>1. ~ nc.alive /\ ~ Ended("completion", "child")
      <4>1. run["completion"].for # "child"
        BY <1>2, ThreadFacts DEF Threads
      <4> QED
        BY <1>2, <4>1 DEF Ended
    <3> QED
      BY <3>1 DEF Alive, ChildEnded
  <2>3. Alive' = 1 /\ ChildEnded' = 0
    <3>1. ~ Ended("completion", "child")' /\ ~ Ended("completion", "operation")'
      BY <1>6, ThreadFacts DEF Ended
    <3> QED
      BY <1>4, <3>1 DEF Alive, ChildEnded
  <2>4. Operations = 0 /\ Operations' = 1
    BY <1>1, <1>2, <2>2, <2>3, Sums, SumsNext
  <2>5. ~ app'.window => app'.exiting /\ Operations' = 0
    BY <1>1 DEF Calm, Leaving
  <2> DEFINE i == - 1
             o == 1
  <2>6. In(x)' = In(x) + i /\ Operations' = Operations + o /\ app'.pending = app.pending + (i + o)
    BY <1>1, <2>1, <2>4 DEF IInv, Shape, AppRecords
  <2>7. i \in Int /\ o \in Int
    OBVIOUS
  <2> HIDE DEF i, o
  <2> QED
    BY <1>3, <2>5, <2>6, <2>7, LeavingCounts DEF IInv
<1> QED
  BY <1>10, <1>11, <1>12, <1>13, <1>14, <1>15 DEF Calm

LEMMA ChildBeginsCalm ==
    ASSUME IInv, IInv', Calm, NEW x \in Threads, BeginAccepted(x), run[x].for # "operation"
    PROVE  Calm'
<1>1. /\ run[x].pc = "began" /\ ~ app.exiting /\ run' = [run EXCEPT ![x] = Idle]
      /\ children' = children + 1
      /\ plugin' = [t \in Types |-> IF plugin[t].pc = "asking"
                                    THEN [plugin[t] EXCEPT !.pc = "derived"] ELSE plugin[t]]
      /\ UNCHANGED <<kind, nc, flags, cs, msg, inbox, xfer, handling, wizard, wnd, app>>
  BY DEF BeginAccepted, Refuses
<1>2. x = "ui" /\ run[x].for = "child"
  BY <1>1 DEF Calm, Roles, Role, CompletionRole, Threads
<1>3. /\ run'[x].pc = "idle" /\ run'[x].for = "nothing"
      /\ \A y \in Threads \ {x} : run'[y] = run[y]
  BY <1>1, Rests DEF IInv
<1>4. \A t \in Types : plugin'[t].m = plugin[t].m /\ (plugin'[t].pc = "done" => plugin[t].pc = "done")
  <2> SUFFICES ASSUME NEW t \in Types
               PROVE  plugin'[t].m = plugin[t].m /\ (plugin'[t].pc = "done" => plugin[t].pc = "done")
    OBVIOUS
  <2>1. plugin[t] \in PluginRecords
    BY DEF IInv, Shape
  <2>2. CASE plugin[t].pc = "asking"
    <3>1. plugin'[t] = [plugin[t] EXCEPT !.pc = "derived"]
      BY <1>1, <2>2
    <3> QED
      BY <2>1, <3>1 DEF PluginRecords
  <2>3. CASE plugin[t].pc # "asking"
    BY <1>1, <2>3
  <2> QED
    BY <2>2, <2>3
<1>5. Asking = 1 /\ Asking' = 0
  BY <1>2, <1>3 DEF Asking
<1>6. children \in Nat /\ Cardinality(Counted) \in Nat
  BY KidFacts DEF IInv
<1>7. Roles'
  <2>1. Roles
    BY DEF Calm
  <2>2. Role(x)' /\ UiRole'
    BY <1>2, <1>3 DEF Role, UiRole
  <2> QED
    BY <1>1, <1>2, <1>3, <2>1, <2>2, RolesStep
<1>8. Working' /\ ChildrenCounted' /\ ToldOnce' /\ OneEnd'
  <2>1. children' + Asking' = children + Asking
    BY <1>1, <1>5, <1>6
  <2>2. Cardinality(Counted) <= children => Cardinality(Counted) <= children'
    BY <1>1, <1>6
  <2> QED
    BY <1>1, <1>3, <1>4, <2>1, <2>2, CountingStepOf DEF Busy, Using
<1>9. Leaving'
  <2>1. In(x) = 1 /\ In(x)' = 0
    BY <1>1, <1>3, InIs
  <2>2. run'["completion"] = run["completion"]
    BY <1>2, <1>3, ThreadFacts
  <2>3. Alive' = Alive /\ ChildEnded' = ChildEnded
    BY <1>1, <2>2 DEF Alive, ChildEnded, Ended
  <2>4. Alive \in Int /\ ChildEnded \in Int
    BY Sums
  <2>5. Operations' = Operations + 1
    BY <1>1, <1>6, <2>3, <2>4, Sums, SumsNext
  <2>6. ~ app'.window => app'.exiting /\ Operations' = 0
    BY <1>1 DEF Calm, Leaving
  <2> DEFINE i == - 1
             o == 1
  <2>7. In(x)' = In(x) + i /\ Operations' = Operations + o /\ app'.pending = app.pending + (i + o)
    BY <1>1, <2>1, <2>5 DEF IInv, Shape, AppRecords
  <2>8. i \in Int /\ o \in Int
    OBVIOUS
  <2> HIDE DEF i, o
  <2> QED
    BY <1>3, <2>6, <2>7, <2>8, LeavingCounts DEF IInv
<1> QED
  BY <1>7, <1>8, <1>9 DEF Calm

-----------------------------------------------------------------------------
(* The plug-ins.                                                            *)

\* A plug-in goes on; a type that newly has nothing to do with an END has left.
LEMMA PluginCalm ==
    ASSUME IInv, IInv', Calm,
           UNCHANGED <<kind, handling, run, wizard, wnd, children, app>>,
           nc'.alive = nc.alive, nc'.state = nc.state, nc'.children = nc.children,
           \A m \in Messages : msg'[m].kind = msg[m].kind,
           \A t \in Types : t \in nc'.types => t \in nc.types,
           \A m \in Messages : msg[m].kind = "end" => \A t \in Types :
             t \in nc'.types => /\ t \notin msg'[m].todo => t \notin msg[m].todo
                                                           \/ (plugin[t].pc = "done" /\ plugin[t].m = m)
                                /\ plugin'[t].pc = "done" /\ plugin'[t].m = m =>
                                      t \notin msg[m].todo \/ (plugin[t].pc = "done" /\ plugin[t].m = m)
    PROVE  Calm'
<1>1. Children' = Children /\ Counted' = Counted
  BY DEF Children, Counted
<1>2. /\ Idling' <=> Idling
      /\ Quiet' <=> Quiet
      /\ Ending' <=> Ending
  BY DEF Idling, Quiet, Ending
<1>3. handling \subseteq Messages
  BY DEF IInv, Shape
<1>4. Roles'
  <2>1. \A x \in Threads : Role(x)'
    BY DEF Calm, Roles, Role
  <2>2. UiRole'
    BY DEF Calm, Roles, UiRole
  <2>3. CompletionRole'
    BY <1>1, <1>3 DEF Calm, Roles, CompletionRole
  <2> QED
    BY <2>1, <2>2, <2>3 DEF Roles
<1>5. Working'
  BY DEF Calm, Working, Owner
<1>6. ChildrenCounted'
  <2>1. Asking' = Asking
    BY DEF Asking
  <2> QED
    BY <1>1, <1>2, <2>1 DEF Calm, ChildrenCounted
<1>7. ToldOnce'
  BY <1>1, <1>2 DEF Calm, ToldOnce
<1>8. OneEnd'
  <2>1. \A m, n \in Messages : msg'[m].kind = "end" /\ msg'[n].kind = "end" => m = n
    BY DEF Calm, OneEnd
  <2>2. ASSUME NEW m \in Messages, msg'[m].kind = "end"
        PROVE  nc'.alive \/ (m \in handling' /\ run'["completion"].pc = "return")
    BY <2>2 DEF Calm, OneEnd
  <2>3. ASSUME NEW m \in Messages, msg'[m].kind = "end", NEW t \in Types,
               t \notin msg'[m].todo \/ (plugin'[t].pc = "done" /\ plugin'[t].m = m)
        PROVE  t \notin nc'.types
    <3>1. SUFFICES ASSUME t \in nc'.types PROVE FALSE
      OBVIOUS
    <3>2. msg[m].kind = "end"
      BY <2>3
    <3>3. t \notin msg[m].todo \/ (plugin[t].pc = "done" /\ plugin[t].m = m)
      BY <2>3, <3>1, <3>2
    <3>4. t \notin nc.types
      BY <3>2, <3>3 DEF Calm, OneEnd
    <3> QED
      BY <3>1, <3>4
  <2> QED
    BY <2>1, <2>2, <2>3 DEF OneEnd
<1>9. Leaving'
  BY LeavingSame DEF IInv, Calm, Ended
<1> QED
  BY <1>4, <1>5, <1>6, <1>7, <1>8, <1>9 DEF Calm

LEMMA PluginTakeCalm ==
    ASSUME IInv, IInv', Calm, NEW t \in Types, PluginTake(t)
    PROVE  Calm'
<1>1. /\ UNCHANGED <<kind, nc, flags, cs, msg, xfer, handling, run, wizard, wnd, children, app>>
      /\ plugin[t].pc = "idle"
      /\ plugin' = [plugin EXCEPT ![t] = [pc |-> msg[Head(inbox[t])].kind, m |-> Head(inbox[t])]]
  BY DEF PluginTake
<1>2. plugin'[t].pc # "done"
  <2>1. Head(inbox[t]) \in Messages
    <3>1. inbox[t] \in Seq(Messages) /\ inbox[t] # <<>>
      BY DEF PluginTake, IInv, Shape
    <3> QED
      BY <3>1, TailFacts
  <2>2. msg[Head(inbox[t])].kind # "done"
    BY <2>1 DEF IInv, Shape, MsgRecords
  <2> QED
    BY <1>1, <2>2 DEF IInv, Shape
<1>3. \A u \in Types \ {t} : plugin'[u] = plugin[u]
  BY <1>1 DEF IInv, Shape
<1> QED
  BY <1>1, <1>2, <1>3, PluginCalm

\* A plug-in ends what it does about a message that is no END, or leaves.
LEMMA PluginEndsCalm ==
    ASSUME IInv, IInv', Calm, NEW t \in Types, plugin' = [plugin EXCEPT ![t].pc = "done"],
           plugin[t].pc \in {"process", "derived"} \/ t \notin nc'.types,
           nc'.alive = nc.alive, nc'.state = nc.state, nc'.children = nc.children,
           \A u \in Types : u \in nc'.types => u \in nc.types,
           UNCHANGED <<kind, msg, handling, run, wizard, wnd, children, app>>
    PROVE  Calm'
<1>1. plugin'[t].m = plugin[t].m /\ \A u \in Types \ {t} : plugin'[u] = plugin[u]
  <2>1. PICK r \in PluginRecords : r = plugin[t]
    BY DEF IInv, Shape
  <2>2. plugin'[t] = [r EXCEPT !.pc = "done"] /\ \A u \in Types \ {t} : plugin'[u] = plugin[u]
    BY <2>1 DEF IInv, Shape
  <2> QED
    BY <2>1, <2>2 DEF PluginRecords
<1>2. plugin[t].pc \in {"process", "derived"} => msg[plugin[t].m].kind = "process"
  BY DEF IInv, Delivery
<1>3. ASSUME NEW m \in Messages, msg[m].kind = "end", t \in nc'.types
      PROVE  plugin'[t].m # m
  BY <1>1, <1>2, <1>3
<1> QED
  BY <1>1, <1>3, PluginCalm

LEMMA PluginSilentCalm ==
    ASSUME IInv, IInv', Calm, NEW t \in Types, PluginSilent(t)
    PROVE  Calm'
BY PluginEndsCalm DEF PluginSilent

LEMMA PluginRespondCalm ==
    ASSUME IInv, IInv', Calm, NEW t \in Types, PluginRespond(t)
    PROVE  Calm'
<1>1. PICK r \in Responses : nc' = [nc EXCEPT !.noexit = @ \/ r.noexit]
  BY DEF PluginRespond
<1>2. nc'.alive = nc.alive /\ nc'.state = nc.state /\ nc'.children = nc.children /\ nc'.types = nc.types
  BY <1>1 DEF IInv, Shape, NcRecords
<1> QED
  BY <1>2, PluginEndsCalm DEF PluginRespond

LEMMA PluginLeaveCalm ==
    ASSUME IInv, IInv', Calm, NEW t \in Types, PluginLeave(t)
    PROVE  Calm'
<1>1. /\ nc'.alive = nc.alive /\ nc'.state = nc.state /\ nc'.children = nc.children
      /\ nc'.types = nc.types \ {t}
  BY DEF PluginLeave, IInv, Shape, NcRecords
<1> QED
  BY <1>1, PluginEndsCalm DEF PluginLeave

LEMMA PluginDoneCalm ==
    ASSUME IInv, IInv', Calm, NEW t \in Types, PluginDone(t)
    PROVE  Calm'
<1>1. /\ plugin[t].pc = "done" /\ plugin' = [plugin EXCEPT ![t] = Asleep]
      /\ msg' = [msg EXCEPT ![plugin[t].m].todo = @ \ {t}]
      /\ UNCHANGED <<kind, nc, flags, cs, inbox, handling, run, wizard, wnd, children, app>>
  BY DEF PluginDone
<1>2. PICK m \in Messages : m = plugin[t].m
  BY <1>1 DEF IInv, Delivery
<1>3. /\ msg'[m].kind = msg[m].kind /\ msg'[m].todo = msg[m].todo \ {t}
      /\ \A n \in Messages \ {m} : msg'[n] = msg[n]
  <2>1. PICK r \in MsgRecords : r = msg[m]
    BY DEF IInv, Shape
  <2>2. msg'[m] = [r EXCEPT !.todo = r.todo \ {t}] /\ \A n \in Messages \ {m} : msg'[n] = msg[n]
    BY <1>1, <1>2, <2>1 DEF IInv, Shape
  <2> QED
    BY <2>1, <2>2 DEF MsgRecords
<1>4. plugin'[t].pc = "idle" /\ \A u \in Types \ {t} : plugin'[u] = plugin[u]
  BY <1>1 DEF IInv, Shape, Asleep
<1>5. \A n \in Messages : msg'[n].kind = msg[n].kind
  BY <1>3
<1>6. ASSUME NEW n \in Messages, NEW u \in Types, u \notin msg'[n].todo
      PROVE  u \notin msg[n].todo \/ (plugin[u].pc = "done" /\ plugin[u].m = n)
  BY <1>1, <1>2, <1>3, <1>6
<1> QED
  BY <1>1, <1>4, <1>5, <1>6, PluginCalm

-----------------------------------------------------------------------------
(* The processing starts, or is aborted.                                    *)

\* With nothing at the processing no child is counted.
LEMMA QuietFacts ==
    ASSUME Shape, Calm, Quiet
    PROVE  /\ children = 0 /\ Counted = {} /\ Asking = 0
           /\ \A x \in Threads : run[x].pc \notin Using \cup {"tell_parent"}
           /\ nc.state = "none" /\ nc.children = 0 /\ wnd = <<>>
<1>1. /\ \A x \in Threads : run[x].pc \notin Using \cup {"tell_parent"}
      /\ nc.state = "none" /\ nc.children = 0 /\ wnd = <<>>
  BY DEF Quiet, Idling
<1>2. children \in Nat /\ (Counted # {} => children >= 1) /\ Asking \in {0, 1}
  BY KidFacts DEF Asking
<1>3. nc.children = children + Asking
  BY DEF Calm, ChildrenCounted
<1>4. children = 0 /\ Asking = 0
  BY <1>1, <1>2, <1>3
<1> QED
  BY <1>1, <1>2, <1>4

LEMMA StartsWork ==
    ASSUME IInv, IInv', Calm, Quiet, nc.alive, NEW x \in Threads, x = Owner,
           run[x].pc = "idle", goto(x, "dispatch"),
           nc'.alive = nc.alive, nc'.state = nc.state, nc'.children = nc.children, nc'.types = nc.types,
           UNCHANGED <<kind, msg, plugin, handling, wnd, children, app>>,
           kind = "dialog" => wizard'.page = "progress",
           kind = "renew" => wizard'.starts # 0 /\ ~ Ending
    PROVE  Calm'
<1>1. /\ run'[x].pc = "dispatch" /\ run'[x].for = run[x].for
      /\ \A y \in Threads \ {x} : run'[y] = run[y]
  BY GoesOnWith DEF IInv, Pcs
<1>2. run[x].for = "nothing"
  BY DEF Calm, Roles, Role
<1>3. /\ children = 0 /\ Counted = {}
      /\ \A y \in Threads : run[y].pc \notin Using \cup {"tell_parent"}
      /\ nc.state = "none" /\ nc.children = 0 /\ wnd = <<>>
  BY QuietFacts DEF IInv
<1>4. Children' = Children /\ Counted' = Counted
  <2>1. Children' = Children
    BY DEF Children
  <2>2. run'["completion"].pc \in {"tell_parent", "return"} <=> run["completion"].pc \in {"tell_parent", "return"}
    BY <1>1, ThreadFacts DEF Threads
  <2> QED
    BY <2>1, <2>2 DEF Counted
<1>5. Roles'
  <2>1. Roles /\ UiRole /\ CompletionRole
    BY DEF Calm, Roles
  <2>2. Role(x)'
    BY <1>1, <1>2 DEF Role
  <2>3. x = "ui" => UiRole'
    BY <1>1, <1>2 DEF UiRole
  <2>4. x = "completion" => handling = {}
    BY DEF IInv, Control
  <2>5. x = "completion" => CompletionRole'
    BY <1>1, <1>2, <2>4 DEF CompletionRole
  <2> QED
    BY <1>1, <2>1, <2>2, <2>3, <2>5, RolesStep
<1>6. Working'
  <2>1. Owner' = Owner
    BY DEF Owner
  <2>2. \A y \in Threads : run'[y].pc \in Using => y = x
    BY <1>1, <1>3
  <2>3. \A y \in Threads : run'[y].pc \in {"dispatch", "terminate", "level", "close", "post", "conclude"} => y = x
    BY <2>2 DEF Using
  <2> QED
    BY <1>3, <2>1, <2>2, <2>3 DEF Working
<1>7. ChildrenCounted'
  <2>1. Asking' = Asking
    BY <1>1, ThreadFacts DEF Asking, Threads
  <2>2. run'["completion"].pc = "uncount_child" => run'["completion"] = run["completion"]
    BY <1>1, ThreadFacts
  <2>3. run'["completion"].pc # "tell_parent"
    BY <1>1, <1>3, ThreadFacts
  <2> QED
    BY <1>3, <1>4, <2>1, <2>2, <2>3 DEF Calm, ChildrenCounted
<1>8. ToldOnce'
  <2>1. Ending' <=> Ending
    BY DEF Ending
  <2>2. kind \in {"dialog", "renew"} /\ kind' = kind /\ nc'.alive
    BY DEF IInv, Shape
  <2> QED
    BY <1>3, <2>1, <2>2 DEF ToldOnce
<1>9. OneEnd'
  BY DEF Calm, OneEnd
<1>10. Leaving'
  <2>1. \A y \in Threads : y # x => run'[y] = run[y]
    BY <1>1
  <2> QED
    BY <1>1, <1>2, <2>1, LeavingSame DEF IInv, Calm, Ended
<1> QED
  BY <1>5, <1>6, <1>7, <1>8, <1>9, <1>10 DEF Calm

LEMMA RenewReadyCalm ==
    ASSUME IInv, IInv', Calm, RenewReady
    PROVE  Calm'
<1>1. /\ kind = "renew" /\ nc.alive /\ wizard.starts = 0 /\ run["completion"].pc = "idle"
      /\ wizard' = [wizard EXCEPT !.starts = 1] /\ goto("completion", "dispatch")
      /\ UNCHANGED <<kind, nc, flags, cs, msg, inbox, plugin, xfer, handling, wnd, children, app>>
  BY DEF RenewReady
<1>2. wizard'.starts = 1
  BY <1>1 DEF IInv, Shape, WizardRecords
<1>3. Quiet /\ ~ Ending
  BY <1>1 DEF Calm, ToldOnce
<1>4. "completion" = Owner
  BY <1>1 DEF Owner
<1>5. kind # "dialog" /\ wizard'.starts # 0
  BY <1>1, <1>2
<1> QED
  BY <1>1, <1>3, <1>4, <1>5, StartsWork, ThreadFacts

\* The user starts it, or cancels with nothing in progress.
LEMMA UserStarts ==
    ASSUME IInv, IInv', Calm, IsOpen, wizard.page # "progress", wizard'.page = "progress",
           run["ui"].pc = "idle", goto("ui", "dispatch"),
           nc'.alive = nc.alive, nc'.state = nc.state, nc'.children = nc.children, nc'.types = nc.types,
           UNCHANGED <<kind, msg, plugin, handling, wnd, children, app>>
    PROVE  Calm'
<1>1. kind = "dialog" /\ nc.alive
  BY DEF IInv, Open, IsOpen, Shape
<1>2. Quiet
  BY <1>1 DEF Calm, ToldOnce
<1> QED
  BY <1>1, <1>2, StartsWork, ThreadFacts DEF Owner

LEMMA FinishCalm ==
    ASSUME IInv, IInv', Calm, Finish
    PROVE  Calm'
<1>1. /\ IsOpen /\ wizard.page # "progress" /\ run["ui"].pc = "idle" /\ goto("ui", "dispatch")
      /\ UNCHANGED <<kind, flags, cs, msg, inbox, plugin, xfer, handling, wnd, children, app>>
  BY DEF Finish, IsOpen
<1>2. nc'.alive = nc.alive /\ nc'.state = nc.state /\ nc'.children = nc.children /\ nc'.types = nc.types
  BY DEF Finish, IInv, Shape, NcRecords
<1>3. wizard'.page = "progress"
  BY DEF Finish, IInv, Shape, WizardRecords
<1> QED
  BY <1>1, <1>2, <1>3, UserStarts

LEMMA CancelDispatchesCalm ==
    ASSUME Deviations = {}, IInv, IInv', Calm, Cancel, nc.state = "none"
    PROVE  Calm'
<1>1. /\ IsOpen /\ wizard.page # "progress" /\ run["ui"].pc = "idle" /\ goto("ui", "dispatch")
      /\ UNCHANGED <<kind, flags, cs, msg, inbox, plugin, xfer, handling, wnd, children, app>>
  BY DEF Cancel, NotReady
<1>2. nc'.alive = nc.alive /\ nc'.state = nc.state /\ nc'.children = nc.children /\ nc'.types = nc.types
  BY DEF Cancel, NotReady, IInv, Shape, NcRecords
<1>3. wizard'.page = "progress"
  BY DEF Cancel, IInv, Shape, WizardRecords
<1> QED
  BY <1>1, <1>2, <1>3, UserStarts

LEMMA CancelAbortsCalm ==
    ASSUME IInv, IInv', Calm, Cancel, nc.state # "none"
    PROVE  Calm'
<1>1. /\ IsOpen
      /\ \/ /\ nc.state = "incall" /\ nc' = [nc EXCEPT !.state = "aborted"]
            /\ msg' = IF nc.last = None THEN msg ELSE [msg EXCEPT ![nc.last].aborted = TRUE]
         \/ nc.state = "aborted" /\ UNCHANGED <<nc, msg>>
      /\ UNCHANGED <<kind, flags, cs, inbox, plugin, xfer, handling, run, wnd, children, app>>
  BY DEF Cancel, NotReady, IInv, Shape, NcRecords
<1>2. /\ nc'.state = "aborted" /\ nc'.alive = nc.alive /\ nc'.children = nc.children
      /\ nc'.types = nc.types
  BY <1>1 DEF IInv, Shape, NcRecords
<1>3. \A m \in Messages : msg'[m].kind = msg[m].kind /\ msg'[m].todo = msg[m].todo
  <2>1. CASE msg' = msg
    BY <2>1
  <2>2. CASE nc.last \in Messages /\ msg' = [msg EXCEPT ![nc.last].aborted = TRUE]
    BY <2>2 DEF IInv, Shape, MsgRecords
  <2>3. nc.last \in Messages \cup {None}
    BY DEF IInv, Shape, NcRecords
  <2> QED
    BY <1>1, <2>1, <2>2, <2>3
<1>4. wizard'.page = "progress"
  BY DEF Cancel, IInv, Shape, WizardRecords
<1>5. kind = "dialog"
  BY <1>1 DEF IInv, Open, IsOpen, Shape
<1>6. Children' = Children /\ Counted' = Counted /\ ~ Idling /\ ~ Idling'
  BY <1>1, <1>2, <1>3 DEF Children, Counted, Idling
<1>7. handling \subseteq Messages
  BY DEF IInv, Shape
<1>8. Roles'
  <2>1. \A x \in Threads : Role(x)'
    BY <1>1 DEF Calm, Roles, Role
  <2>2. UiRole'
    BY <1>1 DEF Calm, Roles, UiRole
  <2>3. CompletionRole'
    BY <1>1, <1>3, <1>6, <1>7 DEF Calm, Roles, CompletionRole
  <2> QED
    BY <2>1, <2>2, <2>3 DEF Roles
<1>9. Working'
  <2>1. \A x \in Threads : run[x].pc \notin {"dispatch", "terminate", "conclude"}
    BY DEF Calm, Working
  <2> QED
    BY <1>1, <1>2, <2>1 DEF Calm, Working, Owner
<1>10. ChildrenCounted'
  <2>1. Asking' = Asking
    BY <1>1 DEF Asking
  <2>2. run["completion"].pc # "tell_parent"
    BY DEF Calm, ChildrenCounted
  <2> QED
    BY <1>1, <1>2, <1>6, <2>1, <2>2 DEF Calm, ChildrenCounted
<1>11. ToldOnce'
  <2>1. wnd = <<>>
    BY <1>6 DEF Calm, ToldOnce
  <2> QED
    BY <1>1, <1>4, <1>5, <2>1 DEF ToldOnce
<1>12. OneEnd'
  BY <1>1, <1>2, <1>3 DEF Calm, OneEnd
<1>13. Leaving'
  BY <1>1, <1>2, LeavingSame DEF IInv, Calm, Ended
<1> QED
  BY <1>8, <1>9, <1>10, <1>11, <1>12, <1>13 DEF Calm

-----------------------------------------------------------------------------
(* A thread is at the processing.                                           *)

\* While it is, nobody has been told that the processing is over.
LEMMA WorkerFacts ==
    ASSUME IInv, Calm, NEW x \in Threads, run[x].pc \in Using \cup {"tell_parent"}
    PROVE  /\ ~ Quiet /\ ~ Ending /\ nc.alive /\ Counted = {} /\ wnd = <<>>
           /\ kind = "dialog" => wizard.page = "progress"
           /\ kind = "renew" => wizard.starts # 0
           /\ \A y \in Threads \ {x} : run[y].pc \notin Using \cup {"tell_parent"}
           /\ run[x].pc \in Using => run[x].for \notin {"operation", "child"}
           /\ run[x].pc = "tell_parent" => x = "completion" /\ run[x].for = "child"
<1>1. ~ Idling /\ ~ Quiet
  BY DEF Quiet, Idling
<1>2. kind \in {"dialog", "renew"}
  BY DEF IInv, Shape
<1>3. /\ Counted = {} /\ wnd = <<>>
      /\ kind = "dialog" => wizard.page = "progress"
      /\ kind = "renew" => wizard.starts # 0 /\ ~ Ending /\ nc.alive
  BY <1>1 DEF Calm, ChildrenCounted, ToldOnce
<1>4. kind = "dialog" => nc.alive /\ ~ Ending
  BY <1>3 DEF IInv, Open, IsOpen, Ending
<1>5. run[x].pc \in Using => run[x].for \notin {"operation", "child"}
  <2>1. UiRole /\ CompletionRole
    BY DEF Calm, Roles
  <2> QED
    BY <2>1 DEF UiRole, CompletionRole, Using, Threads
<1>6. \A y \in Threads : run[y].pc = "tell_parent" => y = "completion" /\ run[y].for = "child"
  BY DEF Calm, Roles, UiRole, CompletionRole, Threads
<1>7. \A y \in Threads \ {x} : run[y].pc \notin Using \cup {"tell_parent"}
  BY <1>6 DEF Calm, Working, ChildrenCounted
<1> QED
  BY <1>1, <1>2, <1>3, <1>4, <1>5, <1>6, <1>7

\* It goes on with it, or leaves a batch out.
LEMMA WorksOn ==
    ASSUME IInv, IInv', Calm, NEW x \in Threads, run[x].pc \in Using,
           run'[x].pc \in Using \/ (run'[x].pc = "return" /\ nc'.state # "none"),
           run'[x].for \notin {"operation", "child"}, run'[x].pc = "conclude" => x = "completion",
           \A y \in Threads \ {x} : run'[y] = run[y],
           UNCHANGED <<kind, plugin, wizard, wnd, children, app>>,
           nc'.alive = nc.alive, nc'.children = nc.children, nc'.types = nc.types,
           \A n \in Messages : \/ msg'[n].kind = msg[n].kind /\ msg'[n].todo = msg[n].todo
                               \/ msg[n].kind \notin {"end", "child"} /\ msg'[n].kind \notin {"end", "child"},
           handling' = handling
             \/ (x = "completion" /\ \A n \in handling' : n \in handling \/ msg'[n].kind = "process"),
           run'[x].pc \in {"dispatch", "terminate", "conclude"} => nc'.state = "none",
           \/ run'[x].pc \in {"dispatch", "terminate"}
           \/ run'[x].for = "dispatch" /\ run'[x].pc \in {"level", "close", "post"}
           => nc.children = 0 /\ x = Owner
    PROVE  Calm'
<1>1. /\ ~ Quiet /\ ~ Ending /\ nc.alive /\ Counted = {} /\ wnd = <<>>
      /\ kind = "dialog" => wizard.page = "progress"
      /\ kind = "renew" => wizard.starts # 0
      /\ \A y \in Threads \ {x} : run[y].pc \notin Using \cup {"tell_parent"}
      /\ run[x].for \notin {"operation", "child"}
  BY WorkerFacts
<1>2. run[x].pc \notin {"idle", "begin", "began", "end", "uncount", "exit", "exiting", "destroy",
                        "report", "uncount_child", "tell_parent", "return"}
  BY DEF Using
<1>3. run'[x].pc \notin {"idle", "begin", "began", "end", "uncount", "exit", "exiting", "destroy",
                         "report", "uncount_child", "tell_parent"}
  BY DEF Using
<1>4. /\ Children' = Children /\ (Ending' <=> Ending)
      /\ Counted' = {}
  <2>1. Children' = Children /\ (Ending' <=> Ending)
    BY DEF Children, Ending
  <2>2. CASE x = "completion"
    <3>1. Counted = Children
      BY <1>2, <2>2 DEF Counted
    <3> QED
      BY <1>1, <2>1, <3>1 DEF Counted
  <2>3. CASE x # "completion"
    <3>1. handling' = handling /\ run'["completion"] = run["completion"]
      BY <2>3, ThreadFacts
    <3> QED
      BY <1>1, <2>1, <3>1 DEF Counted
  <2> QED
    BY <2>1, <2>2, <2>3
<1>5. handling \subseteq Messages /\ handling' \subseteq Messages
  BY DEF IInv, Shape
<1>6. Roles'
  <2>1. Roles /\ UiRole /\ CompletionRole
    BY DEF Calm, Roles
  <2>2. ASSUME NEW y \in Threads PROVE Role(y)'
    <3>1. CASE y = x
      BY <1>3, <3>1 DEF Role
    <3>2. CASE y # x
      <4>1. run'[y] = run[y] /\ Role(y)
        BY <2>1, <3>2 DEF Roles
      <4> QED
        BY <4>1 DEF Role
    <3> QED
      BY <3>1, <3>2
  <2>3. CASE x = "completion"
    <3>1. run'["ui"] = run["ui"]
      BY <2>3, ThreadFacts
    <3>2. UiRole'
      BY <2>1, <3>1 DEF UiRole
    <3>3. \A n \in handling : msg[n].kind \notin {"end", "child"}
      BY <1>1, <2>1, <2>3 DEF CompletionRole
    <3>4. \A n \in handling' : msg'[n].kind \notin {"end", "child"}
      BY <1>5, <3>3
    <3>5. CompletionRole'
      BY <1>3, <2>3, <3>4 DEF CompletionRole
    <3> QED
      BY <2>2, <3>2, <3>5 DEF Roles
  <2>4. CASE x = "ui"
    <3>1. run'["completion"] = run["completion"] /\ handling' = handling
      BY <2>4, ThreadFacts
    <3>2. UiRole'
      BY <1>3, <2>4 DEF UiRole
    <3>3. CompletionRole'
      BY <1>4, <1>5, <2>1, <3>1 DEF CompletionRole
    <3> QED
      BY <2>2, <3>2, <3>3 DEF Roles
  <2> QED
    BY <2>3, <2>4 DEF Threads
<1>7. Working'
  <2>1. \A y \in Threads : run'[y].pc \in Using => y = x
    BY <1>1
  <2>2. Owner' = Owner
    BY DEF Owner
  <2>3. \A y \in Threads : run'[y].pc \in {"dispatch", "terminate", "level", "close", "post", "conclude"} => y = x
    BY <2>1 DEF Using
  <2> QED
    BY <2>1, <2>2, <2>3 DEF Working
<1>8. ~ Idling' /\ ~ Quiet'
  BY DEF Quiet, Idling
<1>9. ChildrenCounted'
  <2>1. run'["completion"].pc # "tell_parent"
    BY <1>1, <1>3, ThreadFacts
  <2>2. run'["completion"].pc = "uncount_child" => run["completion"].pc = "uncount_child" /\ run'["completion"] = run["completion"]
    BY <1>3, ThreadFacts
  <2>3. Asking' = Asking
    BY <1>1, ThreadFacts DEF Asking
  <2>4. Cardinality({}) = 0 /\ children \in Nat
    BY FS_EmptySet, KidFacts DEF IInv
  <2>5. 0 <= children
    BY <2>4
  <2> QED
    BY <1>4, <2>1, <2>2, <2>3, <2>4, <2>5 DEF Calm, ChildrenCounted
<1>10. ToldOnce'
  BY <1>1, <1>4 DEF ToldOnce
<1>11. OneEnd'
  BY <1>1, <1>4 DEF OneEnd, Ending
<1>12. Leaving'
  <2>1. \A y \in Threads : y # x => run'[y] = run[y]
    OBVIOUS
  <2>2. /\ run'[x].pc = "began" <=> run[x].pc = "began"
        /\ run'[x].for = "nothing" /\ run'[x].pc \in {"end", "uncount"}
             <=> run[x].for = "nothing" /\ run[x].pc \in {"end", "uncount"}
        /\ \A f \in {"operation", "child"} : Ended(x, f)' <=> Ended(x, f)
    BY <1>1, <1>2, <1>3 DEF Ended
  <2>3. \A y \in Threads :
          /\ run'[y].pc = "began" <=> run[y].pc = "began"
          /\ run'[y].for = "nothing" /\ run'[y].pc \in {"end", "uncount"}
               <=> run[y].for = "nothing" /\ run[y].pc \in {"end", "uncount"}
          /\ \A f \in {"operation", "child"} : Ended(y, f)' <=> Ended(y, f)
    BY <2>1, <2>2 DEF Ended
  <2> QED
    BY <2>3, LeavingSame DEF IInv, Calm
<1> QED
  BY <1>6, <1>7, <1>9, <1>10, <1>11, <1>12 DEF Calm

LEMMA DispatchCalm ==
    ASSUME IInv, IInv', Calm, NEW x \in Threads, Dispatch(x)
    PROVE  Calm'
<1>1. /\ run[x].pc = "dispatch"
      /\ UNCHANGED <<kind, cs, msg, inbox, plugin, xfer, handling, wizard, wnd, children, app>>
  BY DEF Dispatch
<1>2. nc.state = "none" /\ nc.children = 0 /\ x = Owner
  BY <1>1 DEF Calm, Working
<1>3. run[x].for \notin {"operation", "child"}
  BY <1>1, WorkerFacts DEF Using
<1>4. CASE nc.types = {} \/ nc.state # "none"
  <2>1. goto(x, "terminate") /\ UNCHANGED nc
    BY <1>4 DEF Dispatch
  <2>2. run'[x].pc = "terminate" /\ run'[x].for = run[x].for /\ \A y \in Threads \ {x} : run'[y] = run[y]
    BY <2>1, GoesOnWith DEF IInv, Pcs
  <2> QED
    BY <1>1, <1>2, <1>3, <2>1, <2>2, WorksOn DEF Using
<1>5. CASE ~ (nc.types = {} \/ nc.state # "none")
  <2>1. nc' = [nc EXCEPT !.noexit = FALSE] /\ run' = [run EXCEPT ![x].pc = "level", ![x].for = "dispatch"]
    BY <1>5 DEF Dispatch
  <2>2. /\ nc'.alive = nc.alive /\ nc'.children = nc.children /\ nc'.types = nc.types
        /\ nc'.state = nc.state
    BY <2>1 DEF IInv, Shape, NcRecords
  <2>3. run'[x].pc = "level" /\ run'[x].for = "dispatch" /\ \A y \in Threads \ {x} : run'[y] = run[y]
    <3>1. PICK r \in RunRecords : r = run[x]
      BY DEF IInv, Shape
    <3>2. run'[x] = [r EXCEPT !.pc = "level", !.for = "dispatch"] /\ \A y \in Threads \ {x} : run'[y] = run[y]
      BY <2>1, <3>1 DEF IInv, Shape
    <3> QED
      BY <3>1, <3>2 DEF RunRecords
  <2> QED
    BY <1>1, <1>2, <2>2, <2>3, WorksOn DEF Using
<1> QED
  BY <1>4, <1>5

LEMMA LevelMarkCalm ==
    ASSUME IInv, IInv', Calm, NEW x \in Threads, LevelMark(x)
    PROVE  Calm'
<1>1. PICK S \in SUBSET Types, l \in {"close", "post"} :
        /\ run[x].pc = "level" /\ nc' = [nc EXCEPT !.last = None]
        /\ run' = [run EXCEPT ![x].pc = l, ![x].subs = S]
        /\ UNCHANGED <<kind, cs, msg, inbox, plugin, xfer, handling, wizard, wnd, children, app>>
  <2>1. nc.types \in SUBSET Types
    BY DEF IInv, Shape, NcRecords
  <2>2. {} \in SUBSET Types /\ Ready \in SUBSET Types
    BY <2>1 DEF Ready
  <2> QED
    BY <2>2, SMTT(90) DEF LevelMark, ForgetsCall
<1>2. run[x].for \notin {"operation", "child"}
  BY <1>1, WorkerFacts DEF Using
<1>3. nc'.alive = nc.alive /\ nc'.children = nc.children /\ nc'.types = nc.types
  BY <1>1 DEF IInv, Shape, NcRecords
<1>4. run'[x].pc = l /\ run'[x].for = run[x].for /\ \A y \in Threads \ {x} : run'[y] = run[y]
  <2>1. PICK r \in RunRecords : r = run[x]
    BY DEF IInv, Shape
  <2>2. run'[x] = [r EXCEPT !.pc = l, !.subs = S] /\ \A y \in Threads \ {x} : run'[y] = run[y]
    BY <1>1, <2>1 DEF IInv, Shape
  <2> QED
    BY <2>1, <2>2 DEF RunRecords
<1>5. run[x].for = "dispatch" => nc.children = 0 /\ x = Owner
  BY <1>1 DEF Calm, Working
<1> QED
  BY <1>1, <1>2, <1>3, <1>4, <1>5, WorksOn DEF Using

LEMMA LevelCloseCalm ==
    ASSUME IInv, IInv', Calm, NEW x \in Threads, LevelClose(x)
    PROVE  Calm'
<1>1. /\ run[x].pc = "close" /\ nc' = [nc EXCEPT !.state = "none"]
      /\ goto(x, IF run[x].for = "dispatch" THEN "terminate" ELSE "conclude")
      /\ UNCHANGED <<kind, flags, cs, msg, inbox, plugin, xfer, handling, wizard, wnd, children, app>>
  BY DEF LevelClose, Closed
<1>2. PICK l \in {"terminate", "conclude"} :
        /\ goto(x, l)
        /\ l = "terminate" => run[x].for = "dispatch"
        /\ l = "conclude" => run[x].for # "dispatch"
  BY <1>1
<1>3. run[x].for \notin {"operation", "child"}
  BY <1>1, WorkerFacts DEF Using
<1>4. nc'.alive = nc.alive /\ nc'.children = nc.children /\ nc'.types = nc.types /\ nc'.state = "none"
  BY <1>1 DEF IInv, Shape, NcRecords
<1>5. run'[x].pc = l /\ run'[x].for = run[x].for /\ \A y \in Threads \ {x} : run'[y] = run[y]
  BY <1>2, GoesOnWith DEF IInv, Pcs
<1>6. run[x].for = "dispatch" => nc.children = 0 /\ x = Owner
  BY <1>1 DEF Calm, Working
<1>7. l = "conclude" => x = "completion"
  BY <1>1, <1>2 DEF IInv, Control, Drives
<1> QED
  BY <1>1, <1>2, <1>3, <1>4, <1>5, <1>6, <1>7, WorksOn DEF Using

LEMMA LevelPostCalm ==
    ASSUME IInv, IInv', Calm, NEW x \in Threads, LevelPost(x)
    PROVE  Calm'
<1>1. PICK m \in Messages, T \in SUBSET Types :
        /\ run[x].pc = "post" /\ Send(m, "process", T, TRUE)
        /\ run' = [run EXCEPT ![x].pc = "commit", ![x].call = m, ![x].subs = {}]
        /\ UNCHANGED <<kind, nc, flags, cs, plugin, xfer, handling, wizard, wnd, children, app>>
  <2>1. run[x].subs \in SUBSET Types
    BY DEF IInv, Shape, RunRecords
  <2> QED
    BY <2>1 DEF LevelPost
<1>2. run[x].for \notin {"operation", "child"}
  BY <1>1, WorkerFacts DEF Using
<1>3. run'[x].pc = "commit" /\ run'[x].for = run[x].for /\ \A y \in Threads \ {x} : run'[y] = run[y]
  <2>1. PICK r \in RunRecords : r = run[x]
    BY DEF IInv, Shape
  <2>2. run'[x] = [r EXCEPT !.pc = "commit", !.call = m, !.subs = {}] /\ \A y \in Threads \ {x} : run'[y] = run[y]
    BY <1>1, <2>1 DEF IInv, Shape
  <2> QED
    BY <2>1, <2>2 DEF RunRecords
<1>4. \A n \in Messages : msg'[n] = msg[n] \/ (msg[n].kind = "free" /\ msg'[n].kind = "process")
  <2>1. /\ msg'[m].kind = "process" /\ msg[m].kind = "free"
        /\ \A n \in Messages \ {m} : msg'[n] = msg[n]
    BY <1>1, SendKeeps DEF IInv
  <2> QED
    BY <2>1
<1>5. \A n \in Messages : \/ msg'[n].kind = msg[n].kind /\ msg'[n].todo = msg[n].todo
                          \/ msg[n].kind \notin {"end", "child"} /\ msg'[n].kind \notin {"end", "child"}
  BY <1>4
<1> QED
  BY <1>1, <1>2, <1>3, <1>5, WorksOn DEF Using

LEMMA LevelCommitCalm ==
    ASSUME IInv, IInv', Calm, NEW x \in Threads, LevelCommit(x)
    PROVE  Calm'
<1>1. PICK m \in Messages : Committed(x, m) /\ m = run[x].call
  BY CommitFacts DEF Committed
<1>2. run[x].pc = "commit"
  BY DEF LevelCommit
<1>3. /\ nc'.alive = nc.alive /\ nc'.children = nc.children /\ nc'.types = nc.types
      /\ nc'.state # "none"
  <2>1. PICK s \in {"incall", "aborted"} : nc' = [nc EXCEPT !.state = s, !.last = run[x].call]
    BY DEF LevelCommit, InCall
  <2> QED
    BY <2>1 DEF IInv, Shape, NcRecords
<1>4. msg[m].kind = "process" /\ \A n \in Messages : msg'[n].kind = msg[n].kind /\ msg'[n].todo = msg[n].todo
  BY <1>1 DEF Committed
<1>5. UNCHANGED <<kind, plugin, wizard, wnd, children, app>>
  BY DEF LevelCommit
<1>6. CASE msg[run[x].call].todo = {} /\ x = "completion"
  <2>1. /\ handling' = handling \cup {run[x].call}
        /\ run' = [run EXCEPT ![x] = [Idle EXCEPT !.pc = "level", !.for = "handler"]]
    BY <1>6 DEF LevelCommit
  <2>2. run'[x].pc = "level" /\ run'[x].for = "handler" /\ \A y \in Threads \ {x} : run'[y] = run[y]
    <3>1. "level" \in Pcs
      BY DEF Pcs
    <3>2. PICK r : r = [Idle EXCEPT !.pc = "level", !.for = "handler"]
      OBVIOUS
    <3>3. run' = [run EXCEPT ![x] = r] /\ Shape
      BY <2>1, <3>2 DEF IInv
    <3> QED
      BY <3>1, <3>2, <3>3, StartsNew
  <2> QED
    BY <1>1, <1>2, <1>3, <1>4, <1>5, <1>6, <2>1, <2>2, WorksOn DEF Using
<1>7. CASE ~ (msg[run[x].call].todo = {} /\ x = "completion")
  <2>1. UNCHANGED handling /\ run' = [run EXCEPT ![x] = [Idle EXCEPT !.pc = "return"]]
    BY <1>7 DEF LevelCommit
  <2>2. run'[x].pc = "return" /\ run'[x].for = "nothing" /\ \A y \in Threads \ {x} : run'[y] = run[y]
    <3>1. "return" \in Pcs
      BY DEF Pcs
    <3> QED
      BY <2>1, <3>1, StartsOrRests DEF IInv
  <2> QED
    BY <1>2, <1>3, <1>4, <1>5, <2>1, <2>2, WorksOn DEF Using
<1> QED
  BY <1>6, <1>7

-----------------------------------------------------------------------------
(* The end: told to the window, or posted to the plug-ins.                  *)

\* KMSG_CRED_END is posted once, to every plug-in.
LEMMA EndIsOne ==
    ASSUME IInv, Calm, PostEnd, ~ Ending, nc'.alive, nc'.types = nc.types,
           UNCHANGED <<plugin, xfer, handling>>
    PROVE  /\ OneEnd' /\ Children' = Children /\ handling \subseteq Messages
           /\ \A n \in Messages : msg[n].kind # "free" => msg'[n] = msg[n]
           /\ \A n \in handling : msg'[n] = msg[n]
<1>1. PICK m \in Messages : Send(m, "end", Types, FALSE)
  BY DEF PostEnd
<1>2. Types \in SUBSET Types
  OBVIOUS
<1>3. /\ msg'[m].kind = "end" /\ msg'[m].todo = Types
      /\ \A n \in Messages \ {m} : msg'[n] = msg[n]
      /\ msg[m].kind = "free" /\ m \notin handling
  BY <1>1, <1>2, SendKeeps DEF IInv
<1>4. handling \subseteq Messages
  BY DEF IInv, Shape
<1>5. /\ Children' = Children
      /\ \A n \in Messages : msg[n].kind # "free" => msg'[n] = msg[n]
      /\ \A n \in handling : msg'[n] = msg[n]
  BY <1>3, <1>4 DEF Children
<1>6. \A n \in Messages : msg'[n].kind = "end" => n = m
  BY <1>3 DEF Ending
<1>7. ASSUME NEW t \in Types, t \notin msg'[m].todo \/ (plugin'[t].pc = "done" /\ plugin'[t].m = m)
      PROVE  FALSE
  <2>1. plugin[t].pc # "idle" /\ plugin[t].m = m
    BY <1>3, <1>7
  <2>2. t \in msg[m].todo
    BY <2>1 DEF IInv, Delivery
  <2>3. msg[m].todo = {}
    BY <1>3 DEF IInv, Delivery
  <2> QED
    BY <2>2, <2>3
<1>8. OneEnd'
  BY <1>6, <1>7 DEF OneEnd
<1> QED
  BY <1>4, <1>5, <1>8

\* The thread at the processing tells that it is over.
LEMMA TellsCalm ==
    ASSUME IInv, IInv', Calm, NEW x \in Threads, run[x].pc \in {"terminate", "conclude", "tell_parent"},
           goto(x, "return"), NEW e \in BOOLEAN,
           \/ /\ kind = "renew" /\ wnd' = wnd
              /\ (nc.children = 0 /\ PostEnd) \/ UNCHANGED <<msg, inbox>>
           \/ kind = "dialog" /\ NotifyComplete(e) /\ UNCHANGED <<msg, inbox>>,
           UNCHANGED <<kind, nc, flags, plugin, xfer, handling, wizard, children, app>>
    PROVE  Calm'
<1>1. /\ ~ Quiet /\ ~ Ending /\ nc.alive /\ Counted = {} /\ wnd = <<>>
      /\ kind = "dialog" => wizard.page = "progress"
      /\ kind = "renew" => wizard.starts # 0
      /\ \A y \in Threads \ {x} : run[y].pc \notin Using \cup {"tell_parent"}
      /\ run[x].pc # "tell_parent" => run[x].for \notin {"operation", "child"}
      /\ run[x].pc = "tell_parent" => x = "completion" /\ run[x].for = "child"
  BY WorkerFacts DEF Using
<1>2. nc.state = "none"
  BY <1>1 DEF Calm, Working, ChildrenCounted
<1>3. /\ run'[x].pc = "return" /\ run'[x].for = run[x].for
      /\ \A y \in Threads \ {x} : run'[y] = run[y]
  BY GoesOnWith DEF IInv, Pcs
<1>4. Idling'
  BY <1>1, <1>2, <1>3 DEF Idling, Using
<1>5. /\ Children' = Children /\ handling \subseteq Messages /\ OneEnd'
      /\ \A n \in handling : msg'[n] = msg[n]
      /\ Ending' => kind = "renew" /\ nc.children = 0
  <2>1. CASE kind = "renew" /\ nc.children = 0 /\ PostEnd
    BY <1>1, <2>1, EndIsOne
  <2>2. CASE UNCHANGED <<msg, inbox>>
    <3>1. handling \subseteq Messages
      BY DEF IInv, Shape
    <3>2. ~ Ending' /\ Children' = Children
      BY <1>1, <2>2 DEF Ending, Children
    <3> QED
      BY <2>2, <3>1, <3>2 DEF OneEnd, Ending
  <2> QED
    BY <2>1, <2>2
<1>6. /\ kind = "renew" => wnd' = <<>>
      /\ wnd' # <<>> => \E b \in BOOLEAN : wnd' = <<b>>
  <2>1. CASE kind = "renew"
    BY <1>1, <2>1
  <2>2. CASE kind = "dialog" /\ wnd' = Append(wnd, e)
    BY <1>1, <2>2
  <2>3. CASE kind = "dialog" /\ wnd' = wnd
    BY <1>1, <2>3
  <2> QED
    BY <2>1, <2>2, <2>3 DEF NotifyComplete
<1>7. Counted' = {}
  <2>1. CASE x = "completion"
    <3>1. Counted' \subseteq Children'
      BY DEF Counted
    <3>2. run[x].pc # "tell_parent" => Counted = Children
      BY <2>1 DEF Counted
    <3>3. run[x].pc = "tell_parent" => Counted' = Counted
      BY <1>3, <1>5, <2>1 DEF Counted
    <3> QED
      BY <1>1, <1>5, <3>1, <3>2, <3>3
  <2>2. CASE x # "completion"
    <3>1. run'["completion"] = run["completion"]
      BY <1>3, <2>2, ThreadFacts
    <3> QED
      BY <1>1, <1>5, <3>1 DEF Counted
  <2> QED
    BY <2>1, <2>2
<1>8. Roles'
  <2>1. Roles /\ UiRole /\ CompletionRole
    BY DEF Calm, Roles
  <2>2. ASSUME NEW y \in Threads PROVE Role(y)'
    <3>1. CASE y = x
      BY <1>3, <3>1 DEF Role
    <3>2. CASE y # x
      <4>1. run'[y] = run[y] /\ Role(y)
        BY <1>3, <2>1, <3>2 DEF Roles
      <4> QED
        BY <4>1 DEF Role
    <3> QED
      BY <3>1, <3>2
  <2>3. CASE x = "completion"
    <3>1. run'["ui"] = run["ui"]
      BY <1>3, <2>3, ThreadFacts
    <3>2. UiRole'
      BY <2>1, <3>1 DEF UiRole
    <3>3. run'["completion"].pc = "return" /\ run'["completion"].for = run["completion"].for
          /\ run["completion"].for # "operation"
      BY <1>1, <1>3, <2>3
    <3>4. CompletionRole'
      BY <1>5, <2>1, <3>3 DEF CompletionRole
    <3> QED
      BY <2>2, <3>2, <3>4 DEF Roles
  <2>4. CASE x = "ui"
    <3>1. run'["completion"] = run["completion"]
      BY <1>3, <2>4, ThreadFacts
    <3>2. run'["ui"].pc = "return" /\ run'["ui"].for \notin {"operation", "child"}
      BY <1>1, <1>3, <2>4
    <3>3. UiRole'
      BY <3>2 DEF UiRole
    <3>4. CompletionRole'
      BY <1>5, <2>1, <3>1 DEF CompletionRole
    <3> QED
      BY <2>2, <3>3, <3>4 DEF Roles
  <2> QED
    BY <2>3, <2>4 DEF Threads
<1>9. Working'
  <2>1. \A y \in Threads : run'[y].pc \notin Using
    BY <1>1, <1>3 DEF Using
  <2>2. \A y \in Threads : run'[y].pc \notin {"dispatch", "terminate", "level", "close", "post", "conclude"}
    BY <2>1 DEF Using
  <2> QED
    BY <2>1, <2>2 DEF Working
<1>10. ChildrenCounted'
  <2>1. run'["completion"].pc # "tell_parent"
    BY <1>1, <1>3, ThreadFacts
  <2>2. run'["completion"].pc = "uncount_child" => run["completion"].pc = "uncount_child" /\ run'["completion"] = run["completion"]
    BY <1>3, ThreadFacts
  <2>3. Asking' = Asking
    BY <1>3, ThreadFacts DEF Asking
  <2>4. Cardinality({}) = 0 /\ children \in Nat
    BY FS_EmptySet, KidFacts DEF IInv
  <2>5. 0 <= children
    BY <2>4
  <2> QED
    BY <1>5, <1>7, <2>1, <2>2, <2>3, <2>4, <2>5 DEF Calm, ChildrenCounted
<1>11. ToldOnce'
  <2>1. kind \in {"dialog", "renew"}
    BY DEF IInv, Shape
  <2>2. CASE kind = "dialog"
    BY <1>1, <1>4, <1>6, <1>7, <2>2 DEF ToldOnce
  <2>3. CASE kind = "renew"
    <3>1. Ending' => Quiet'
      BY <1>4, <1>5, <1>6, <2>3 DEF Quiet
    <3> QED
      BY <1>1, <1>6, <2>3, <3>1 DEF ToldOnce
  <2> QED
    BY <2>1, <2>2, <2>3
<1>12. Leaving'
  <2>1. \A y \in Threads : y # x => run'[y] = run[y]
    BY <1>3
  <2> QED
    BY <1>3, <2>1, LeavingSame DEF IInv, Calm, Ended
<1> QED
  BY <1>5, <1>8, <1>9, <1>10, <1>11, <1>12 DEF Calm

LEMMA TerminateCalm ==
    ASSUME IInv, IInv', Calm, NEW x \in Threads, Terminate(x)
    PROVE  Calm'
<1>1. nc.children = 0 /\ kind \in {"dialog", "renew"}
  BY DEF Terminate, Calm, Working, IInv, Shape
<1>2. \/ kind = "renew" /\ wnd' = wnd /\ PostEnd
      \/ kind = "dialog" /\ NotifyComplete(FALSE) /\ UNCHANGED <<msg, inbox>>
  BY <1>1 DEF Terminate
<1>3. /\ run[x].pc = "terminate" /\ goto(x, "return")
      /\ UNCHANGED <<kind, nc, flags, plugin, xfer, handling, wizard, children, app>>
  BY DEF Terminate
<1> QED
  BY <1>1, <1>2, <1>3, TellsCalm

LEMMA ConcludeCalm ==
    ASSUME IInv, IInv', Calm, NEW x \in Threads, Conclude(x)
    PROVE  Calm'
<1>1. kind \in {"dialog", "renew"}
  BY DEF IInv, Shape
<1>2. PICK e \in BOOLEAN :
        \/ /\ kind = "renew" /\ wnd' = wnd
           /\ (nc.children = 0 /\ PostEnd) \/ UNCHANGED <<msg, inbox>>
        \/ kind = "dialog" /\ NotifyComplete(e) /\ UNCHANGED <<msg, inbox>>
  BY <1>1 DEF Conclude
<1>3. /\ run[x].pc = "conclude" /\ goto(x, "return")
      /\ UNCHANGED <<kind, nc, flags, plugin, xfer, handling, wizard, children, app>>
  BY DEF Conclude
<1> QED
  BY <1>2, <1>3, TellsCalm

LEMMA TellParentCalm ==
    ASSUME IInv, IInv', Calm, NEW x \in Threads, TellParent(x)
    PROVE  Calm'
<1>1. run[x].pc = "tell_parent" /\ kind \in {"dialog", "renew"}
  BY DEF TellParent, IInv, Shape
<1>2. x = "completion"
  BY <1>1 DEF Calm, Roles, UiRole, Threads
<1>3. nc.children = 0
  BY <1>1, <1>2 DEF Calm, ChildrenCounted
<1>4. \/ kind = "renew" /\ wnd' = wnd /\ PostEnd
      \/ kind = "dialog" /\ NotifyComplete(FALSE) /\ UNCHANGED <<msg, inbox>>
  BY <1>1 DEF TellParent
<1>5. /\ goto(x, "return")
      /\ UNCHANGED <<kind, nc, flags, plugin, xfer, handling, wizard, children, app>>
  BY DEF TellParent
<1> QED
  BY <1>1, <1>3, <1>4, <1>5, TellsCalm

\* The window goes on; it leaves its progress page when no child is left.
LEMMA WindowCalm ==
    ASSUME IInv, IInv', Calm, IsOpen, kind = "dialog", Idling,
           UNCHANGED <<kind, plugin, xfer, handling, run, children, app>>,
           nc'.alive = nc.alive, nc'.state = nc.state, nc'.children = nc.children, nc'.types = nc.types,
           wnd' = <<>>, wizard'.page # "progress" => nc.children = 0,
           PostEnd \/ UNCHANGED <<msg, inbox>>
    PROVE  Calm'
<1>1. nc.alive /\ ~ Ending
  BY DEF IInv, Open, Ending
<1>2. /\ Children' = Children /\ handling \subseteq Messages /\ OneEnd'
      /\ \A n \in handling : msg'[n] = msg[n]
  <2>1. CASE PostEnd
    BY <1>1, <2>1, EndIsOne
  <2>2. CASE UNCHANGED <<msg, inbox>>
    <3>1. handling \subseteq Messages
      BY DEF IInv, Shape
    <3>2. ~ Ending' /\ Children' = Children
      BY <1>1, <2>2 DEF Ending, Children
    <3> QED
      BY <2>2, <3>1, <3>2 DEF OneEnd, Ending
  <2> QED
    BY <2>1, <2>2
<1>3. Counted' = Counted /\ Idling'
  BY <1>2 DEF Counted, Idling
<1>4. Roles'
  <2>1. \A x \in Threads : Role(x)'
    BY DEF Calm, Roles, Role
  <2>2. UiRole'
    BY DEF Calm, Roles, UiRole
  <2>3. CompletionRole'
    BY <1>2 DEF Calm, Roles, CompletionRole
  <2> QED
    BY <2>1, <2>2, <2>3 DEF Roles
<1>5. Working'
  BY DEF Calm, Working, Owner
<1>6. ChildrenCounted'
  <2>1. Asking' = Asking
    BY DEF Asking
  <2> QED
    BY <1>2, <1>3, <2>1 DEF Calm, ChildrenCounted
<1>7. ToldOnce'
  BY <1>3 DEF ToldOnce, Quiet
<1>8. Leaving'
  BY LeavingSame DEF IInv, Calm, Ended
<1> QED
  BY <1>2, <1>4, <1>5, <1>6, <1>7, <1>8 DEF Calm

LEMMA CloseCalm ==
    ASSUME IInv, IInv', Calm, Close
    PROVE  Calm'
<1>1. IsOpen /\ wizard.page = "preend"
  BY DEF Close, IsOpen
<1>2. kind = "dialog"
  BY <1>1 DEF IInv, Open, Shape
<1>3. Quiet
  BY <1>1, <1>2 DEF Calm, ToldOnce
<1> QED
  BY <1>1, <1>2, <1>3, WindowCalm DEF Close, Quiet

LEMMA OnProcessCompleteCalm ==
    ASSUME IInv, IInv', Calm, OnProcessComplete
    PROVE  Calm'
<1>1. /\ IsOpen /\ wnd # <<>>
      /\ UNCHANGED <<kind, flags, cs, plugin, xfer, handling, run, children, app>>
  BY DEF OnProcessComplete
<1>2. Idling /\ kind = "dialog"
  BY <1>1 DEF Calm, ToldOnce
<1>3. Tail(wnd) = <<>>
  <2>1. PICK e \in BOOLEAN : wnd = <<e>>
    BY <1>1 DEF Calm, ToldOnce
  <2> QED
    BY <2>1
<1>4. wizard.page = "progress"
  BY <1>1, <1>2 DEF Calm, ToldOnce, Quiet
<1>5. nc'.alive = nc.alive /\ nc'.state = nc.state /\ nc'.children = nc.children /\ nc'.types = nc.types
  <2>1. UNCHANGED nc \/ nc' = [nc EXCEPT !.result = "cancel"]
    BY DEF OnProcessComplete
  <2> QED
    BY <2>1 DEF IInv, Shape, NcRecords
<1>6. PostEnd \/ UNCHANGED <<msg, inbox>>
  BY DEF OnProcessComplete, End
<1>7. wnd' = <<>>
  BY <1>3 DEF OnProcessComplete, End
<1>8. wizard'.page # "progress" => nc.children = 0
  BY <1>4 DEF OnProcessComplete, HasChildren
<1> QED
  BY <1>1, <1>2, <1>5, <1>6, <1>7, <1>8, WindowCalm

-----------------------------------------------------------------------------
(* Children end.                                                            *)

LEMMA ChildEndsCalm ==
    ASSUME Deviations = {}, IInv, IInv', Calm, ChildEnds
    PROVE  Calm'
<1>1. /\ Cardinality(Children) < children
      /\ nc.state = "none" /\ wnd = <<>>
      /\ \A x \in Threads : run[x].pc = "idle"
      /\ UNCHANGED <<kind, nc, flags, cs, inbox, plugin, handling, run, wizard, wnd, children, app>>
  BY DEF ChildEnds, Children
<1>2. PICK m \in Messages :
        /\ msg[m].kind = "free" /\ msg'[m].kind = "child"
        /\ \A n \in Messages \ {m} : msg'[n] = msg[n]
  <2>1. PICK m \in Messages : msg[m].kind = "free" /\ msg' = [msg EXCEPT ![m] = [Free EXCEPT !.kind = "child"]]
    BY DEF ChildEnds
  <2>2. msg'[m].kind = "child" /\ \A n \in Messages \ {m} : msg'[n] = msg[n]
    BY <2>1 DEF IInv, Shape, Free
  <2> QED
    BY <2>1, <2>2
<1>3. Idling /\ Idling'
  BY <1>1 DEF Idling, Using
<1>4. Counted = Children /\ Counted' = Children'
  BY <1>1, ThreadFacts DEF Counted
<1>5. Children' = Children \cup {m} /\ m \notin Children
  BY <1>2 DEF Children
<1>6. IsFiniteSet(Children') /\ Cardinality(Children') <= children
  <2>1. IsFiniteSet(Children)
    BY DEF Calm, ChildrenCounted
  <2>2. IsFiniteSet(Children') /\ Cardinality(Children') = Cardinality(Children) + 1
    BY <1>5, <2>1, FS_AddElement
  <2>3. Cardinality(Children) \in Nat /\ children \in Int
    BY <2>1, FS_CardinalityType DEF IInv, Shape
  <2> QED
    BY <1>1, <2>2, <2>3
<1>7. Roles'
  <2>1. \A x \in Threads : Role(x)'
    BY <1>1 DEF Calm, Roles, Role
  <2>2. UiRole'
    BY <1>1 DEF Calm, Roles, UiRole
  <2>3. run["completion"].pc = "idle" /\ run["completion"].for = "nothing"
    BY <1>1, ThreadFacts DEF Calm, Roles, Role
  <2>4. handling = {}
    BY <2>3 DEF IInv, Control
  <2>5. CompletionRole'
    BY <1>1, <2>3, <2>4 DEF CompletionRole
  <2> QED
    BY <2>1, <2>2, <2>5 DEF Roles
<1>8. Working'
  BY <1>1 DEF Working, Using
<1>9. ChildrenCounted'
  <2>1. Asking' = Asking
    BY <1>1 DEF Asking
  <2> QED
    BY <1>1, <1>3, <1>4, <1>6, <2>1, ThreadFacts DEF Calm, ChildrenCounted
<1>10. ToldOnce'
  <2>1. Quiet' <=> Quiet
    BY <1>1, <1>3 DEF Quiet
  <2>2. Ending' <=> Ending
    BY <1>2 DEF Ending
  <2> QED
    BY <1>1, <2>1, <2>2 DEF Calm, ToldOnce
<1>11. OneEnd'
  <2>1. \A n \in Messages : msg'[n].kind = "end" => n # m /\ msg'[n] = msg[n] /\ msg[n].kind = "end"
    BY <1>2
  <2> QED
    BY <1>1, <2>1 DEF Calm, OneEnd
<1>12. Leaving'
  BY <1>1, LeavingSame DEF IInv, Calm, Ended
<1> QED
  BY <1>7, <1>8, <1>9, <1>10, <1>11, <1>12 DEF Calm

\* A plug-in derives while it processes: a batch is out.
LEMMA PluginDeriveCalm ==
    ASSUME Deviations = {}, IInv, IInv', Calm, NEW t \in Types, PluginDerive(t)
    PROVE  Calm'
<1>1. /\ plugin[t].pc = "process" /\ run["ui"].pc = "idle" /\ ~ app.exiting
      /\ nc' = [nc EXCEPT !.children = @ + 1]
      /\ plugin' = [plugin EXCEPT ![t].pc = "asking"]
      /\ run' = [run EXCEPT !["ui"] = [Idle EXCEPT !.pc = "begin", !.for = "child"]]
      /\ UNCHANGED <<kind, flags, cs, msg, inbox, xfer, handling, wizard, wnd, children, app>>
  BY DEF PluginDerive
<1>2. PICK m \in Messages : msg[m].kind = "process" /\ msg[m].todo # {}
  BY <1>1 DEF IInv, Delivery
<1>3. \/ nc.state # "none"
      \/ \E x \in Threads : run[x].pc = "commit"
  BY <1>2, BatchInWork DEF IInv, Batches
<1>4. \A x \in Threads : ~ \/ run[x].pc \in {"dispatch", "terminate"}
                           \/ run[x].for = "dispatch" /\ run[x].pc \in {"level", "close", "post"}
  <2> SUFFICES ASSUME NEW x \in Threads, run[x].pc \in {"dispatch", "terminate", "level", "close", "post"}
               PROVE  run[x].pc \notin {"dispatch", "terminate", "level", "close", "post"} \/ FALSE
    OBVIOUS
  <2>1. CASE run[x].pc \in {"level", "close", "post"}
    BY <1>2, <2>1, NoneInWork DEF IInv
  <2>2. CASE run[x].pc \in {"dispatch", "terminate"}
    <3>1. nc.state = "none"
      BY <2>2 DEF Calm, Working
    <3>2. PICK y \in Threads : run[y].pc = "commit"
      BY <1>3, <3>1
    <3>3. x = y
      BY <2>2, <3>2 DEF Calm, Working, Using
    <3> QED
      BY <2>2, <3>2, <3>3
  <2> QED
    BY <2>1, <2>2
<1>5. ~ Idling /\ ~ Quiet
  BY <1>3 DEF Quiet, Idling, Using
<1>6. Counted = {} /\ wnd = <<>>
  BY <1>5 DEF Calm, ChildrenCounted, ToldOnce
<1>7. run["ui"].for = "nothing"
  BY <1>1, ThreadFacts DEF Calm, Roles, Role
<1>8. /\ run'["ui"].pc = "begin" /\ run'["ui"].for = "child"
      /\ \A y \in Threads \ {"ui"} : run'[y] = run[y]
  <2>1. "begin" \in Pcs
    BY DEF Pcs
  <2>2. PICK r : r = [Idle EXCEPT !.pc = "begin", !.for = "child"]
    OBVIOUS
  <2>3. run' = [run EXCEPT !["ui"] = r] /\ Shape
    BY <1>1, <2>2 DEF IInv
  <2> QED
    BY <2>1, <2>2, <2>3, StartsNew, ThreadFacts
<1>9. run'["completion"] = run["completion"]
  BY <1>8, ThreadFacts
<1>10. /\ nc'.alive = nc.alive /\ nc'.state = nc.state /\ nc'.types = nc.types
       /\ nc'.children = nc.children + 1
  BY <1>1 DEF IInv, Shape, NcRecords
<1>11. Children' = Children /\ Counted' = {}
  BY <1>1, <1>6, <1>9 DEF Children, Counted
<1>12. /\ ~ Quiet'
       /\ Ending' <=> Ending
  <2>1. ~ Idling'
    <3>1. \A x \in Threads : run[x].pc = "commit" => run'[x].pc = "commit"
      BY <1>1, <1>8
    <3> QED
      BY <1>3, <1>10, <3>1 DEF Idling, Using
  <2> QED
    BY <1>1, <2>1 DEF Quiet, Ending
<1>13. Roles'
  <2>1. Roles
    BY DEF Calm
  <2>2. Role("ui")' /\ UiRole'
    BY <1>1, <1>8 DEF Role, UiRole
  <2> QED
    BY <1>1, <1>8, <2>1, <2>2, RolesStep, ThreadFacts
<1>14. Working'
  <2>1. \A x \in Threads : run'[x].pc \in Using => run'[x] = run[x]
    BY <1>8 DEF Using
  <2>2. \A x \in Threads : run'[x].pc \in {"dispatch", "terminate", "conclude", "level", "close", "post"}
                             => run'[x] = run[x]
    BY <2>1 DEF Using
  <2>3. \A x, y \in Threads : run'[x].pc \in Using /\ run'[y].pc \in Using => x = y
    BY <2>1 DEF Calm, Working
  <2>4. \A x \in Threads : run'[x].pc \in {"dispatch", "terminate", "conclude"} => nc'.state = "none"
    BY <1>10, <2>2 DEF Calm, Working
  <2>5. \A x \in Threads : ~ \/ run'[x].pc \in {"dispatch", "terminate"}
                             \/ run'[x].for = "dispatch" /\ run'[x].pc \in {"level", "close", "post"}
    BY <1>4, <2>2
  <2> QED
    BY <2>3, <2>4, <2>5 DEF Working
<1>15. ChildrenCounted'
  <2>1. Asking = 0 /\ Asking' = 1
    BY <1>7, <1>8 DEF Asking
  <2>2. children \in Nat /\ nc.children = children + Asking
    BY KidFacts DEF IInv, Calm, ChildrenCounted
  <2>3. nc'.children = children + 1
    BY <1>10, <2>1, <2>2
  <2>4. run["completion"].pc # "uncount_child"
    <3>1. run["completion"].pc = "uncount_child" => run["completion"].for = "child"
      BY DEF Calm, Roles, CompletionRole
    <3> QED
      BY <1>6, <3>1, KidFacts DEF IInv
  <2>5. run["completion"].pc # "tell_parent"
    BY <1>3 DEF Calm, ChildrenCounted, Using
  <2>6. Cardinality({}) = 0 /\ 0 <= children
    BY <2>2, FS_EmptySet
  <2>7. IsFiniteSet(Children)
    BY DEF Calm, ChildrenCounted
  <2> QED
    BY <1>1, <1>9, <1>11, <2>1, <2>3, <2>4, <2>5, <2>6, <2>7 DEF ChildrenCounted
<1>16. ToldOnce'
  BY <1>1, <1>5, <1>6, <1>10, <1>12 DEF Calm, ToldOnce
<1>17. OneEnd'
  <2>1. \A u \in Types : plugin'[u].pc = "done" => plugin'[u] = plugin[u]
    <3>1. plugin'[t].pc = "asking" /\ \A u \in Types \ {t} : plugin'[u] = plugin[u]
      <4>1. PICK r \in PluginRecords : r = plugin[t]
        BY DEF IInv, Shape
      <4>2. plugin'[t] = [r EXCEPT !.pc = "asking"] /\ \A u \in Types \ {t} : plugin'[u] = plugin[u]
        BY <1>1, <4>1 DEF IInv, Shape
      <4> QED
        BY <4>1, <4>2 DEF PluginRecords
    <3> QED
      BY <3>1
  <2> QED
    BY <1>1, <1>9, <1>10, <2>1 DEF Calm, OneEnd
<1>18. Leaving'
  <2>1. \A y \in Threads : y # "ui" => run'[y] = run[y]
    BY <1>8
  <2> QED
    BY <1>1, <1>7, <1>8, <1>10, <2>1, LeavingSame DEF IInv, Calm, Ended
<1> QED
  BY <1>13, <1>14, <1>15, <1>16, <1>17, <1>18 DEF Calm

-----------------------------------------------------------------------------
(* The completion thread.                                                   *)

\* What is left to say when it goes on outside the processing, the children
\* counted being the same.
LEMMA CompletionCalm ==
    ASSUME IInv, IInv', Calm, run'["ui"] = run["ui"],
           run["completion"].pc \notin Using \cup {"tell_parent"},
           run'["completion"].pc \notin Using \cup {"tell_parent"},
           run'["completion"].pc = "uncount_child" => run'["completion"].n = nc.children,
           UNCHANGED <<kind, plugin, wizard, wnd, children, app>>,
           nc'.state = nc.state, nc'.children = nc.children, nc'.types = nc.types,
           Role("completion")', CompletionRole',
           Counted' = Counted, Children' \subseteq Children, OneEnd',
           nc'.alive = nc.alive \/ (kind = "renew" => Quiet),
           Ending' => Ending,
           In("completion")' = In("completion"), Operations' = Operations
    PROVE  Calm'
<1>1. \A x \in Threads : run'[x].pc \in Using \cup {"tell_parent"} => run'[x] = run[x]
  BY DEF Threads
<1>2. \A x \in Threads : run[x].pc \in Using \cup {"tell_parent"} => run'[x] = run[x]
  BY DEF Threads
<1>3. \A x \in Threads : run'[x].pc \in Using \cup {"tell_parent"} <=> run[x].pc \in Using \cup {"tell_parent"}
  BY <1>1, <1>2
<1>4. Idling' <=> Idling
  BY <1>3 DEF Idling
<1>5. Quiet' <=> Quiet
  BY <1>4 DEF Quiet
<1>6. Roles'
  <2>1. Role("ui")' /\ UiRole'
    BY ThreadFacts DEF Calm, Roles, Role, UiRole
  <2>2. \A x \in Threads : Role(x)'
    BY <2>1 DEF Threads
  <2> QED
    BY <2>1, <2>2 DEF Roles
<1>7. Working'
  <2>1. \A x \in Threads : run'[x].pc \in {"dispatch", "terminate", "conclude", "level", "close", "post"}
                             => run'[x] = run[x]
    BY <1>1 DEF Using
  <2>2. \A x, y \in Threads : run'[x].pc \in Using /\ run'[y].pc \in Using => x = y
    BY <1>1 DEF Calm, Working
  <2>3. Owner' = Owner
    BY DEF Owner
  <2> QED
    BY <2>1, <2>2, <2>3 DEF Calm, Working
<1>8. ChildrenCounted'
  <2>1. Asking' = Asking
    BY DEF Asking
  <2>2. IsFiniteSet(Children')
    BY FS_Subset DEF Calm, ChildrenCounted
  <2> QED
    BY <1>4, <2>1, <2>2 DEF Calm, ChildrenCounted
<1>9. ToldOnce'
  BY <1>4, <1>5 DEF Calm, ToldOnce
<1>10. Leaving'
  <2>1. \A y \in Threads \ {"completion"} : run'[y] = run[y]
    BY DEF Threads
  <2>2. In("completion") \in Int /\ Operations \in Int /\ app.pending \in Int
    BY Sums, OperationsInt, ThreadFacts DEF IInv, Shape, AppRecords
  <2>3. ~ app'.window => app'.exiting /\ Operations' = 0
    BY DEF Calm, Leaving, ExitNotDuringOperation
  <2> DEFINE i == 0
             o == 0
  <2>4. /\ In("completion")' = In("completion") + i
        /\ Operations' = Operations + o /\ app'.pending = app.pending + (i + o)
    BY <2>2
  <2>5. i \in Int /\ o \in Int
    OBVIOUS
  <2> HIDE DEF i, o
  <2> QED
    BY <2>1, <2>3, <2>4, <2>5, LeavingCounts, ThreadFacts DEF IInv
<1> QED
  BY <1>6, <1>7, <1>8, <1>9, <1>10 DEF Calm

LEMMA DestroyCalm ==
    ASSUME IInv, IInv', Calm, NEW x \in Threads, Destroy(x)
    PROVE  Calm'
<1>1. /\ run[x].pc = "destroy" /\ nc' = [nc EXCEPT !.alive = FALSE, !.last = None]
      /\ goto(x, "return")
      /\ UNCHANGED <<kind, flags, cs, msg, inbox, plugin, xfer, handling, wizard, wnd, children, app>>
  BY DEF Destroy
<1>2. x = "completion"
  BY <1>1 DEF Calm, Roles, UiRole, Threads
<1>3. run["completion"].for = "operation"
  BY <1>1, <1>2 DEF IInv, Control
<1>4. PICK m \in Messages : msg[m].kind = "end" /\ handling = {m}
  BY <1>1, <1>2, <1>3 DEF Calm, Roles, CompletionRole
<1>5. /\ run'["completion"].pc = "return" /\ run'["completion"].for = "operation"
      /\ run'["ui"] = run["ui"] /\ \A y \in Threads \ {x} : run'[y] = run[y]
  BY <1>1, <1>2, <1>3, GoesOnWith, ThreadFacts DEF IInv, Pcs
<1>6. /\ ~ nc'.alive /\ nc'.state = nc.state /\ nc'.children = nc.children /\ nc'.types = nc.types
  BY <1>1 DEF IInv, Shape, NcRecords
<1>7. Children' = Children /\ Counted' = Counted
  <2>1. Children' = Children
    BY <1>1 DEF Children
  <2>2. m \notin Children
    BY <1>4 DEF Children
  <2> QED
    BY <1>1, <1>2, <1>4, <1>5, <2>1, <2>2 DEF Counted
<1>8. Ending /\ (kind = "renew" => Quiet)
  BY <1>4 DEF Ending, Calm, ToldOnce
<1>9. Role("completion")' /\ CompletionRole'
  BY <1>1, <1>2, <1>4, <1>5 DEF Role, CompletionRole, Calm, Roles
<1>10. OneEnd'
  BY <1>1, <1>4, <1>5, <1>6 DEF Calm, OneEnd
<1>11. In("completion")' = In("completion")
  <2>1. In(x) = 0 /\ In(x)' = 0
    BY <1>1, <1>2, <1>3, <1>5, InIs
  <2> QED
    BY <1>2, <2>1
<1>12. Operations' = Operations
  <2>1. Alive = 0 /\ ChildEnded = 0
    BY <1>1, <1>2, <1>3 DEF Alive, ChildEnded, Ended
  <2>2. Alive' = 0 /\ ChildEnded' = 0
    BY <1>5, <1>6 DEF Alive, ChildEnded, Ended
  <2> QED
    BY <1>1, <2>1, <2>2, Sums, SumsNext
<1> QED
  BY <1>1, <1>2, <1>5, <1>6, <1>7, <1>8, <1>9, <1>10, <1>11, <1>12, CompletionCalm DEF Using

LEMMA ChildReportCalm ==
    ASSUME IInv, IInv', Calm, NEW x \in Threads, ChildReport(x)
    PROVE  Calm'
<1>1. /\ run[x].pc = "report" /\ run' = [run EXCEPT ![x].pc = "uncount_child", ![x].n = nc.children]
      /\ UNCHANGED <<kind, nc, flags, cs, msg, inbox, plugin, xfer, handling, wizard, wnd, children, app>>
  BY DEF ChildReport
<1>2. x = "completion"
  BY <1>1 DEF Calm, Roles, UiRole, Threads
<1>3. run["completion"].for = "child"
  BY <1>1, <1>2 DEF Calm, Roles, CompletionRole
<1>4. PICK m \in Children : handling = {m}
  BY <1>3 DEF Calm, Roles, CompletionRole
<1>5. /\ run'[x].pc = "uncount_child" /\ run'[x].for = "child" /\ run'[x].n = nc.children
      /\ \A y \in Threads \ {x} : run'[y] = run[y]
  <2>1. PICK r \in RunRecords : r = run[x]
    BY DEF IInv, Shape
  <2>2. run'[x] = [r EXCEPT !.pc = "uncount_child", !.n = nc.children] /\ \A y \in Threads \ {x} : run'[y] = run[y]
    BY <1>1, <2>1 DEF IInv, Shape
  <2>3. run'[x].pc = "uncount_child" /\ run'[x].for = r.for /\ run'[x].n = nc.children
    BY <2>2 DEF RunRecords
  <2> QED
    BY <1>2, <1>3, <2>1, <2>2, <2>3
<1>6. run'["ui"] = run["ui"]
  BY <1>2, <1>5, ThreadFacts
<1>7. Children' = Children /\ Counted' = Counted /\ (Ending' <=> Ending)
  <2>1. Children' = Children /\ (Ending' <=> Ending)
    BY <1>1 DEF Children, Ending
  <2> QED
    BY <1>1, <1>2, <1>5, <2>1 DEF Counted
<1>8. Role("completion")' /\ CompletionRole'
  <2>1. Role("completion")'
    BY <1>2, <1>5 DEF Role
  <2>2. handling' = {m} /\ m \in Children'
    BY <1>1, <1>4, <1>7
  <2> QED
    BY <1>1, <1>2, <1>5, <2>1, <2>2 DEF CompletionRole, Children
<1>9. OneEnd'
  BY <1>1, <1>2, <1>5 DEF Calm, OneEnd
<1>10. In("completion")' = In("completion")
  <2>1. In(x) = 0 /\ In(x)' = 0
    BY <1>1, <1>2, <1>3, <1>5, InIs
  <2> QED
    BY <1>2, <2>1
<1>11. Operations' = Operations
  <2>1. \A f \in {"operation", "child"} : Ended(x, f)' <=> Ended(x, f)
    BY <1>1, <1>2, <1>3, <1>5 DEF Ended
  <2> QED
    BY <1>1, <1>5, <2>1, OperationsSame
<1> QED
  BY <1>1, <1>2, <1>5, <1>6, <1>7, <1>8, <1>9, <1>10, <1>11, CompletionCalm DEF Using

\* The completion thread takes a batch, and goes on with the processing.
LEMMA BatchTaken ==
    ASSUME IInv, IInv', Calm, NEW m \in Messages, msg[m].kind = "process", ~ msg[m].held, handling = {},
           run["completion"].pc = "idle", run'["ui"] = run["ui"],
           run'["completion"].pc = "level", run'["completion"].for = "handler", handling' = {m},
           UNCHANGED <<kind, nc, msg, plugin, wizard, wnd, children, app>>
    PROVE  Calm'
<1>1. Outstanding(m)
  BY DEF Outstanding
<1>2. nc.state # "none" /\ \A x \in Threads : ~ Drives(x)
  BY <1>1 DEF IInv, Batches
<1>3. \A x \in Threads : run[x].pc \notin Using
  BY <1>2 DEF Calm, Working, Using, Drives
<1>4. ~ Idling /\ ~ Quiet /\ ~ Idling' /\ ~ Quiet'
  BY <1>2 DEF Quiet, Idling
<1>5. Children' = Children /\ Counted = Children /\ Counted' = Children
  BY DEF Children, Counted
<1>6. Counted = {}
  BY <1>4 DEF Calm, ChildrenCounted
<1>7. run["completion"].for = "nothing"
  BY ThreadFacts DEF Calm, Roles, Role
<1>8. Roles'
  <2>1. Role("ui")' /\ UiRole'
    BY ThreadFacts DEF Calm, Roles, Role, UiRole
  <2>2. Role("completion")'
    BY DEF Role
  <2>3. CompletionRole'
    BY DEF CompletionRole
  <2> QED
    BY <2>1, <2>2, <2>3 DEF Roles, Threads
<1>9. Working'
  <2>1. \A x \in Threads : x = "completion" \/ run'[x].pc \notin Using
    BY <1>3 DEF Threads
  <2>2. \A x \in Threads : x = "completion"
          \/ run'[x].pc \notin {"dispatch", "terminate", "conclude", "level", "close", "post"}
    BY <2>1 DEF Using
  <2> QED
    BY <2>1, <2>2 DEF Working
<1>10. ChildrenCounted'
  <2>1. Asking' = Asking
    BY DEF Asking
  <2> QED
    BY <1>5, <1>6, <2>1 DEF Calm, ChildrenCounted
<1>11. ToldOnce'
  <2>1. Ending' <=> Ending
    BY DEF Ending
  <2>2. wnd = <<>>
    BY <1>4 DEF Calm, ToldOnce
  <2> QED
    BY <1>4, <2>1, <2>2 DEF Calm, ToldOnce
<1>12. OneEnd'
  BY DEF Calm, OneEnd
<1>13. Leaving'
  <2>1. \A y \in Threads : y # "completion" => run'[y] = run[y]
    BY DEF Threads
  <2> QED
    BY <1>7, <2>1, LeavingSame DEF IInv, Calm, Ended
<1> QED
  BY <1>8, <1>9, <1>10, <1>11, <1>12, <1>13 DEF Calm

LEMMA ComplTakeCalm ==
    ASSUME IInv, IInv', Calm, ComplTake
    PROVE  Calm'
<1>1. PICK m \in Messages : m = Head(xfer) /\ Over(m)
  <2>1. xfer \in Seq(Messages) /\ xfer # <<>> /\ IsInjective(xfer)
    BY DEF ComplTake, IInv, Shape, Delivery, TakenOnce
  <2>2. Head(xfer) \in Messages /\ Head(xfer) \in ToSet(xfer)
    BY <2>1, TailFacts
  <2> QED
    BY <2>2 DEF IInv, Delivery, Completing
<1>2. PICK l \in {"level", "end"}, f \in {"handler", "operation", "child"} :
        /\ run' = [run EXCEPT !["completion"] = [Idle EXCEPT !.pc = l, !.for = f]]
        /\ l = "level" => f = "handler" /\ msg[m].kind = "process"
        /\ l = "end" => f \in {"operation", "child"}
        /\ f = "operation" => msg[m].kind = "end"
        /\ f = "child" => msg[m].kind = "child"
  <2>1. msg[m].kind \in {"process", "end", "child"}
    BY <1>1 DEF Over, IInv, Shape, MsgRecords
  <2>2. run' = [run EXCEPT !["completion"] =
            CASE msg[m].kind = "process" -> [Idle EXCEPT !.pc = "level", !.for = "handler"]
              [] msg[m].kind = "end"     -> [Idle EXCEPT !.pc = "end", !.for = "operation"]
              [] msg[m].kind = "child"   -> [Idle EXCEPT !.pc = "end", !.for = "child"]]
    BY <1>1 DEF ComplTake
  <2>3. CASE msg[m].kind = "process"
    BY <2>2, <2>3
  <2>4. CASE msg[m].kind = "end"
    BY <2>2, <2>4
  <2>5. CASE msg[m].kind = "child"
    BY <2>2, <2>5
  <2> QED
    BY <2>1, <2>3, <2>4, <2>5
<1>3. /\ run["completion"].pc = "idle" /\ handling' = {m}
      /\ UNCHANGED <<kind, nc, flags, cs, msg, inbox, plugin, wizard, wnd, children, app>>
  BY <1>1 DEF ComplTake
<1>4. /\ run'["completion"].pc = l /\ run'["completion"].for = f
      /\ run'["ui"] = run["ui"] /\ \A y \in Threads \ {"completion"} : run'[y] = run[y]
  <2>1. l \in Pcs
    BY DEF Pcs
  <2>2. PICK r : r = [Idle EXCEPT !.pc = l, !.for = f]
    OBVIOUS
  <2>3. PICK x \in Threads : x = "completion"
    BY ThreadFacts
  <2>4. run' = [run EXCEPT ![x] = r] /\ Shape
    BY <1>2, <2>2, <2>3 DEF IInv
  <2>5. f \in {"nothing", "operation", "child", "dispatch", "handler"}
    OBVIOUS
  <2>6. run'[x].pc = l /\ run'[x].for = f /\ \A y \in Threads \ {x} : run'[y] = run[y]
    BY <2>1, <2>2, <2>4, <2>5, StartsNew
  <2> QED
    BY <2>3, <2>6, ThreadFacts
<1>5. handling = {} /\ run["completion"].for = "nothing"
  BY <1>3, ThreadFacts DEF IInv, Control, Calm, Roles, Role
<1>6. CASE l = "level"
  <2>1. msg[m].kind = "process" /\ f = "handler" /\ ~ msg[m].held
    BY <1>1, <1>2, <1>6 DEF Over
  <2> QED
    BY <1>3, <1>4, <1>5, <1>6, <2>1, BatchTaken
<1>7. CASE l = "end"
  <2>1. f \in {"operation", "child"}
    BY <1>2, <1>7
  <2>2. Children' = Children /\ Counted' = Counted /\ (Ending' <=> Ending)
    BY <1>3, <1>4, <1>7 DEF Children, Counted, Ending
  <2>3. f = "child" => m \in Children'
    BY <1>2, <2>2 DEF Children
  <2>4. Role("completion")'
    BY <1>4, <1>7 DEF Role
  <2>5. CompletionRole'
    BY <1>2, <1>3, <1>4, <1>7, <2>1, <2>3 DEF CompletionRole
  <2>6. OneEnd'
    BY <1>3 DEF Calm, OneEnd
  <2>7. In("completion")' = In("completion")
    BY <1>3, <1>4, <1>5, <1>7, <2>1, InIs, ThreadFacts
  <2>8. Operations' = Operations
    <3>1. \A g \in {"operation", "child"} : Ended("completion", g)' <=> Ended("completion", g)
      BY <1>3, <1>4, <1>7 DEF Ended
    <3> QED
      BY <1>3, <1>4, <3>1, OperationsSame, ThreadFacts
  <2> QED
    BY <1>3, <1>4, <1>7, <2>2, <2>4, <2>5, <2>6, <2>7, <2>8, CompletionCalm DEF Using
<1> QED
  BY <1>6, <1>7

LEMMA UiReturnCalm ==
    ASSUME IInv, IInv', Calm, Return("ui")
    PROVE  Calm'
<1>1. /\ run["ui"].pc = "return" /\ run' = [run EXCEPT !["ui"] = Idle]
      /\ UNCHANGED <<kind, nc, flags, msg, handling, cs, inbox, plugin, xfer, wizard, wnd, children, app>>
  BY DEF Return
<1>2. /\ run'["ui"].pc = "idle" /\ run'["ui"].for = "nothing"
      /\ \A y \in Threads \ {"ui"} : run'[y] = run[y]
  BY <1>1, Rests, ThreadFacts DEF IInv
<1>3. run["ui"].for \notin {"operation", "child"}
  BY <1>1 DEF Calm, Roles, UiRole
<1>4. run'["completion"] = run["completion"]
  BY <1>2, ThreadFacts
<1>5. \A x \in Threads : run'[x].pc \in Using \cup {"tell_parent"} <=> run[x].pc \in Using \cup {"tell_parent"}
  BY <1>1, <1>2 DEF Using
<1>6. /\ Idling' <=> Idling
      /\ Quiet' <=> Quiet
      /\ Children' = Children /\ Counted' = Counted
  <2>1. Idling' <=> Idling
    BY <1>1, <1>5 DEF Idling
  <2> QED
    BY <1>1, <1>4, <2>1 DEF Quiet, Children, Counted
<1>7. Roles'
  <2>1. Roles
    BY DEF Calm
  <2>2. Role("ui")' /\ UiRole'
    BY <1>2 DEF Role, UiRole
  <2> QED
    BY <1>1, <1>2, <2>1, <2>2, RolesStep, ThreadFacts
<1>8. Working'
  <2>1. \A x \in Threads : run'[x].pc \in Using => run'[x] = run[x]
    BY <1>2 DEF Using
  <2>2. \A x \in Threads : run'[x].pc \in {"dispatch", "terminate", "conclude", "level", "close", "post"}
                             => run'[x] = run[x]
    BY <2>1 DEF Using
  <2>3. \A x, y \in Threads : run'[x].pc \in Using /\ run'[y].pc \in Using => x = y
    BY <2>1 DEF Calm, Working
  <2>4. Owner' = Owner
    BY <1>1 DEF Owner
  <2> QED
    BY <1>1, <2>2, <2>3, <2>4 DEF Calm, Working
<1>9. ChildrenCounted'
  <2>1. Asking' = Asking
    BY <1>2, <1>3 DEF Asking
  <2>2. \A x \in Threads : run'[x].pc \in Using => run[x].pc \in Using
    BY <1>1, <1>2 DEF Using
  <2> QED
    BY <1>1, <1>4, <1>6, <2>1, <2>2 DEF Calm, ChildrenCounted
<1>10. ToldOnce'
  BY <1>1, <1>6 DEF Calm, ToldOnce, Ending
<1>11. OneEnd'
  BY <1>1, <1>4 DEF Calm, OneEnd
<1>12. Leaving'
  <2>1. \A y \in Threads : y # "ui" => run'[y] = run[y]
    BY <1>2
  <2> QED
    BY <1>1, <1>2, <1>3, <2>1, LeavingSame DEF IInv, Calm, Ended
<1> QED
  BY <1>7, <1>8, <1>9, <1>10, <1>11, <1>12 DEF Calm

LEMMA CompletionReturnCalm ==
    ASSUME IInv, IInv', Calm, Return("completion")
    PROVE  Calm'
<1>1. /\ run["completion"].pc = "return" /\ run' = [run EXCEPT !["completion"] = Idle]
      /\ msg' = [m \in Messages |-> IF m \in handling THEN Free ELSE msg[m]] /\ handling' = {}
      /\ UNCHANGED <<kind, nc, flags, inbox, plugin, xfer, wizard, wnd, children, app>>
  BY DEF Return
<1>2. /\ run'["completion"].pc = "idle" /\ run'["completion"].for = "nothing"
      /\ run'["ui"] = run["ui"] /\ \A y \in Threads \ {"completion"} : run'[y] = run[y]
  BY <1>1, Rests, ThreadFacts DEF IInv
<1>3. /\ \A n \in Messages \ handling : msg'[n] = msg[n]
      /\ \A n \in Messages : n \in handling => msg'[n].kind = "free"
  BY <1>1, SMTT(60) DEF Free
<1>4. Children' = Children \ handling /\ Counted = Children \ handling /\ Counted' = Children'
  BY <1>1, <1>2, <1>3 DEF Children, Counted
<1>5. Ending' => Ending
  BY <1>3 DEF Ending
<1>6. Role("completion")' /\ CompletionRole'
  BY <1>1, <1>2 DEF Role, CompletionRole
<1>7. OneEnd'
  <2>1. \A n \in Messages : msg'[n].kind = "end" => n \notin handling /\ msg'[n] = msg[n]
    BY <1>3
  <2> QED
    BY <1>1, <2>1 DEF Calm, OneEnd
<1>8. In("completion")' = In("completion")
  <2>1. In("completion") = 0 /\ In("completion")' = 0
    BY <1>1, <1>2, InIs, ThreadFacts
  <2> QED
    BY <2>1
<1>9. Operations' = Operations
  <2>1. \A f \in {"operation", "child"} : Ended("completion", f)' <=> Ended("completion", f)
    BY <1>1, <1>2 DEF Ended
  <2> QED
    BY <1>1, <1>2, <2>1, OperationsSame, ThreadFacts
<1> QED
  BY <1>1, <1>2, <1>4, <1>5, <1>6, <1>7, <1>8, <1>9, CompletionCalm DEF Using

LEMMA ReturnCalm ==
    ASSUME IInv, IInv', Calm, NEW x \in Threads, Return(x)
    PROVE  Calm'
BY UiReturnCalm, CompletionReturnCalm DEF Threads

\* A child's END is over: the parent counts one child less, and is told when
\* that was the last.
LEMMA ChildUncountCalm ==
    ASSUME IInv, IInv', Calm, NEW x \in Threads, ChildUncount(x)
    PROVE  Calm'
<1>1. PICK l \in {"tell_parent", "return"} :
        /\ run[x].pc = "uncount_child" /\ nc' = [nc EXCEPT !.children = run[x].n - 1]
        /\ children' = children - 1 /\ goto(x, l)
        /\ l = "tell_parent" => run[x].n = 1
        /\ UNCHANGED <<kind, flags, cs, msg, inbox, plugin, xfer, handling, wizard, wnd, app>>
  BY DEF ChildUncount, LastChild
<1>2. x = "completion"
  BY <1>1 DEF Calm, Roles, UiRole, Threads
<1>3. run["completion"].for = "child"
  BY <1>1, <1>2 DEF Calm, Roles, CompletionRole
<1>4. PICK m \in Children : handling = {m}
  BY <1>3 DEF Calm, Roles, CompletionRole
<1>5. /\ run'["completion"].pc = l /\ run'["completion"].for = "child"
      /\ run'["ui"] = run["ui"] /\ \A y \in Threads \ {"completion"} : run'[y] = run[y]
  <2>1. l \in Pcs
    BY DEF Pcs
  <2>2. run'[x].pc = l /\ run'[x].for = run[x].for /\ \A y \in Threads \ {x} : run'[y] = run[y]
    BY <1>1, <2>1, GoesOnWith DEF IInv
  <2> QED
    BY <1>2, <1>3, <2>2, ThreadFacts
<1>6. run[x].n = nc.children
  BY <1>1, <1>2 DEF Calm, ChildrenCounted
<1>7. /\ nc'.children = nc.children - 1 /\ nc'.state = nc.state /\ nc'.alive = nc.alive
      /\ nc'.types = nc.types
  BY <1>1, <1>6 DEF IInv, Shape, NcRecords
<1>8. Counted = Children /\ Children' = Children /\ Counted' = Counted \ {m} /\ m \in Counted
  <2>1. Counted = Children
    BY <1>1, <1>2 DEF Counted
  <2>2. Children' = Children
    BY <1>1 DEF Children
  <2> QED
    BY <1>1, <1>4, <1>5, <2>1, <2>2 DEF Counted
<1>9. Idling /\ wnd = <<>>
  BY <1>8 DEF Calm, ChildrenCounted, ToldOnce
<1>10. /\ children \in Nat /\ children >= 1 /\ Asking \in {0, 1}
       /\ nc.children = children + Asking /\ nc.children >= 1
  <2>1. children \in Nat /\ children >= 1
    BY <1>8, KidFacts DEF IInv
  <2>2. Asking \in {0, 1} /\ nc.children = children + Asking
    BY DEF Asking, Calm, ChildrenCounted
  <2> QED
    BY <2>1, <2>2
<1>11. /\ IsFiniteSet(Counted') /\ Cardinality(Counted') \in Nat
       /\ Cardinality(Counted') <= children - 1
  <2>1. IsFiniteSet(Counted) /\ Cardinality(Counted) <= children
    BY KidFacts DEF IInv, Calm, ChildrenCounted
  <2>2. Cardinality(Counted') = Cardinality(Counted) - 1 /\ IsFiniteSet(Counted')
    BY <1>8, <2>1, FS_RemoveElement
  <2>3. Cardinality(Counted') \in Nat /\ Cardinality(Counted) \in Nat
    BY <2>1, <2>2, FS_CardinalityType
  <2> QED
    BY <1>10, <2>1, <2>2, <2>3
<1>12. l = "tell_parent" => nc'.children = 0 /\ Counted' = {}
  <2> SUFFICES ASSUME l = "tell_parent" PROVE nc'.children = 0 /\ Counted' = {}
    OBVIOUS
  <2>1. nc.children = 1
    BY <1>1, <1>6
  <2>2. Cardinality(Counted') = 0
    BY <1>10, <1>11, <2>1
  <2> QED
    BY <1>7, <1>11, <2>1, <2>2, FS_EmptySet
<1>13. \A y \in Threads : run'[y].pc \notin Using /\ run[y].pc \notin Using \cup {"tell_parent"}
  <2>1. \A y \in Threads : run[y].pc \notin Using \cup {"tell_parent"}
    BY <1>9 DEF Idling
  <2> QED
    BY <1>5, <2>1 DEF Using
<1>14. /\ ~ Ending /\ nc.alive
       /\ kind = "dialog" => wizard.page = "progress"
       /\ kind = "renew" => wizard.starts # 0
  <2>1. ~ Quiet
    BY <1>10 DEF Quiet
  <2>2. /\ kind = "dialog" => wizard.page = "progress"
        /\ kind = "renew" => wizard.starts # 0 /\ ~ Ending /\ nc.alive
    BY <2>1 DEF Calm, ToldOnce
  <2>3. kind = "dialog" => nc.alive /\ ~ Ending
    BY <2>2 DEF IInv, Open, IsOpen, Ending
  <2>4. kind \in {"dialog", "renew"}
    BY DEF IInv, Shape
  <2> QED
    BY <2>2, <2>3, <2>4
<1>15. Roles'
  <2>1. Role("ui")' /\ UiRole'
    BY <1>1, <1>5, ThreadFacts DEF Calm, Roles, Role, UiRole
  <2>2. Role("completion")'
    BY <1>5 DEF Role
  <2>3. \A n \in handling : msg[n].kind # "end"
    BY <1>4 DEF Children
  <2>4. CompletionRole'
    BY <1>1, <1>4, <1>5, <1>8, <2>3 DEF CompletionRole
  <2> QED
    BY <2>1, <2>2, <2>4 DEF Roles, Threads
<1>16. Working'
  <2>1. \A y \in Threads : run'[y].pc \notin {"dispatch", "terminate", "conclude", "level", "close", "post"}
    BY <1>13 DEF Using
  <2> QED
    BY <1>13, <2>1 DEF Working
<1>17. ChildrenCounted'
  <2>1. Asking' = Asking
    BY <1>5 DEF Asking
  <2>2. nc'.children = children' + Asking'
    BY <1>1, <1>7, <1>10, <2>1
  <2>3. IsFiniteSet(Children')
    BY <1>8 DEF Calm, ChildrenCounted
  <2>4. Cardinality(Counted') <= children'
    BY <1>1, <1>11
  <2>5. Counted' # {} => Idling'
    <3> SUFFICES ASSUME Counted' # {} PROVE Idling'
      OBVIOUS
    <3>1. l = "return"
      BY <1>12
    <3>2. \A y \in Threads : run'[y].pc \notin Using \cup {"tell_parent"}
      BY <1>5, <1>13, <3>1 DEF Threads
    <3> QED
      BY <1>7, <1>9, <3>2 DEF Idling
  <2>6. run'["completion"].pc = "tell_parent" =>
          nc'.state = "none" /\ nc'.children = 0 /\ wnd' = <<>>
    BY <1>1, <1>5, <1>7, <1>9, <1>12 DEF Idling
  <2>7. run'["completion"].pc # "uncount_child"
    BY <1>5
  <2> QED
    BY <1>13, <2>2, <2>3, <2>4, <2>5, <2>6, <2>7 DEF ChildrenCounted
<1>18. ToldOnce'
  <2>1. ~ Ending'
    BY <1>1, <1>14 DEF Ending
  <2> QED
    BY <1>1, <1>7, <1>9, <1>14, <2>1 DEF ToldOnce
<1>19. OneEnd'
  BY <1>1, <1>14 DEF OneEnd, Ending
<1>20. Leaving'
  <2>1. In(x) = 0 /\ In(x)' = 0
    BY <1>1, <1>2, <1>3, <1>5, InIs
  <2>2. ChildEnded = 1 /\ ChildEnded' = 0
    BY <1>1, <1>2, <1>3, <1>5 DEF ChildEnded, Ended
  <2>3. Alive' = Alive
    <3>1. ~ Ended("completion", "operation") /\ ~ Ended("completion", "operation")'
      BY <1>3, <1>5 DEF Ended
    <3> QED
      BY <1>7, <3>1 DEF Alive
  <2>4. Alive \in {0, 1}
    BY Sums
  <2>5. Operations' = Operations
    BY <1>1, <1>10, <2>2, <2>3, <2>4, Sums, SumsNext
  <2>6. Operations \in Int /\ app.pending \in Int
    BY OperationsInt DEF IInv, Shape, AppRecords
  <2>7. ~ app'.window => app'.exiting /\ Operations' = 0
    BY <1>1, <2>5 DEF Calm, Leaving, ExitNotDuringOperation
  <2> DEFINE i == 0
             o == 0
  <2>8. In(x)' = In(x) + i /\ Operations' = Operations + o /\ app'.pending = app.pending + (i + o)
    BY <1>1, <2>1, <2>5, <2>6
  <2>9. i \in Int /\ o \in Int
    OBVIOUS
  <2>10. \A y \in Threads \ {x} : run'[y] = run[y]
    BY <1>2, <1>5
  <2> HIDE DEF i, o
  <2> QED
    BY <2>7, <2>8, <2>9, <2>10, LeavingCounts DEF IInv
<1> QED
  BY <1>15, <1>16, <1>17, <1>18, <1>19, <1>20 DEF Calm

-----------------------------------------------------------------------------
(* The theorems.                                                            *)

\* Every initial state, one thread at the beginning of the operation and the
\* other idle, satisfies the invariant.
THEOREM EndInitHolds == Init => EInv
<1> SUFFICES ASSUME Init PROVE EInv
  OBVIOUS
<1>1. IInv
  BY InitHolds
<1>2. \A m \in Messages : msg[m].kind = "free"
  BY DEF Init, Free
<1>3. \A x \in Threads :
        /\ run[x].exiting = FALSE
        /\ \/ (x = Owner /\ run[x].pc = "begin" /\ run[x].for = "operation")
           \/ (x # Owner /\ run[x].pc = "idle" /\ run[x].for = "nothing")
  <2>1. ASSUME NEW x \in Threads, x = Owner
        PROVE  run[x].pc = "begin" /\ run[x].for = "operation" /\ run[x].exiting = FALSE
    BY <2>1 DEF Init, Owner, Idle
  <2>2. ASSUME NEW x \in Threads, x # Owner
        PROVE  run[x].pc = "idle" /\ run[x].for = "nothing" /\ run[x].exiting = FALSE
    BY <2>2 DEF Init, Owner, Idle
  <2> QED
    BY <2>1, <2>2
<1>4. /\ nc.state = "none" /\ nc.children = 0 /\ ~ nc.alive /\ wizard.page = "none" /\ wnd = <<>>
      /\ children = 0 /\ handling = {} /\ app.pending = 0 /\ ~ app.exiting /\ app.window
  BY DEF Init
<1>5. Children = {} /\ Counted = {} /\ ~ Ending
  BY <1>2 DEF Children, Counted, Ending
<1>6. Quiet /\ Idling
  BY <1>3, <1>4 DEF Quiet, Idling, Using
<1>7. Roles
  BY <1>3, <1>4, ThreadFacts DEF Roles, Role, UiRole, CompletionRole
<1>8. Working
  BY <1>3, <1>4 DEF Working, Using
<1>9. ChildrenCounted
  <2>1. run["ui"].for # "child" /\ run["completion"].pc \notin {"uncount_child", "tell_parent"}
    BY <1>3, ThreadFacts
  <2>2. Asking = 0
    BY <2>1 DEF Asking
  <2>3. IsFiniteSet(Children) /\ Cardinality(Counted) = 0
    BY <1>5, FS_EmptySet
  <2> QED
    BY <1>4, <1>5, <2>1, <2>2, <2>3 DEF ChildrenCounted
<1>10. ToldOnce
  BY <1>4, <1>5, <1>6 DEF ToldOnce
<1>11. OneEnd
  BY <1>2 DEF OneEnd
<1>12. Leaving
  <2>1. In("ui") = 0 /\ In("completion") = 0
    BY <1>3, ThreadFacts DEF In, Counting
  <2>2. Alive = 0 /\ ChildEnded = 0
    BY <1>3, <1>4, ThreadFacts DEF Alive, ChildEnded, Ended
  <2>3. Operations = 0
    BY <1>4, <2>2, Sums
  <2> QED
    BY <1>4, <2>1, <2>3, Sums DEF Leaving, ExitNotDuringOperation
<1> QED
  BY <1>1, <1>7, <1>8, <1>9, <1>10, <1>11, <1>12 DEF EInv

LEMMA StutterCalm ==
    ASSUME IInv, IInv', Calm, UNCHANGED vars
    PROVE  Calm'
BY PluginCalm DEF vars

LEMMA ThreadCalm ==
    ASSUME Deviations = {}, IInv, IInv', Calm, NEW x \in Threads, ThreadStep(x)
    PROVE  Calm'
<1>1. CASE BeginAccepted(x)
  BY <1>1, OperationBeginsCalm, ChildBeginsCalm
<1>2. CASE \/ BeginCount(x) \/ BeginRefused(x) \/ EndRead(x) \/ EndCount(x)
           \/ ExitCount(x) \/ ExitWindow(x) \/ Destroy(x) \/ ChildReport(x)
           \/ ChildUncount(x) \/ TellParent(x) \/ Return(x)
  BY <1>2, BeginCountCalm, BeginRefusedCalm, EndReadCalm, EndCountCalm, ExitCountCalm,
     ExitWindowCalm, DestroyCalm, ChildReportCalm, ChildUncountCalm, TellParentCalm, ReturnCalm
<1>3. CASE \/ Dispatch(x) \/ Terminate(x) \/ LevelMark(x) \/ LevelClose(x) \/ LevelPost(x)
           \/ LevelCommit(x) \/ Conclude(x)
  BY <1>3, DispatchCalm, TerminateCalm, LevelMarkCalm, LevelCloseCalm, LevelPostCalm,
     LevelCommitCalm, ConcludeCalm
<1> QED
  BY <1>1, <1>2, <1>3 DEF ThreadStep

\* Every step keeps the invariant, as long as the three orders of events of
\* README.md do not occur: a Cancel handled between the end of the processing and
\* the wizard's being told, a child that ends while its parent processes, an
\* identity derived while the application exits.
THEOREM EndStepHolds == ASSUME Deviations = {} PROVE EInv /\ [Next]_vars => EInv'
<1> SUFFICES ASSUME EInv, [Next]_vars PROVE EInv'
  OBVIOUS
<1>1. IInv /\ Calm
  BY DEF EInv, Calm
<1>2. IInv'
  BY <1>1, StepHolds
<1> SUFFICES Calm'
  BY <1>2 DEF EInv, Calm
<1>3. CASE UNCHANGED vars
  BY <1>1, <1>2, <1>3, StutterCalm
<1>4. ASSUME NEW x \in Threads, ThreadStep(x) PROVE Calm'
  BY <1>1, <1>2, <1>4, ThreadCalm
<1>5. ASSUME NEW t \in Types, PluginStep(t) PROVE Calm'
  BY <1>1, <1>2, <1>5, PluginTakeCalm, PluginRespondCalm, PluginSilentCalm, PluginLeaveCalm,
     PluginDoneCalm DEF PluginStep
<1>6. CASE SystemStep
  BY <1>1, <1>2, <1>4, <1>5, <1>6, RenewReadyCalm, ComplTakeCalm, ChildEndsCalm,
     OnProcessCompleteCalm DEF SystemStep
<1>7. CASE UserStep
  <2>1. CASE Cancel
    BY <1>1, <1>2, <2>1, CancelDispatchesCalm, CancelAbortsCalm
  <2>2. CASE UserExits \/ Finish \/ Close \/ \E t \in Types : PluginDerive(t)
    BY <1>1, <1>2, <2>2, UserExitsCalm, FinishCalm, CloseCalm, PluginDeriveCalm
  <2> QED
    BY <1>7, <2>1, <2>2 DEF UserStep
<1> QED
  BY <1>3, <1>6, <1>7 DEF Next

\* The invariant of the whole operation, from its beginning to the destruction
\* of its object: one thread at the processing, the wizard told once, every
\* child counted, one END, the exit after the last operation.
THEOREM EndInvariance == ASSUME Deviations = {} PROVE Spec => []EInv
<1>1. Init => EInv
  BY EndInitHolds
<1>2. EInv /\ [Next]_vars => EInv'
  BY EndStepHolds
<1> QED
  BY <1>1, <1>2, PTL DEF Spec

\* An object that ends, or does not exist, is at rest: no thread is at it and no
\* batch is out.
LEMMA AtRest ==
    ASSUME EInv, ~ nc.alive \/ (Ending /\ ~ IsOpen)
    PROVE  Quiet
BY DEF EInv, IInv, Shape, Open, IsOpen, ToldOnce

\* The object is destroyed when no type takes part and no dispatch is in progress
\* (the assertions of creddlg.c:86-87).
THEOREM DestroyedIdleCorrect == ASSUME Deviations = {} PROVE Spec => []DestroyedIdle
<1>1. EInv => DestroyedIdle
  <2> SUFFICES ASSUME EInv, NEW x \in Threads, run[x].pc = "destroy"
               PROVE  nc.types = {} /\ nc.state = "none"
    BY DEF DestroyedIdle
  <2>1. x = "completion" /\ run[x].for = "operation"
    <3>1. run[x].for = "operation"
      BY DEF EInv, IInv, Control
    <3>2. run["ui"].pc # "destroy"
      BY DEF EInv, Roles, UiRole
    <3> QED
      BY <3>1, <3>2 DEF Threads
  <2>2. PICK m \in Messages : msg[m].kind = "end" /\ handling = {m}
    BY <2>1 DEF EInv, Roles, CompletionRole
  <2>3. msg[m].todo = {}
    BY <2>2 DEF EInv, IInv, Delivery, Over
  <2>4. nc.types = {}
    <3>1. \A t \in Types : t \notin nc.types
      BY <2>2, <2>3 DEF EInv, OneEnd
    <3>2. nc.types \subseteq Types
      BY DEF EInv, IInv, Shape, NcRecords
    <3> QED
      BY <3>1, <3>2
  <2>5. ~ IsOpen /\ Ending
    BY <2>2 DEF EInv, IInv, Open, Ending
  <2> QED
    BY <2>4, <2>5, AtRest DEF Quiet, Idling
<1> QED
  BY <1>1, EndInvariance, PTL

\* Once the object is gone, and before there is one, no thread, message, plug-in
\* or child refers to it.
THEOREM NotUsedAfterCorrect == ASSUME Deviations = {} PROVE Spec => []NotUsedAfter
<1>1. EInv => NotUsedAfter
  <2> SUFFICES ASSUME EInv, ~ nc.alive
               PROVE  /\ \A m \in Messages : msg[m].kind # "free" => m \in handling
                      /\ \A t \in Types : plugin[t].pc = "idle"
                      /\ \A x \in Threads : run[x].pc \notin Using
                      /\ children = 0
    BY DEF NotUsedAfter
  <2>1. Quiet /\ Shape /\ Calm
    BY AtRest DEF EInv, IInv, Calm
  <2>2. children = 0 /\ Counted = {} /\ nc.state = "none" /\ \A x \in Threads : run[x].pc \notin Using
    BY <2>1, QuietFacts
  <2>3. ASSUME NEW m \in Messages, msg[m].kind # "free" PROVE m \in handling
    <3>1. msg[m].kind \in {"process", "end", "child"}
      BY <2>1, <2>3 DEF Shape, MsgRecords
    <3>2. CASE msg[m].kind = "process"
      <4>1. ~ msg[m].held
        BY <2>2 DEF EInv, IInv, Batches, Using
      <4>2. ~ Outstanding(m)
        BY <2>2 DEF EInv, IInv, Batches
      <4> QED
        BY <3>2, <4>1, <4>2 DEF Outstanding
    <3>3. CASE msg[m].kind = "end"
      BY <3>3 DEF EInv, OneEnd
    <3>4. CASE msg[m].kind = "child"
      BY <2>2, <3>4 DEF Counted, Children
    <3> QED
      BY <3>1, <3>2, <3>3, <3>4
  <2>4. ASSUME NEW t \in Types, plugin[t].pc # "idle" PROVE FALSE
    <3>1. plugin[t].m \in Messages /\ t \in msg[plugin[t].m].todo
      BY <2>4 DEF EInv, IInv, Delivery
    <3>2. msg[plugin[t].m].kind # "free"
      BY <3>1 DEF EInv, IInv, Delivery
    <3>3. msg[plugin[t].m].todo = {}
      BY <2>3, <3>1, <3>2 DEF EInv, IInv, Delivery, Over
    <3> QED
      BY <3>1, <3>3
  <2> QED
    BY <2>2, <2>3, <2>4
<1> QED
  BY <1>1, EndInvariance, PTL

\* There is one batch at a time, and dispatch_state and last_dispatch say so, at
\* all times: no batch survives the object.
THEOREM OneBatchCorrect == ASSUME Deviations = {} PROVE Spec => []OneBatch
<1>1. EInv /\ (nc.alive => OneBatch) => OneBatch
  <2> SUFFICES ASSUME EInv, ~ nc.alive PROVE OneBatch
    OBVIOUS
  <2>1. nc.state = "none"
    BY AtRest DEF Quiet, Idling
  <2> QED
    BY <2>1 DEF EInv, IInv, Batches, OneBatch
<1> QED
  BY <1>1, EndInvariance, OneBatchWhileAlive, PTL

\* A dispatch is never started while one is in progress (the assertion of
\* credfuncs.c:1551-1553).
THEOREM DispatchWhenIdleCorrect == ASSUME Deviations = {} PROVE Spec => []DispatchWhenIdle
<1>1. EInv => DispatchWhenIdle
  BY DEF EInv, Working, DispatchWhenIdle
<1> QED
  BY <1>1, EndInvariance, PTL

\* pending_new_cred_ops is the number of the operations, those being begun or
\* refused included.
THEOREM PendingCorrect == ASSUME Deviations = {} PROVE Spec => []PendingExact
<1>1. EInv => PendingExact
  BY DEF EInv, Leaving
<1> QED
  BY <1>1, EndInvariance, PTL

\* The main window is not destroyed while an accepted operation goes on, wherever
\* the request to exit falls between counting and testing.
THEOREM ExitCorrect == ASSUME Deviations = {} PROVE Spec => []ExitNotDuringOperation
<1>1. EInv => ExitNotDuringOperation
  BY DEF EInv, Leaving
<1> QED
  BY <1>1, EndInvariance, PTL
=============================================================================
