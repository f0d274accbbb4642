--------------------------- MODULE JsonOutProofs ---------------------------
(***************************************************************************)
(* Proofs about JsonOut, for any number of uplinks and of events.          *)
(***************************************************************************)
EXTENDS JsonOut, Integers, TLAPS

\* The initial values have their types.
LEMMA TypeInit == ASSUME Init PROVE TypeOK
<1>1. <<>> \in Seq(Nodes)
  OBVIOUS
<1>2. /\ offered \in [Uplinks -> Seq(Nodes)]
      /\ received \in [Uplinks -> Seq(Nodes)]
  BY <1>1 DEF Init
<1>3. /\ form \in Seq(Nodes)
      /\ up \in 1..(NumUplinks + 1)
      /\ nodes \in 0..PushLimit
      /\ next \in [Nodes -> Pointers]
  BY <1>1, JsonOutAssumption
     DEF JsonOutAssumption, Init, Pointers, NULL
<1> QED
  BY <1>2, <1>3 DEF Init, TypeOK, Pointers, NULL, MainPcs, ThreadPcs

\* No step of main() or of jsonout_thread breaks the types.
LEMMA TypeStep == ASSUME TypeOK, [Next]_vars PROVE TypeOK'
<1> USE JsonOutAssumption
    DEF JsonOutAssumption, TypeOK, MainPcs, ThreadPcs, Pointers, Nodes, NULL,
        list, batch, history
<1>1. CASE jsonout_init
  BY <1>1 DEF jsonout_init
<1>2. CASE PushAlloc
  BY <1>2 DEF PushAlloc
<1>3. CASE MainPush
  <2>1. CASE PushLink
    <3>1. next' \in [Nodes -> Pointers] /\ out_json_que' \in Pointers
      BY <2>1 DEF PushLink
    <3> QED
      BY <2>1, <3>1 DEF PushLink
  <2>2. CASE PushLock \/ PushTail \/ PushUnlock
    BY <2>2 DEF PushLock, PushTail, PushUnlock
  <2> QED
    BY <1>3, <2>1, <2>2 DEF MainPush
<1>4. CASE jsonout_deinit \/ Join
  BY <1>4 DEF jsonout_deinit, Join
<1>5. CASE CheckDie \/ Peek \/ GrabLock \/ PostDone
  BY <1>5 DEF CheckDie, Peek, GrabLock, PostDone
<1>6. CASE GrabOut \/ GrabTail \/ GrabQue
  BY <1>6 DEF GrabOut, GrabTail, GrabQue
<1>7. CASE GrabUnlock \/ FormDone
  <2>1. <<>> \in Seq(Nodes)
    OBVIOUS
  <2> QED
    <3>1. CASE GrabUnlock
      BY <3>1, <2>1 DEF GrabUnlock
    <3>2. CASE FormDone
      BY <3>2 DEF FormDone
    <3> QED
      BY <1>7, <3>1, <3>2
<1>8. CASE FormAdd
  <2>1. qp \in Nodes
    BY <1>8 DEF FormAdd
  <2> QED
    BY <1>8, <2>1 DEF FormAdd
<1>9. CASE jsonout_post_single
  <2>1. up \in Uplinks
    BY <1>9 DEF jsonout_post_single
  <2>2. offered' \in [Uplinks -> Seq(Nodes)]
    BY <1>9, <2>1 DEF jsonout_post_single
  <2>3. received' \in [Uplinks -> Seq(Nodes)]
    <3>1. received[up] \o form \in Seq(Nodes)
      BY <2>1
    <3> QED
      BY <1>9, <3>1 DEF jsonout_post_single
  <2>4. up' \in 1..(NumUplinks + 1)
    BY <1>9, <2>1 DEF jsonout_post_single, Uplinks
  <2> QED
    BY <1>9, <2>2, <2>3, <2>4 DEF jsonout_post_single
<1>10. CASE Exited \/ UNCHANGED vars
  BY <1>10 DEF Exited, vars
<1> QED
  BY <1>1, <1>2, <1>3, <1>4, <1>5, <1>6, <1>7, <1>8, <1>9, <1>10
     DEF Next, MainStep, jsonout_thread

\* The type invariant: the variables of out_json.c keep their types in every
\* step of main() and of jsonout_thread.
THEOREM TypeCorrect == Spec => []TypeOK
<1>1. Init => TypeOK
  BY TypeInit
<1>2. TypeOK /\ [Next]_vars => TypeOK'
  BY TypeStep
<1> QED
  BY <1>1, <1>2, PTL DEF Spec

-----------------------------------------------------------------------------
\* The inductive invariant holds initially.
LEMMA IndInit == ASSUME Init PROVE IndInv
<1> USE DEF Init, Pushed, First, HoldsBatch, NULL
<1>1. TypeOK
  BY TypeInit
<1>2. MutexInv /\ ListInv /\ TailInv /\ BatchInv /\ FormInv /\ ExitInv
  BY DEF MutexInv, ListInv, TailInv, BatchInv, FormInv, ExitInv
<1>3. OfferedInv
  BY DEF OfferedInv, OfferedTo
<1> QED
  BY <1>1, <1>2, <1>3 DEF IndInv

\* jsonout_push links its node at the end of the list, outside the batch.
LEMMA PushLinkStep == ASSUME IndInv, PushLink PROVE IndInv'
<1>0. TypeOK' /\ [Next]_vars
  BY TypeStep DEF IndInv, Next, MainStep, MainPush
<1>1. /\ nodes \in 1..PushLimit /\ PushLimit \in Nat
      /\ next \in [1..PushLimit -> 0..PushLimit] /\ next[nodes] = 0
      /\ out_json_que \in 0..PushLimit
      /\ mut = "main"
  BY JsonOutAssumption
     DEF JsonOutAssumption, PushLink, IndInv, TypeOK, ListInv, MutexInv, Nodes,
         Pointers, NULL
<1>2. tpc \notin {"grab_out", "grab_tail", "grab_que", "grab_unlock"}
  BY <1>1 DEF PushLink, IndInv, MutexInv
<1>3. Pushed = nodes - 1 /\ Pushed' = nodes
  BY DEF PushLink, Pushed
<1>4. First = (IF out_json_que = 0 THEN nodes ELSE out_json_que)
  BY <1>1, <1>3 DEF First, NULL
<1>5. /\ First \in 1..nodes /\ out_json_que \in 0..(nodes - 1)
      /\ \A n \in First..(nodes - 1) :
           next[n] = IF n = nodes - 1 THEN 0 ELSE n + 1
  BY <1>1, <1>3, <1>4 DEF IndInv, ListInv, NULL
<1>6. out_json_tail = IF out_json_que = 0 THEN 0 ELSE nodes - 1
  BY <1>2, <1>3 DEF IndInv, TailInv, PushLink, NULL
<1>7. /\ out_json_que' = IF out_json_que = 0 THEN nodes ELSE out_json_que
      /\ next' = IF out_json_que = 0 THEN next
                 ELSE [next EXCEPT ![nodes - 1] = nodes]
  BY <1>1, <1>4, <1>5, <1>6 DEF PushLink, NULL
<1>8. First' = First
  BY <1>1, <1>4, <1>7 DEF First, NULL
<1>9. \A n \in 1..PushLimit :
        next'[n] = IF out_json_que # 0 /\ n = nodes - 1 THEN nodes ELSE next[n]
  BY <1>1, <1>7
<1>10. ListInv'
  <2>1. \A n \in First..nodes : next'[n] = IF n = nodes THEN 0 ELSE n + 1
    BY <1>1, <1>4, <1>5, <1>9
  <2> QED
    BY <1>1, <1>3, <1>5, <1>7, <1>8, <2>1 DEF ListInv, PushLink, NULL
<1>11. TailInv'
  BY <1>1, <1>2, <1>4, <1>5, <1>6, <1>7 DEF TailInv, PushLink, NULL
<1>12. HoldsBatch' <=> HoldsBatch
  BY DEF PushLink, HoldsBatch
<1>13. BatchInv'
  <2>1. CASE HoldsBatch
    <3>1. /\ out \in 1..(First - 1)
          /\ \A n \in out..(First - 1) :
               next[n] = IF n = First - 1 THEN 0 ELSE n + 1
      BY <2>1 DEF IndInv, BatchInv, NULL
    <3>2. \A n \in out..(First - 1) : next'[n] = next[n]
      BY <1>1, <1>4, <1>5, <1>9, <3>1
    <3>3. out' = out /\ tpc' = tpc
      BY DEF PushLink, batch
    <3> QED
      BY <1>2, <1>8, <1>12, <2>1, <3>1, <3>2, <3>3
         DEF BatchInv, HoldsBatch, NULL
  <2>2. CASE ~HoldsBatch
    BY <1>1, <1>2, <1>7, <1>12, <2>2
       DEF BatchInv, PushLink, NULL, IndInv
  <2> QED
    BY <2>1, <2>2
<1>14. FormInv'
  BY <1>8 DEF IndInv, FormInv, PushLink, batch
<1>15. OfferedInv'
  BY <1>8, <1>12 DEF IndInv, OfferedInv, OfferedTo, PushLink, batch, history
<1>16. MutexInv' /\ ExitInv'
  BY <1>1, <1>2 DEF IndInv, MutexInv, ExitInv, PushLink
<1> QED
  BY <1>0, <1>10, <1>11, <1>13, <1>14, <1>15, <1>16 DEF IndInv

\* jsonout_push moves the tail to its node.
LEMMA PushTailStep == ASSUME IndInv, PushTail PROVE IndInv'
<1>0. TypeOK' /\ [Next]_vars
  BY TypeStep DEF IndInv, Next, MainStep, MainPush
<1>1. /\ mut = "main"
      /\ tpc \notin {"grab_out", "grab_tail", "grab_que", "grab_unlock"}
  BY DEF PushTail, IndInv, MutexInv
<1>2. Pushed = nodes /\ Pushed' = nodes
  BY DEF PushTail, Pushed
<1>3. First' = First
  BY <1>2 DEF PushTail, First
<1>4. HoldsBatch' <=> HoldsBatch
  BY DEF PushTail, HoldsBatch
<1>5. out_json_que # NULL
  BY DEF IndInv, ListInv, PushTail
<1>6. TailInv'
  BY <1>1, <1>2, <1>5 DEF TailInv, PushTail
<1>7. ListInv'
  BY <1>2, <1>3 DEF IndInv, ListInv, PushTail
<1>8. BatchInv'
  BY <1>1, <1>3, <1>4 DEF IndInv, BatchInv, PushTail, batch
<1>9. FormInv'
  BY <1>3 DEF IndInv, FormInv, PushTail, batch
<1>10. OfferedInv'
  BY <1>3, <1>4 DEF IndInv, OfferedInv, OfferedTo, PushTail, batch, history
<1>11. MutexInv' /\ ExitInv'
  BY <1>1 DEF IndInv, MutexInv, ExitInv, PushTail
<1> QED
  BY <1>0, <1>6, <1>7, <1>8, <1>9, <1>10, <1>11 DEF IndInv

\* jsonout_thread empties the list: what was the list becomes the batch.
LEMMA GrabQueStep == ASSUME IndInv, GrabQue PROVE IndInv'
<1>0. TypeOK' /\ [Next]_vars
  BY TypeStep DEF IndInv, Next, jsonout_thread
<1>1. /\ mut = "exporter"
      /\ mpc \notin {"push_link", "push_tail", "push_unlock"}
      /\ out = out_json_que /\ out_json_que # NULL
      /\ nodes \in Nat
  BY DEF GrabQue, IndInv, MutexInv, BatchInv, TypeOK
<1>2. Pushed' = Pushed /\ Pushed \in Int
  BY <1>1 DEF GrabQue, Pushed
<1>3. /\ First = out_json_que /\ First' = Pushed + 1
      /\ out \in 1..Pushed
      /\ \A n \in out..Pushed : next[n] = IF n = Pushed THEN NULL ELSE n + 1
  BY <1>1, <1>2 DEF GrabQue, First, IndInv, ListInv, NULL
<1>4. ~HoldsBatch /\ HoldsBatch'
  BY DEF GrabQue, HoldsBatch
<1>5. ListInv'
  BY <1>1, <1>2, <1>3 DEF IndInv, ListInv, GrabQue, NULL
<1>6. TailInv'
  BY DEF IndInv, TailInv, GrabQue
<1>7. BatchInv'
  BY <1>2, <1>3, <1>4 DEF BatchInv, GrabQue, batch
<1>8. OfferedInv'
  BY <1>1, <1>2, <1>3, <1>4
     DEF IndInv, OfferedInv, OfferedTo, GrabQue, batch, history
<1>9. MutexInv' /\ FormInv' /\ ExitInv'
  BY <1>1 DEF IndInv, MutexInv, FormInv, ExitInv, GrabQue
<1> QED
  BY <1>0, <1>5, <1>6, <1>7, <1>8, <1>9 DEF IndInv

\* jsonout_post_all adds the next event of the batch to the form.
LEMMA FormAddStep == ASSUME IndInv, FormAdd PROVE IndInv'
<1>0. TypeOK' /\ [Next]_vars
  BY TypeStep DEF IndInv, Next, jsonout_thread
<1>1. Pushed' = Pushed
  BY DEF FormAdd, Pushed, list
<1>2. First' = First
  BY <1>1 DEF FormAdd, First, list
<1>3. HoldsBatch /\ HoldsBatch'
  BY DEF FormAdd, HoldsBatch
<1>4. /\ form \in Seq(Nodes) /\ qp \in Nodes
      /\ out_json_que \in Nat /\ nodes \in Nat
  BY DEF FormAdd, IndInv, TypeOK, Pointers, Nodes, NULL
<1>5. /\ form' = Append(form, qp)
      /\ qp' = next[qp]
      /\ out' = out /\ next' = next
  BY DEF FormAdd, list
<1>6. First \in Int /\ out \in 1..(First - 1) /\ out \in Int
  BY <1>3, <1>4 DEF IndInv, BatchInv, First, Pushed
<1>7. /\ Len(form) \in Nat /\ Len(form) < First - out
      /\ qp = out + Len(form)
  BY <1>4, <1>6 DEF FormAdd, IndInv, FormInv, NULL
<1>8. /\ Len(form') = Len(form) + 1
      /\ \A i \in 1..Len(form') : form'[i] = out + i - 1
  <2>1. /\ Len(form') = Len(form) + 1
        /\ \A i \in 1..(Len(form) + 1) :
             form'[i] = IF i = Len(form) + 1 THEN qp ELSE form[i]
    BY <1>4, <1>5
  <2>2. \A i \in 1..Len(form) : form[i] = out + i - 1
    BY DEF FormAdd, IndInv, FormInv
  <2> QED
    BY <1>6, <1>7, <2>1, <2>2
<1>9. qp' = IF qp = First - 1 THEN NULL ELSE qp + 1
  BY <1>3, <1>5, <1>6, <1>7 DEF IndInv, BatchInv
<1>10. FormInv'
  BY <1>2, <1>5, <1>6, <1>7, <1>8, <1>9 DEF FormInv, FormAdd
<1>11. MutexInv' /\ ListInv' /\ ExitInv'
  BY <1>1, <1>2 DEF IndInv, MutexInv, ListInv, ExitInv, FormAdd, list
<1>12. TailInv' /\ BatchInv'
  BY <1>1, <1>2, <1>3 DEF IndInv, TailInv, BatchInv, FormAdd, list
<1>13. OfferedInv'
  BY <1>2, <1>3 DEF IndInv, OfferedInv, OfferedTo, FormAdd, history
<1> QED
  BY <1>0, <1>10, <1>11, <1>12, <1>13 DEF IndInv

\* The walk ends at the last event of the batch.
LEMMA FormDoneStep == ASSUME IndInv, FormDone PROVE IndInv'
<1>0. TypeOK' /\ [Next]_vars
  BY TypeStep DEF IndInv, Next, jsonout_thread
<1>1. Pushed' = Pushed
  BY DEF FormDone, Pushed, list
<1>2. First' = First
  BY <1>1 DEF FormDone, First, list
<1>3. HoldsBatch /\ HoldsBatch'
  BY DEF FormDone, HoldsBatch
<1>4. /\ Len(form) \in Nat /\ out \in Nat /\ out >= 1
      /\ Len(form) = First - out
  <2>1. form \in Seq(Nodes) /\ Len(form) \in Nat
    BY DEF IndInv, TypeOK
  <2>2. out_json_que \in Nat /\ nodes \in Nat
    BY DEF IndInv, TypeOK, Pointers, Nodes, NULL
  <2>3. First \in Int /\ out \in 1..(First - 1)
    BY <1>3, <2>2 DEF IndInv, BatchInv, First, Pushed
  <2> QED
    BY <2>1, <2>3 DEF FormDone, IndInv, FormInv, NULL
<1>5. FormInv'
  BY <1>2, <1>4 DEF IndInv, FormInv, FormDone
<1>6. OfferedInv'
  BY <1>2, <1>3 DEF IndInv, OfferedInv, OfferedTo, FormDone, history, Uplinks
<1>7. MutexInv' /\ ListInv' /\ ExitInv'
  BY <1>1, <1>2 DEF IndInv, MutexInv, ListInv, ExitInv, FormDone, list
<1>8. TailInv' /\ BatchInv'
  BY <1>1, <1>2, <1>3 DEF IndInv, TailInv, BatchInv, FormDone, list
<1> QED
  BY <1>0, <1>5, <1>6, <1>7, <1>8 DEF IndInv

\* What a request to an uplink adds to what the uplink was offered.
LEMMA PostSingleExtends ==
  ASSUME IndInv, jsonout_post_single
  PROVE  /\ up \in Uplinks /\ out \in 1..(First - 1) /\ First \in Int
         /\ Len(offered[up]) = out - 1
         /\ Len(form) = First - out
         /\ Len(offered'[up]) = First - 1
         /\ \A i \in 1..(First - 1) : offered'[up][i] = i
<1>1. /\ form \in Seq(Nodes) /\ up \in Uplinks
      /\ offered \in [Uplinks -> Seq(Nodes)]
      /\ out_json_que \in Nat /\ nodes \in Nat
  BY DEF jsonout_post_single, IndInv, TypeOK, Pointers, Nodes, NULL
<1>2. First \in Int /\ out \in 1..(First - 1)
  BY <1>1 DEF jsonout_post_single, IndInv, BatchInv, HoldsBatch, First, Pushed
<1>3. /\ Len(form) = First - out
      /\ \A i \in 1..Len(form) : form[i] = out + i - 1
  BY DEF jsonout_post_single, IndInv, FormInv
<1>4. ~(up < up)
  BY <1>1 DEF Uplinks
<1>5. /\ Len(offered[up]) = out - 1
      /\ \A i \in 1..Len(offered[up]) : offered[up][i] = i
  BY <1>1, <1>4
     DEF jsonout_post_single, IndInv, OfferedInv, OfferedTo, HoldsBatch
<1>6. offered'[up] = offered[up] \o form
  BY <1>1 DEF jsonout_post_single
<1>7. offered[up] \in Seq(Nodes)
  BY <1>1
<1>8. /\ Len(offered'[up]) = Len(offered[up]) + Len(form)
      /\ \A i \in 1..(Len(offered[up]) + Len(form)) :
           offered'[up][i] = IF i <= Len(offered[up]) THEN offered[up][i]
                             ELSE form[i - Len(offered[up])]
  BY <1>1, <1>6, <1>7
<1>9. \A i \in 1..(First - 1) : offered'[up][i] = i
  BY <1>2, <1>3, <1>5, <1>8
<1> QED
  BY <1>1, <1>2, <1>3, <1>5, <1>8, <1>9

\* A request to an uplink offers it the batch.
LEMMA PostSingleStep == ASSUME IndInv, jsonout_post_single PROVE IndInv'
<1>0. TypeOK' /\ [Next]_vars
  BY TypeStep DEF IndInv, Next, jsonout_thread
<1>1. Pushed' = Pushed
  BY DEF jsonout_post_single, Pushed, list
<1>2. First' = First
  BY <1>1 DEF jsonout_post_single, First, list
<1>3. HoldsBatch /\ HoldsBatch'
  BY DEF jsonout_post_single, HoldsBatch
<1>4. OfferedInv'
  <2>1. /\ offered \in [Uplinks -> Seq(Nodes)] /\ up \in Uplinks
        /\ up \in Nat
    BY DEF jsonout_post_single, IndInv, TypeOK, Uplinks
  <2>2. ASSUME NEW u \in Uplinks, u # up
        PROVE  offered'[u] = offered[u] /\ (u < up <=> u < up')
    BY <2>1, <2>2 DEF jsonout_post_single, Uplinks
  <2>3. up < up' /\ tpc = "post" /\ tpc' = "post" /\ out' = out
    BY <2>1 DEF jsonout_post_single
  <2>4. ASSUME NEW u \in Uplinks
        PROVE  /\ Len(offered'[u]) = OfferedTo(u)'
               /\ \A i \in 1..Len(offered'[u]) : offered'[u][i] = i
    <3>1. CASE u = up
      BY <1>2, <1>3, <2>3, <3>1, PostSingleExtends DEF OfferedTo
    <3>2. CASE u # up
      BY <1>2, <1>3, <2>2, <2>3, <3>2 DEF OfferedTo, IndInv, OfferedInv
    <3> QED
      BY <3>1, <3>2
  <2> QED
    BY <2>4 DEF OfferedInv
<1>5. FormInv'
  BY <1>2 DEF IndInv, FormInv, jsonout_post_single
<1>6. MutexInv' /\ ListInv' /\ ExitInv'
  BY <1>1, <1>2
     DEF IndInv, MutexInv, ListInv, ExitInv, jsonout_post_single, list
<1>7. TailInv' /\ BatchInv'
  BY <1>1, <1>2, <1>3
     DEF IndInv, TailInv, BatchInv, jsonout_post_single, list
<1> QED
  BY <1>0, <1>4, <1>5, <1>6, <1>7 DEF IndInv

\* Every step preserves the inductive invariant; the steps without a lemma of
\* their own only move a thread.
LEMMA IndStep == ASSUME IndInv, [Next]_vars PROVE IndInv'
<1> USE JsonOutAssumption
    DEF JsonOutAssumption, MainPcs, ThreadPcs, Pointers, Nodes, NULL, Uplinks,
        list, batch, history, Pushed, First, HoldsBatch, IndInv, TypeOK,
        MutexInv, ListInv, TailInv, BatchInv, FormInv, OfferedInv, OfferedTo,
        ExitInv
<1>0. TypeOK'
  BY TypeStep
<1>1. CASE jsonout_init
  BY <1>0, <1>1 DEF jsonout_init
<1>2. CASE PushAlloc
  BY <1>0, <1>2 DEF PushAlloc
<1>3. CASE PushLock
  BY <1>0, <1>3 DEF PushLock
<1>4. CASE PushUnlock
  BY <1>0, <1>4 DEF PushUnlock
<1>5. CASE jsonout_deinit
  <2>1. ExitInv' /\ MutexInv'
    BY <1>5 DEF jsonout_deinit
  <2>2. ListInv' /\ TailInv' /\ BatchInv'
    BY <1>5 DEF jsonout_deinit
  <2>3. FormInv' /\ OfferedInv'
    BY <1>5 DEF jsonout_deinit
  <2> QED
    BY <1>0, <2>1, <2>2, <2>3
<1>6. CASE Join
  BY <1>0, <1>6 DEF Join
<1>7. CASE CheckDie
  BY <1>0, <1>7 DEF CheckDie
<1>8. CASE Peek
  BY <1>0, <1>8 DEF Peek
<1>9. CASE GrabLock
  BY <1>0, <1>9 DEF GrabLock
<1>10. CASE GrabOut
  BY <1>0, <1>10 DEF GrabOut
<1>11. CASE GrabTail
  BY <1>0, <1>11 DEF GrabTail
<1>12. CASE GrabUnlock
  BY <1>0, <1>12 DEF GrabUnlock
<1>13. CASE PostDone
  BY <1>0, <1>13 DEF PostDone
<1>14. CASE PushLink
  BY ONLY IndInv, <1>14, PushLinkStep
<1>15. CASE PushTail
  BY ONLY IndInv, <1>15, PushTailStep
<1>16. CASE GrabQue
  BY ONLY IndInv, <1>16, GrabQueStep
<1>17. CASE FormAdd
  BY ONLY IndInv, <1>17, FormAddStep
<1>18. CASE FormDone
  BY ONLY IndInv, <1>18, FormDoneStep
<1>19. CASE jsonout_post_single
  BY ONLY IndInv, <1>19, PostSingleStep
<1>20. CASE Exited \/ UNCHANGED vars
  <2>1. UNCHANGED vars
    BY <1>20 DEF Exited
  <2>2. MutexInv' /\ ListInv' /\ TailInv' /\ BatchInv'
    BY <2>1 DEF vars
  <2>3. FormInv' /\ OfferedInv' /\ ExitInv'
    BY <2>1 DEF vars
  <2> QED
    BY <1>0, <2>2, <2>3
<1> QED
  BY <1>1, <1>2, <1>3, <1>4, <1>5, <1>6, <1>7, <1>8, <1>9, <1>10, <1>11,
     <1>12, <1>13, <1>14, <1>15, <1>16, <1>17, <1>18, <1>19, <1>20
     DEF Next, MainStep, MainPush, jsonout_thread

\* The inductive invariant is one.
THEOREM Inductive == Spec => []IndInv
<1>1. Init => IndInv
  BY IndInit
<1>2. IndInv /\ [Next]_vars => IndInv'
  BY IndStep
<1> QED
  BY <1>1, <1>2, PTL DEF Spec

-----------------------------------------------------------------------------
\* Events reach every uplink's requests in the order they were pushed, each
\* once, with none skipped.
THEOREM InOrder == Spec => []InOrderExactlyOnce
<1>1. ASSUME IndInv PROVE InOrderExactlyOnce
  <2> SUFFICES ASSUME NEW u \in Uplinks
               PROVE  offered[u] = Upto(Len(offered[u]))
    BY DEF InOrderExactlyOnce
  <2>1. offered[u] \in Seq(Nodes)
    BY <1>1 DEF IndInv, TypeOK
  <2>2. \A i \in 1..Len(offered[u]) : offered[u][i] = i
    BY <1>1 DEF IndInv, OfferedInv
  <2>3. offered[u] = [i \in 1..Len(offered[u]) |-> offered[u][i]]
    BY <2>1
  <2> QED
    BY <2>2, <2>3 DEF Upto
<1> QED
  BY <1>1, Inductive, PTL

\* Only events that are still in the list were not offered: nothing is lost
\* between the threads, and what shutdown loses is what is left in the list.
THEOREM NoLoss == Spec => []NothingLost
<1>1. ASSUME IndInv PROVE NothingLost
  BY <1>1 DEF IndInv, OfferedInv, OfferedTo, NothingLost
<1> QED
  BY <1>1, Inductive, PTL

\* The list is intact whenever out_json_que_mut is free.
THEOREM WellFormed == Spec => []QueueWellFormed
<1>1. ASSUME IndInv PROVE QueueWellFormed
  <2> SUFFICES ASSUME mut = "free" PROVE QueueWellFormed
    BY DEF QueueWellFormed
  <2>1. mpc # "push_tail" /\ tpc # "grab_que"
    BY <1>1 DEF IndInv, MutexInv
  <2>2. out_json_tail = IF out_json_que = NULL THEN NULL ELSE Pushed
    BY <1>1, <2>1 DEF IndInv, TailInv
  <2> QED
    BY <1>1, <2>2 DEF IndInv, ListInv, QueueWellFormed
<1> QED
  BY <1>1, Inductive, PTL

\* The walk of jsonout_post_all, without the lock, is no data race.
THEOREM PrivateBatch == Spec => []BatchIsPrivate
<1>1. ASSUME IndInv PROVE BatchIsPrivate
  <2> SUFFICES ASSUME HoldsBatch, out_json_tail # NULL
               PROVE  out_json_tail >= First
    BY DEF BatchIsPrivate
  <2>1. /\ out_json_que \in 0..Pushed /\ nodes \in Nat /\ Pushed \in Int
        /\ out_json_que # NULL
    BY <1>1 DEF IndInv, ListInv, TailInv, TypeOK, Pushed
  <2>2. First = out_json_que
    BY <2>1 DEF First
  <2>3. CASE mpc = "push_tail"
    <3>1. Pushed = nodes /\ out_json_tail = nodes - 1 /\ out_json_que # nodes
      BY <1>1, <2>1, <2>3 DEF IndInv, TailInv, HoldsBatch, Pushed
    <3> QED
      BY <2>1, <2>2, <3>1
  <2>4. CASE mpc # "push_tail"
    <3>1. out_json_tail = Pushed
      BY <1>1, <2>1, <2>4 DEF IndInv, TailInv, HoldsBatch
    <3> QED
      BY <2>1, <2>2, <3>1
  <2> QED
    BY <2>3, <2>4
<1> QED
  BY <1>1, Inductive, PTL

\* The unlocked look at the list is enough: jsonout_thread never takes an empty one.
THEOREM NeverEmpty == Spec => []GrabNeverEmpty
<1>1. ASSUME IndInv PROVE GrabNeverEmpty
  BY <1>1 DEF IndInv, BatchInv, GrabNeverEmpty, NULL
<1> QED
  BY <1>1, Inductive, PTL

-----------------------------------------------------------------------------
(***************************************************************************)
(* JsonOut implements EventChannel.                                        *)
(***************************************************************************)

\* The form of a batch is the batch the abstract channel offers.
LEMMA FormIsBatch ==
  ASSUME IndInv, jsonout_post_single
  PROVE  form = Channel!Batch(out, First - 1)
<1>1. form \in Seq(Nodes)
  BY DEF IndInv, TypeOK
<1>2. First \in Int /\ out \in 1..(First - 1) /\ Len(form) = First - out
  BY PostSingleExtends
<1>3. \A i \in 1..Len(form) : form[i] = out + i - 1
  BY DEF jsonout_post_single, IndInv, FormInv
<1>4. form = [i \in 1..Len(form) |-> form[i]]
  BY <1>1
<1>5. (First - 1) - out + 1 = Len(form)
  BY <1>2
<1>6. Channel!Batch(out, First - 1) = [i \in 1..Len(form) |-> out + i - 1]
  BY <1>5 DEF Channel!Batch
<1> QED
  BY <1>3, <1>4, <1>6

\* A request is an Offer of the channel.
LEMMA PostSingleOffers ==
  ASSUME IndInv, jsonout_post_single
  PROVE  Channel!Offer(up)
<1>1. /\ up \in Uplinks /\ First \in Int /\ out \in 1..(First - 1)
      /\ Len(offered[up]) = out - 1 /\ Len(offered'[up]) = First - 1
  BY PostSingleExtends
<1>2. Pushed' = Pushed /\ mpc' = mpc
  BY DEF jsonout_post_single, Pushed, list
<1>3. mpc # "exit"
  BY DEF jsonout_post_single, IndInv, ExitInv
<1>4. First - 1 \in (Len(offered[up]) + 1)..Pushed
  <2>1. out_json_que \in 0..Pushed /\ nodes \in Nat /\ Pushed \in Int
    BY DEF IndInv, ListInv, TypeOK, Pushed
  <2>2. First - 1 <= Pushed
    BY <2>1 DEF First, NULL
  <2> QED
    BY <1>1, <2>1, <2>2
<1>5. [u \in Uplinks |-> Len(offered'[u])]
        = [[u \in Uplinks |-> Len(offered[u])] EXCEPT ![up] = First - 1]
  <2>1. \A u \in Uplinks : u # up => offered'[u] = offered[u]
    BY DEF jsonout_post_single, IndInv, TypeOK
  <2> QED
    BY <1>1, <2>1
<1>6. form = Channel!Batch(Len(offered[up]) + 1, First - 1)
  <2>1. Len(offered[up]) + 1 = out
    BY <1>1
  <2> QED
    BY <2>1, FormIsBatch
<1>7. \/ received' = [received EXCEPT ![up] = received[up] \o form]
      \/ received' = received
  BY DEF jsonout_post_single
<1>8. [u \in Uplinks |-> Len(offered[u])][up] = Len(offered[up])
  BY <1>1
<1>9. /\ \E last \in (Len(offered[up]) + 1)..Pushed :
           /\ [u \in Uplinks |-> Len(offered'[u])]
                = [[u \in Uplinks |-> Len(offered[u])] EXCEPT ![up] = last]
           /\ \/ received' = [received EXCEPT ![up] = received[up] \o
                                Channel!Batch(Len(offered[up]) + 1, last)]
              \/ received' = received
  BY <1>4, <1>5, <1>6, <1>7
<1> QED
  BY <1>2, <1>3, <1>8, <1>9 DEF Channel!Offer

\* The exporter implements the abstract channel: linking a node is a push, a
\* request is an offer, the end of main() closes the channel, and no other
\* step of the two threads shows.
THEOREM Refinement == Spec => ImplementsChannel
<1>1. Init => Channel!Init
  BY DEF Init, Channel!Init, Pushed, Uplinks, Channel!Uplinks
<1>2. ASSUME IndInv, [Next]_vars
      PROVE  [Channel!Next]_(Channel!vars)
  <2> USE DEF list, batch, history, Channel!vars
  <2>1. CASE PushLink
    <3>1. nodes \in 1..PushLimit /\ mpc # "exit" /\ mpc' # "exit"
      BY <1>2, <2>1 DEF IndInv, TypeOK, ListInv, PushLink
    <3>2. Pushed = nodes - 1 /\ Pushed' = (nodes - 1) + 1
      BY <2>1, <3>1 DEF PushLink, Pushed
    <3>3. UNCHANGED history
      BY <2>1 DEF PushLink
    <3>4. PushLimit \in Nat
      BY JsonOutAssumption DEF JsonOutAssumption
    <3>5. Channel!Push
      BY <3>1, <3>2, <3>3, <3>4 DEF Channel!Push
    <3> QED
      BY <3>5 DEF Channel!Next
  <2>2. CASE jsonout_post_single
    <3>1. up \in Channel!Uplinks
      BY <2>2 DEF jsonout_post_single, Uplinks, Channel!Uplinks
    <3>2. Channel!Offer(up)
      BY <1>2, <2>2, PostSingleOffers
    <3>3. \E u \in Channel!Uplinks : Channel!Offer(u)
      BY ONLY <3>1, <3>2 DEF Channel!Offer
    <3> QED
      BY ONLY <3>3 DEF Channel!Next
  <2>3. CASE jsonout_init \/ jsonout_deinit \/ Join
    <3>1. Pushed' = Pushed /\ UNCHANGED history /\ mpc # "exit"
      BY <2>3 DEF jsonout_init, jsonout_deinit, Join, Pushed
    <3>2. CASE mpc' = "exit"
      BY <3>1, <3>2 DEF Channel!Close, Channel!Next
    <3>3. CASE mpc' # "exit"
      BY <3>1, <3>3
    <3> QED
      BY <3>2, <3>3
  <2>4. CASE PushAlloc
    <3>1. Pushed' = Pushed
      BY <1>2, <2>4 DEF PushAlloc, Pushed, IndInv, TypeOK
    <3> QED
      BY <2>4, <3>1 DEF PushAlloc
  <2>5. CASE PushLock \/ PushTail \/ PushUnlock
    BY <2>5 DEF PushLock, PushTail, PushUnlock, Pushed
  <2>6. CASE jsonout_thread /\ ~jsonout_post_single
    <3>1. UNCHANGED <<mpc, nodes, offered, received>>
      BY <2>6 DEF jsonout_thread, CheckDie, Peek, GrabLock, GrabOut, GrabTail,
                  GrabQue, GrabUnlock, FormAdd, FormDone, PostDone
    <3> QED
      BY <3>1 DEF Pushed
  <2>7. CASE Exited \/ UNCHANGED vars
    BY <2>7 DEF Exited, vars, Pushed
  <2> QED
    BY <1>2, <2>1, <2>2, <2>3, <2>4, <2>5, <2>6, <2>7
       DEF Next, MainStep, MainPush
<1> QED
  BY <1>1, <1>2, Inductive, PTL DEF Spec, ImplementsChannel, Channel!Spec
=============================================================================
