---------------------------- MODULE BridgeProofs ----------------------------
(***************************************************************************)
(* Proofs about the bridge, for every set of transfers and requests and    *)
(* every placement of faults.                                              *)
(***************************************************************************)
EXTENDS Bridge, TLAPS

USE BridgeAssumption

-----------------------------------------------------------------------------
(* The inductive invariant *)

\* What a request has done, and has left behind, at every stage.
StageInv ==
    \A c \in Calls :
        /\ pc[c] \in {"answer", "mark"} => c \in released
        /\ c \in released => pc[c] \notin {"idle", "post"} /\ (Live(c) \/ tx[c] \in marked \cup faulty)
        /\ c \in told => pc[c] = "done" /\ tx[c] \in marked \cup faulty
        /\ Busy(c) /\ c \in dead => tx[c] \in faulty

\* Without an overlap a request works on its transfer alone, and before the mark.
AloneInv ==
    /\ \A c, d \in Calls : Live(c) /\ Live(d) /\ tx[c] = tx[d] /\ tx[c] \notin raced => c = d
    /\ \A c \in Calls : Live(c) /\ tx[c] \in marked => tx[c] \in faulty \cup raced

BridgeInv == TypeOK /\ StageInv /\ AloneInv /\ MarkedWasReleased /\ ReleasedOnce

LEMMA BridgeInit == Init => BridgeInv
  BY DEF Init, BridgeInv, TypeOK, StageInv, AloneInv, MarkedWasReleased, ReleasedOnce, Live, Busy

\* A request that goes on to the Core.
LEMMA GoOnStep ==
  ASSUME BridgeInv, NEW c \in Calls, NEW t \in Transfers, GoOn(c, t),
         faults' \in 0 .. MaxFaults, faulty' \in SUBSET Transfers, faulty \subseteq faulty',
         t \in marked => t \in faulty'
  PROVE  BridgeInv'
<1>1. /\ pc[c] = "idle" /\ c \notin dead /\ pc' = [pc EXCEPT ![c] = "post"]
      /\ tx' = [tx EXCEPT ![c] = t] /\ UNCHANGED <<marked, released, told, dead>>
      /\ raced \subseteq raced' /\ raced' \subseteq Transfers
      /\ \A d \in Calls : Live(d) /\ tx[d] = t => t \in raced'
  BY DEF GoOn, Move, BridgeInv, TypeOK
<1>2. TypeOK'
  BY <1>1 DEF BridgeInv, TypeOK
<1>3. c \notin released /\ c \notin told
  BY <1>1 DEF BridgeInv, StageInv
<1>4. \A d \in Calls \ {c} : tx'[d] = tx[d] /\ pc'[d] = pc[d] /\ Live(d)' = Live(d)
  BY <1>1 DEF Live, Busy, BridgeInv, TypeOK
<1>5. tx'[c] = t /\ pc'[c] = "post" /\ Live(c)'
  BY <1>1 DEF Live, Busy, BridgeInv, TypeOK
<1>6. StageInv'
  BY <1>1, <1>3, <1>4, <1>5 DEF BridgeInv, StageInv, Busy
<1>7. AloneInv'
  BY <1>1, <1>4, <1>5 DEF BridgeInv, AloneInv
<1>8. MarkedWasReleased' /\ ReleasedOnce'
  BY <1>1, <1>3, <1>4 DEF BridgeInv, MarkedWasReleased, ReleasedOnce, TypeOK
<1> QED BY <1>2, <1>6, <1>7, <1>8 DEF BridgeInv

LEMMA BridgeStep == BridgeInv /\ [Next]_vars => BridgeInv'
<1> SUFFICES ASSUME BridgeInv, [Next]_vars PROVE BridgeInv'
  OBVIOUS
<1>1. ASSUME NEW c \in Calls, NEW t \in Transfers, Pass(c, t) PROVE BridgeInv'
  BY <1>1, GoOnStep DEF Pass, NoFault, BridgeInv, TypeOK
<1>2. ASSUME NEW c \in Calls, NEW t \in Transfers, ReadFails(c, t) PROVE BridgeInv'
  BY <1>2, GoOnStep DEF ReadFails, Fault, BridgeInv, TypeOK
<1>3. ASSUME NEW c \in Calls, NEW t \in Transfers, Refuse(c, t) PROVE BridgeInv'
  <2>1. /\ pc[c] = "idle" /\ pc' = [pc EXCEPT ![c] = "done"]
        /\ tx' = [tx EXCEPT ![c] = t]
        /\ UNCHANGED <<marked, released, told, dead, raced, faults, faulty>>
    BY <1>3 DEF Refuse, Move, NoFault
  <2>2. c \notin released /\ c \notin told
    BY <2>1 DEF BridgeInv, StageInv
  <2>3. /\ pc'[c] = "done" /\ ~Busy(c)'
        /\ \A d \in Calls \ {c} : /\ tx'[d] = tx[d] /\ pc'[d] = pc[d]
                                  /\ Live(d)' = Live(d) /\ Busy(d)' = Busy(d)
    BY <2>1 DEF Live, Busy, BridgeInv, TypeOK
  <2>4. TypeOK'
    BY <2>1 DEF BridgeInv, TypeOK
  <2>5. StageInv'
    BY <2>1, <2>2, <2>3 DEF BridgeInv, StageInv
  <2>6. AloneInv'
    BY <2>1, <2>3 DEF BridgeInv, AloneInv, Live
  <2>7. MarkedWasReleased' /\ ReleasedOnce'
    BY <2>1, <2>2, <2>3 DEF BridgeInv, MarkedWasReleased, ReleasedOnce, TypeOK
  <2> QED BY <2>4, <2>5, <2>6, <2>7 DEF BridgeInv
<1>4. ASSUME NEW c \in Calls, CoreTakes(c) PROVE BridgeInv'
  <2>1. /\ pc[c] = "post" /\ pc' = [pc EXCEPT ![c] = "answer"]
        /\ released' = released \cup {c}
        /\ UNCHANGED <<marked, tx, told, dead, raced, faults, faulty>>
    BY <1>4 DEF CoreTakes, NoFault
  <2>2. \A d \in Calls : Live(d)' = Live(d) /\ Busy(d)' = Busy(d)
    BY <2>1 DEF Live, Busy, BridgeInv, TypeOK
  <2>3. TypeOK'
    BY <2>1 DEF BridgeInv, TypeOK
  <2>4. Live(c) \/ tx[c] \in faulty
    BY <2>1 DEF BridgeInv, StageInv, Live, Busy
  <2>5. StageInv'
    BY <2>1, <2>2, <2>4 DEF BridgeInv, StageInv, TypeOK
  <2>6. AloneInv' /\ MarkedWasReleased'
    BY <2>1, <2>2 DEF BridgeInv, AloneInv, MarkedWasReleased
  <2>7. ASSUME NEW d \in released, tx[c] = tx[d], tx[c] \notin faulty \cup raced
        PROVE  c = d
    <3>1. d \in Calls /\ (Live(d) \/ tx[d] \in marked)
      BY <2>7 DEF BridgeInv, StageInv, TypeOK
    <3> QED BY <2>4, <2>7, <3>1 DEF BridgeInv, AloneInv
  <2>8. ReleasedOnce'
    BY <2>1, <2>7 DEF BridgeInv, ReleasedOnce
  <2> QED BY <2>3, <2>5, <2>6, <2>8 DEF BridgeInv
<1>5. ASSUME NEW c \in Calls, CoreRefuses(c) PROVE BridgeInv'
  <2>1. /\ pc[c] = "post" /\ pc' = [pc EXCEPT ![c] = "done"] /\ c \notin dead
        /\ UNCHANGED <<marked, tx, released, told, dead, raced, faults, faulty>>
    BY <1>5 DEF CoreRefuses, Move, NoFault
  <2>2. /\ ~Busy(c)' /\ ~Live(c)' /\ pc'[c] = "done"
        /\ \A d \in Calls \ {c} : /\ pc'[d] = pc[d]
                                  /\ Live(d)' = Live(d) /\ Busy(d)' = Busy(d)
    BY <2>1 DEF Live, Busy, BridgeInv, TypeOK
  <2>3. TypeOK'
    BY <2>1 DEF BridgeInv, TypeOK
  <2>4. c \notin released /\ c \notin told
    BY <2>1 DEF BridgeInv, StageInv
  <2>5. StageInv'
    BY <2>1, <2>2, <2>4 DEF BridgeInv, StageInv
  <2>6. AloneInv'
    BY <2>1, <2>2 DEF BridgeInv, AloneInv
  <2>7. MarkedWasReleased' /\ ReleasedOnce'
    BY <2>1 DEF BridgeInv, MarkedWasReleased, ReleasedOnce
  <2> QED BY <2>3, <2>5, <2>6, <2>7 DEF BridgeInv
<1>6. ASSUME NEW c \in Calls, AnswerArrives(c) PROVE BridgeInv'
  <2>1. /\ pc[c] = "answer" /\ pc' = [pc EXCEPT ![c] = "mark"]
        /\ UNCHANGED <<marked, tx, released, told, dead, raced, faults, faulty>>
    BY <1>6 DEF AnswerArrives, Move, NoFault
  <2>2. \A d \in Calls : Live(d)' = Live(d) /\ Busy(d)' = Busy(d)
    BY <2>1 DEF Live, Busy, BridgeInv, TypeOK
  <2>3. TypeOK' /\ StageInv'
    BY <2>1, <2>2 DEF BridgeInv, TypeOK, StageInv
  <2>4. AloneInv' /\ MarkedWasReleased' /\ ReleasedOnce'
    BY <2>1, <2>2 DEF BridgeInv, AloneInv, MarkedWasReleased, ReleasedOnce
  <2> QED BY <2>3, <2>4 DEF BridgeInv
\* The end of a request whose order was taken: its transfer is marked or faulty.
<1>7. ASSUME NEW c \in Calls, pc[c] \in {"answer", "mark"}, c \notin dead,
             pc' = [pc EXCEPT ![c] = "done"],
             told' \in {told, told \cup {c}},
             marked' \in {marked, marked \cup {tx[c]}},
             faulty' \in {faulty, faulty \cup {tx[c]}},
             tx[c] \in marked' \cup faulty',
             faults' \in 0 .. MaxFaults,
             UNCHANGED <<tx, released, dead, raced>>
      PROVE  BridgeInv'
  <2>1. tx[c] \in Transfers /\ c \in released /\ Live(c)
    BY <1>7 DEF BridgeInv, TypeOK, StageInv, Live, Busy
  <2>2. /\ ~Busy(c)' /\ ~Live(c)' /\ pc'[c] = "done"
        /\ \A d \in Calls \ {c} : /\ pc'[d] = pc[d]
                                  /\ Live(d)' = Live(d) /\ Busy(d)' = Busy(d)
    BY <1>7 DEF Live, Busy, BridgeInv, TypeOK
  <2>3. TypeOK'
    BY <1>7, <2>1 DEF BridgeInv, TypeOK
  <2>4. StageInv'
    BY <1>7, <2>2 DEF BridgeInv, StageInv
  <2>5. AloneInv'
    BY <1>7, <2>1, <2>2 DEF BridgeInv, AloneInv
  <2>6. MarkedWasReleased' /\ ReleasedOnce'
    BY <1>7, <2>1 DEF BridgeInv, MarkedWasReleased, ReleasedOnce
  <2> QED BY <2>3, <2>4, <2>5, <2>6 DEF BridgeInv
<1>8. ASSUME NEW c \in Calls, AnswerLost(c) PROVE BridgeInv'
  <2>1. faults' \in 0 .. MaxFaults
    BY <1>8 DEF AnswerLost, Fault, BridgeInv, TypeOK
  <2> QED BY <1>7, <1>8, <2>1 DEF AnswerLost, Move, Fault
<1>9. ASSUME NEW c \in Calls, Mark(c) PROVE BridgeInv'
  BY <1>7, <1>9 DEF Mark, Move, NoFault, BridgeInv, TypeOK
<1>10. ASSUME NEW c \in Calls, MarkFails(c) PROVE BridgeInv'
  <2>1. faults' \in 0 .. MaxFaults
    BY <1>10 DEF MarkFails, Fault, BridgeInv, TypeOK
  <2> QED BY <1>7, <1>10, <2>1 DEF MarkFails, Move, Fault
<1>11. CASE Crash
  <2> DEFINE stopped == {d \in Calls : Live(d)}
  <2>1. /\ dead' = dead \cup stopped /\ faulty' = faulty \cup {tx[d] : d \in stopped}
        /\ faults' \in 0 .. MaxFaults
        /\ UNCHANGED <<marked, pc, tx, released, told, raced>>
    BY <1>11 DEF Crash, Fault, BridgeInv, TypeOK
  <2>2. \A d \in Calls : ~Live(d)' /\ Busy(d)' = Busy(d)
    BY <2>1 DEF Live, Busy
  <2>3. \A d \in stopped : tx[d] \in Transfers
    BY DEF Live, Busy, BridgeInv, TypeOK
  <2>4. TypeOK'
    BY <2>1, <2>3 DEF BridgeInv, TypeOK
  <2>5. StageInv'
    BY <2>1, <2>2 DEF BridgeInv, StageInv, Live
  <2>6. AloneInv' /\ MarkedWasReleased' /\ ReleasedOnce'
    BY <2>1, <2>2 DEF BridgeInv, AloneInv, MarkedWasReleased, ReleasedOnce
  <2> QED BY <2>4, <2>5, <2>6 DEF BridgeInv
<1>12. CASE UNCHANGED vars
  BY <1>12 DEF vars, BridgeInv, TypeOK, StageInv, AloneInv, MarkedWasReleased,
               ReleasedOnce, Live, Busy
<1> QED
  BY <1>1, <1>2, <1>3, <1>4, <1>5, <1>6, <1>8, <1>9, <1>10, <1>11, <1>12 DEF Next

-----------------------------------------------------------------------------
(* The theorems *)

\* Type correctness.
THEOREM TypeCorrect == Spec => []TypeOK
  BY BridgeInit, BridgeStep, PTL DEF Spec, BridgeInv

\* No report is refused as a duplicate of one that the Core never paid.
THEOREM MarksAreTrue == Spec => []MarkedWasReleased
  BY BridgeInit, BridgeStep, PTL DEF Spec, BridgeInv

\* Overlaps and faults are the only ways to a second release.
THEOREM AtMostOnce == Spec => []ReleasedOnce
  BY BridgeInit, BridgeStep, PTL DEF Spec, BridgeInv

\* Once a request was told of success, no report of its transfer passes.
THEOREM Final == Spec => SuccessIsFinal
<1> DEFINE Kept == \A c \in Calls : pc[c] = "idle" /\ pc'[c] = "post" =>
                       \A d \in told : tx[d] = tx'[c] => tx'[c] \in faulty'
<1>1. BridgeInv /\ [Next]_vars => [Kept]_vars
  <2> SUFFICES ASSUME BridgeInv, Next, NEW c \in Calls, pc[c] = "idle", pc'[c] = "post",
                      NEW d \in told, tx[d] = tx'[c]
               PROVE  tx'[c] \in faulty'
    OBVIOUS
  <2>1. PICK t \in Transfers : Pass(c, t) \/ ReadFails(c, t)
    <3>1. ~Crash
      BY DEF Crash
    <3>2. PICK e \in Calls :
             \/ \E t \in Transfers : Pass(e, t) \/ ReadFails(e, t) \/ Refuse(e, t)
             \/ CoreTakes(e) \/ CoreRefuses(e) \/ AnswerArrives(e) \/ AnswerLost(e)
             \/ Mark(e) \/ MarkFails(e)
      BY <3>1 DEF Next
    <3>3. PICK f \in {"post", "answer", "mark", "done"} :
             pc' = [pc EXCEPT ![e] = f] /\ (f = "post" => pc[e] = "idle")
      BY <3>2 DEF Pass, ReadFails, Refuse, GoOn, CoreTakes, CoreRefuses, AnswerArrives,
                  AnswerLost, Mark, MarkFails, Move
    <3>4. e = c /\ pc'[e] = "post"
      BY <3>3 DEF BridgeInv, TypeOK
    <3> QED
      BY <3>2, <3>4 DEF Refuse, CoreTakes, CoreRefuses, AnswerArrives,
                        AnswerLost, Mark, MarkFails, Move, BridgeInv, TypeOK
  <2>2. tx'[c] = t /\ tx[d] = t
    BY <2>1 DEF Pass, ReadFails, GoOn, BridgeInv, TypeOK
  <2>3. t \in marked \cup faulty
    BY <2>2 DEF BridgeInv, StageInv, TypeOK
  <2> QED BY <2>1, <2>2, <2>3 DEF Pass, ReadFails, Fault, NoFault
<1> QED BY <1>1, BridgeInit, BridgeStep, PTL DEF Spec, SuccessIsFinal
=============================================================================
