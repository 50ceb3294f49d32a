-------------------- MODULE RepartitionHandshakeProofs ----------------------
(* Proofs about RepartitionHandshake for every distance of the heads, every  *)
(* interval and every number of messages.                                    *)
EXTENDS RepartitionHandshake, SequenceTheorems, TLAPS

(* The bounds the two constructors of Queue give the heads.                  *)
LEMMA LeadBounds ==
    /\ Lead[Head0] \in Nat /\ Lead[Head1] \in Nat
    /\ Lead[Head1] <= Distance
    /\ IF Distance = 0 THEN Lead[Head0] = SemValueMax /\ Lead[Head1] = 0
                       ELSE Lead[Head0] <= Distance
BY DistanceAssumption, MaxMessagesAssumption, SemValueMaxAssumption DEF Lead, Heads,
   Head0, Head1

(* What type correctness says of the numbers the invariant relates.          *)
Scalars ==
    /\ pushed[Head0] \in Nat /\ pushed[Head1] \in Nat
    /\ popped[Head0] \in Nat /\ popped[Head1] \in Nat
    /\ sem[Head0] \in Nat /\ sem[Head1] \in Nat
    /\ ahead[Head0] \in Nat /\ ahead[Head1] \in Nat
    /\ arrivals[Head0] \in Nat /\ arrivals[Head1] \in Nat
    /\ dispatched \in Nat /\ processed \in Nat /\ tracked \in Nat

(* They are natural numbers.                                                 *)
LEMMA Typed == TypeOK => Scalars
BY DEF TypeOK, Scalars, Heads

(* Every semaphore that is posted next has room for the token.               *)
LEMMA Room == HandshakeInv => NoOverflow
<1> SUFFICES ASSUME HandshakeInv PROVE NoOverflow
  OBVIOUS
<1> USE DEF HandshakeInv
<1>0. Scalars
  BY Typed
<1>1. Distance \in Nat /\ MaxMessages \in Nat /\ SemValueMax > Distance + MaxMessages
      /\ SemValueMax \in Nat
  BY DistanceAssumption, MaxMessagesAssumption, SemValueMaxAssumption
<1>2. submitter = "notify0" => sem[Head0] < SemValueMax
  BY <1>0, <1>1 DEF Scalars, Tokens, Notified0, Holds
<1>3. submitter = "notify1" \/ scheduler = "free0" => sem[Head1] < SemValueMax
  BY <1>0, <1>1 DEF Scalars, Tokens, Notified0, Notified1, SpareSem, Holds
<1>4. popped[Head0] <= MaxMessages
  BY <1>0, <1>1 DEF Scalars, Tokens, Notified0, Holds
<1>5. scheduler \in {"free1", "post"} => ahead[Head1] < SemValueMax
  BY <1>0, <1>1, <1>4, LeadBounds DEF Scalars, Tokens, SpareAhead, Holds
<1>6. popped[Head1] <= MaxMessages + 1
  BY <1>0, <1>1 DEF Scalars, Tokens, Notified1, SpareSem, Holds
<1>7. grapher = "post" => ahead[Head0] < SemValueMax
  BY <1>0, <1>1, <1>6, LeadBounds DEF Scalars, Tokens, Holds
<1> QED
  BY <1>2, <1>3, <1>5, <1>7 DEF NoOverflow

(* A step of submit keeps the invariant.                                     *)
LEMMA InvSubmit == ASSUME HandshakeInv, Submit PROVE HandshakeInv'
<1> USE DEF HandshakeInv
<1>0. Scalars
  BY Typed
<1>1. TypeOK'
  <2>1. /\ pushed' \in [Heads -> Nat] /\ sem' \in [Heads -> Nat]
        /\ submitter' \in SubmitterAt
    <3>1. CASE submitter = "push0"
      <4>1. pushed' = [pushed EXCEPT ![Head0] = @ + 1] /\ sem' = sem /\ submitter' = "push1"
        BY <3>1 DEF Submit, SubmitStep, SubmitPush
      <4> QED
        BY <4>1 DEF TypeOK, SubmitterAt, Heads, Head0, Head1
    <3>2. CASE submitter = "push1"
      <4>1. pushed' = [pushed EXCEPT ![Head1] = @ + 1] /\ sem' = sem /\ submitter' = "notify0"
        BY <3>2 DEF Submit, SubmitStep, SubmitPush
      <4> QED
        BY <4>1 DEF TypeOK, SubmitterAt, Heads, Head0, Head1
    <3>3. CASE submitter = "notify0"
      <4>1. sem' = Posted(sem, Head0) /\ pushed' = pushed /\ submitter' = "notify1"
        BY <3>3 DEF Submit, SubmitStep, Notify
      <4> QED
        BY <4>1 DEF TypeOK, SubmitterAt, Posted, Heads, Head0, Head1
    <3>4. CASE submitter = "notify1"
      <4>1. sem' = Posted(sem, Head1) /\ pushed' = pushed /\ submitter' = "push0"
        BY <3>4 DEF Submit, SubmitStep, Notify
      <4> QED
        BY <4>1 DEF TypeOK, SubmitterAt, Posted, Heads, Head0, Head1
    <3> QED
      BY <3>1, <3>2, <3>3, <3>4 DEF TypeOK, SubmitterAt
  <2>2. UNCHANGED <<popped, ahead, scheduler, grapher, handshakeVars>>
    BY DEF TypeOK, SubmitterAt, Submit, SubmitStep, SubmitPush, Notify
  <2> QED
    BY <2>1, <2>2 DEF TypeOK, handshakeVars
<1>2. Tokens'
  <2>1. CASE submitter = "push0"
    <3>1. /\ pushed'[Head0] = pushed[Head0] + 1 /\ pushed'[Head1] = pushed[Head1]
          /\ pushed[Head0] < MaxMessages
          /\ submitter = "push0" /\ submitter' = "push1"
          /\ UNCHANGED <<popped, sem, ahead, scheduler, grapher, note>>
      BY <2>1 DEF TypeOK, Submit, SubmitStep, SubmitPush, Notify, Posted, Heads,
         Head0, Head1, queueVars, handshakeVars
    <3> QED
      BY <3>1, <1>0, LeadBounds, MaxMessagesAssumption DEF Scalars, Tokens,
         Notified0, Notified1, SpareSem, SpareAhead, Holds
  <2>2. CASE submitter = "push1"
    <3>1. /\ pushed'[Head0] = pushed[Head0] /\ pushed'[Head1] = pushed[Head1] + 1
          /\ submitter = "push1" /\ submitter' = "notify0"
          /\ UNCHANGED <<popped, sem, ahead, scheduler, grapher, note>>
      BY <2>2 DEF TypeOK, Submit, SubmitStep, SubmitPush, Notify, Posted, Heads,
         Head0, Head1, queueVars, handshakeVars
    <3> QED
      BY <3>1, <1>0, LeadBounds, MaxMessagesAssumption DEF Scalars, Tokens,
         Notified0, Notified1, SpareSem, SpareAhead, Holds
  <2>3. CASE submitter = "notify0"
    <3>1. /\ sem'[Head0] = sem[Head0] + 1 /\ sem'[Head1] = sem[Head1]
          /\ submitter = "notify0" /\ submitter' = "notify1"
          /\ UNCHANGED <<pushed, popped, ahead, scheduler, grapher, note>>
      BY <2>3, Room DEF TypeOK, Submit, SubmitStep, SubmitPush, Notify, Posted,
         Heads, Head0, Head1, queueVars, handshakeVars, NoOverflow
    <3> QED
      BY <3>1, <1>0, LeadBounds, MaxMessagesAssumption DEF Scalars, Tokens,
         Notified0, Notified1, SpareSem, SpareAhead, Holds
  <2>4. CASE submitter = "notify1"
    <3>1. /\ sem'[Head0] = sem[Head0] /\ sem'[Head1] = sem[Head1] + 1
          /\ submitter = "notify1" /\ submitter' = "push0"
          /\ UNCHANGED <<pushed, popped, ahead, scheduler, grapher, note>>
      BY <2>4, Room DEF TypeOK, Submit, SubmitStep, SubmitPush, Notify, Posted,
         Heads, Head0, Head1, queueVars, handshakeVars, NoOverflow
    <3> QED
      BY <3>1, <1>0, LeadBounds, MaxMessagesAssumption DEF Scalars, Tokens,
         Notified0, Notified1, SpareSem, SpareAhead, Holds
  <2> QED
    BY <2>1, <2>2, <2>3, <2>4 DEF TypeOK, SubmitterAt
<1>3. Counters'
  BY DEF Counters, Holds, TypeOK, SubmitterAt, SchedulerAt, GrapherAt, Submit,
     SubmitStep, SubmitPush, Notify, Posted, Heads, Head0, Head1, queueVars,
     handshakeVars
<1>4. Meeting'
  BY DEF Meeting, Lag, AtBarrier, TypeOK, SchedulerAt, GrapherAt, Submit,
     SubmitStep, SubmitPush, Notify, Posted, Heads, Head0, Head1, queueVars,
     handshakeVars
<1>5. Recent'
  BY DEF Recent, CopyFresh, Counters, Meeting, AtBarrier, Holds, TypeOK, Submit,
     SubmitStep, SubmitPush, Notify, Posted, Heads, Head0, Head1, queueVars,
     handshakeVars
<1> QED
  BY <1>1, <1>2, <1>3, <1>4, <1>5

(* Taking a token of head 0 keeps the invariant.                             *)
LEMMA InvSchedulerWait == ASSUME HandshakeInv, SchedulerWait PROVE HandshakeInv'
<1> USE DEF HandshakeInv
<1>0. Scalars
  BY Typed
<1>1. TypeOK'
  BY DEF TypeOK, SubmitterAt, SchedulerAt, GrapherAt, SchedulerWait, SchedulerGoes,
     TakeSemaphore, TakeAhead, Taken, Heads, Head0, Head1, queueVars, handshakeVars
<1>2. Tokens'
  <2>1. CASE SchedulerGoes("wait", "ahead") /\ TakeSemaphore(Head0)
    <3>1. /\ sem'[Head0] = sem[Head0] - 1 /\ sem'[Head1] = sem[Head1]
          /\ scheduler = "wait" /\ scheduler' = "ahead"
          /\ UNCHANGED <<pushed, popped, ahead, submitter, grapher, note>>
      BY <2>1 DEF TypeOK, SchedulerWait, SchedulerGoes, TakeSemaphore, TakeAhead,
         Taken, Heads, Head0, Head1, queueVars, handshakeVars
    <3> QED
      BY <3>1, <1>0, LeadBounds, MaxMessagesAssumption DEF Scalars, Tokens,
         Notified0, Notified1, SpareSem, SpareAhead, Holds
  <2>2. CASE SchedulerGoes("ahead", "pop") /\ TakeAhead(Head0)
    <3>1. /\ ahead'[Head0] = ahead[Head0] - 1 /\ ahead'[Head1] = ahead[Head1]
          /\ scheduler = "ahead" /\ scheduler' = "pop"
          /\ UNCHANGED <<pushed, popped, sem, submitter, grapher, note>>
      BY <2>2 DEF TypeOK, SchedulerWait, SchedulerGoes, TakeSemaphore, TakeAhead,
         Taken, Heads, Head0, Head1, queueVars, handshakeVars
    <3> QED
      BY <3>1, <1>0, LeadBounds, MaxMessagesAssumption DEF Scalars, Tokens,
         Notified0, Notified1, SpareSem, SpareAhead, Holds
  <2> QED
    BY <2>1, <2>2 DEF SchedulerWait
<1>3. Counters'
  BY DEF Counters, Holds, TypeOK, SubmitterAt, SchedulerAt, GrapherAt,
     SchedulerWait, SchedulerGoes, TakeSemaphore, TakeAhead, Taken, Heads, Head0,
     Head1, queueVars, handshakeVars
<1>4. Meeting'
  BY DEF Meeting, Lag, AtBarrier, TypeOK, SchedulerAt, GrapherAt, SchedulerWait,
     SchedulerGoes, TakeSemaphore, TakeAhead, Taken, Heads, Head0, Head1, queueVars,
     handshakeVars
<1>5. Recent'
  BY DEF Recent, CopyFresh, Counters, Meeting, AtBarrier, Holds, TypeOK,
     SchedulerWait, SchedulerGoes, TakeSemaphore, TakeAhead, Taken, Heads, Head0,
     Head1, queueVars, handshakeVars
<1> QED
  BY <1>1, <1>2, <1>3, <1>4, <1>5

(* Popping at head 0 keeps the invariant.                                    *)
LEMMA InvSchedulerPop == ASSUME HandshakeInv, SchedulerPop PROVE HandshakeInv'
<1> USE DEF HandshakeInv
<1>0. Scalars
  BY Typed
<1>1. TypeOK'
  BY DEF TypeOK, SubmitterAt, SchedulerAt, GrapherAt, SchedulerPop, SchedulerGoes,
     Pop, LetOtherAdvance, Posted, Other, IsEnd, Heads, Head0, Head1, queueVars,
     handshakeVars
<1>2. Tokens'
  <2>1. CASE SchedulerGoes("pop", "post") /\ Pop(Head0)
    <3>1. /\ popped'[Head0] = popped[Head0] + 1 /\ popped'[Head1] = popped[Head1]
          /\ scheduler = "pop" /\ scheduler' = "post"
          /\ UNCHANGED <<pushed, sem, ahead, submitter, grapher, note>>
      BY <2>1 DEF TypeOK, SchedulerPop, SchedulerGoes, Pop, LetOtherAdvance, Other,
         Posted, Heads, Head0, Head1, queueVars, handshakeVars
    <3> QED
      BY <3>1, <1>0, LeadBounds, MaxMessagesAssumption DEF Scalars, Tokens,
         Notified0, Notified1, SpareSem, SpareAhead, Holds
  <2>2. CASE scheduler = "post"
    <3>1. /\ ahead'[Head0] = ahead[Head0] /\ ahead'[Head1] = ahead[Head1] + 1
          /\ scheduler = "post" /\ scheduler' \in {"dispatch", "ended"}
          /\ UNCHANGED <<pushed, popped, sem, submitter, grapher, note>>
      BY <2>2, Room DEF TypeOK, SchedulerPop, SchedulerGoes, Pop, LetOtherAdvance,
         Other, Posted, Heads, Head0, Head1, queueVars, handshakeVars, NoOverflow
    <3> QED
      BY <3>1, <1>0, LeadBounds, MaxMessagesAssumption DEF Scalars, Tokens,
         Notified0, Notified1, SpareSem, SpareAhead, Holds
  <2> QED
    BY <2>1, <2>2 DEF SchedulerPop, SchedulerGoes
<1>3. Counters'
  <2>1. UNCHANGED <<grapher, dispatched, tracked, processed>>
    BY DEF SchedulerPop, handshakeVars
  <2>2. CASE SchedulerGoes("pop", "post") /\ Pop(Head0)
    <3>1. /\ popped'[Head0] = popped[Head0] + 1
          /\ popped'[Head1] = popped[Head1]
          /\ scheduler = "pop" /\ scheduler' = "post"
      BY <2>2 DEF SchedulerGoes, Pop, TypeOK, Heads, Head0, Head1
    <3> QED
      BY <2>1, <3>1 DEF Counters, Holds, TypeOK, Heads, Head0, Head1
  <2>3. CASE SchedulerGoes("post", IF IsEnd(popped[Head0]) THEN "ended" ELSE "dispatch") /\ LetOtherAdvance(Head0)
    <3>1. popped' = popped /\ scheduler = "post" /\ scheduler' \in {"ended", "dispatch"}
      BY <2>3 DEF SchedulerGoes, LetOtherAdvance
    <3> QED
      BY <2>1, <3>1 DEF Counters, Holds, TypeOK, Heads, Head0, Head1
  <2> QED
    BY <2>2, <2>3 DEF SchedulerPop
<1>4. Meeting'
  BY DEF Meeting, Lag, AtBarrier, TypeOK, SchedulerAt, GrapherAt, SchedulerPop,
     SchedulerGoes, Pop, LetOtherAdvance, Posted, Other, IsEnd, Heads, Head0, Head1,
     queueVars, handshakeVars
<1>5. Recent'
  BY DEF Recent, CopyFresh, Counters, Meeting, AtBarrier, Holds, TypeOK,
     SchedulerPop, SchedulerGoes, Pop, LetOtherAdvance, Posted, Other, IsEnd, Heads,
     Head0, Head1, queueVars, handshakeVars
<1> QED
  BY <1>1, <1>2, <1>3, <1>4, <1>5

(* Dispatching a request keeps the invariant.                                *)
LEMMA InvSchedulerDispatch == ASSUME HandshakeInv, SchedulerDispatch PROVE HandshakeInv'
<1> USE DEF HandshakeInv
<1>0. Scalars
  BY Typed
<1>1. TypeOK'
  BY DEF TypeOK, SubmitterAt, SchedulerAt, GrapherAt, SchedulerDispatch,
     SchedulerGoes, Heads, Head0, Head1, queueVars, handshakeVars
<1>2. Tokens'
  BY <1>0, LeadBounds, MaxMessagesAssumption DEF Scalars, Tokens, Notified0,
     Notified1, SpareSem, SpareAhead, Holds, SchedulerDispatch, SchedulerGoes,
     Heads, Head0, Head1, queueVars, handshakeVars, Meeting
<1>3. Counters'
  BY DEF Counters, Holds, TypeOK, SubmitterAt, SchedulerAt, GrapherAt,
     SchedulerDispatch, SchedulerGoes, Heads, Head0, Head1, queueVars, handshakeVars
<1>4. Meeting'
  BY DEF Meeting, Lag, AtBarrier, TypeOK, SchedulerAt, GrapherAt, SchedulerDispatch,
     SchedulerGoes, Heads, Head0, Head1, queueVars, handshakeVars
<1>5. Recent'
  BY DEF Recent, CopyFresh, Counters, Meeting, AtBarrier, Holds, TypeOK,
     SchedulerDispatch, SchedulerGoes, Heads, Head0, Head1, queueVars, handshakeVars
<1> QED
  BY <1>1, <1>2, <1>3, <1>4, <1>5

(* Leaving a note keeps the invariant.                                       *)
LEMMA InvLeaveNote == ASSUME HandshakeInv, LeaveNote PROVE HandshakeInv'
<1> USE DEF HandshakeInv
<1>0. Scalars
  BY Typed
<1>1. TypeOK'
  BY DEF TypeOK, SubmitterAt, SchedulerAt, GrapherAt, LeaveNote, SchedulerGoes,
     Heads, Head0, Head1, queueVars, handshakeVars
<1>2. Tokens'
  BY <1>0, LeadBounds, MaxMessagesAssumption DEF Scalars, Tokens, Notified0,
     Notified1, SpareSem, SpareAhead, Holds, LeaveNote, SchedulerGoes, Heads, Head0,
     Head1, queueVars, handshakeVars, Meeting
<1>3. Counters'
  BY DEF Counters, Holds, TypeOK, SubmitterAt, SchedulerAt, GrapherAt, LeaveNote,
     SchedulerGoes, Heads, Head0, Head1, queueVars, handshakeVars
<1>4. Meeting'
  BY DEF Meeting, Lag, AtBarrier, TypeOK, SchedulerAt, GrapherAt, LeaveNote,
     SchedulerGoes, Heads, Head0, Head1, queueVars, handshakeVars
<1>5. Recent'
  BY DEF Recent, CopyFresh, Counters, Meeting, AtBarrier, Holds, TypeOK, LeaveNote,
     SchedulerGoes, Heads, Head0, Head1, queueVars, handshakeVars
<1> QED
  BY <1>1, <1>2, <1>3, <1>4, <1>5

(* The two tokens of free<1> keep the invariant.                             *)
LEMMA InvFreeGrapher == ASSUME HandshakeInv, FreeGrapher PROVE HandshakeInv'
<1> USE DEF HandshakeInv
<1>0. Scalars
  BY Typed
<1>1. TypeOK'
  BY DEF TypeOK, SubmitterAt, SchedulerAt, GrapherAt, FreeGrapher, SchedulerGoes,
     Notify, Posted, Heads, Head0, Head1, queueVars, handshakeVars
<1>2. Tokens'
  <2>1. CASE SchedulerGoes("free0", "free1") /\ Notify(Head1)
    <3>1. /\ sem'[Head0] = sem[Head0] /\ sem'[Head1] = sem[Head1] + 1
          /\ scheduler = "free0" /\ scheduler' = "free1"
          /\ UNCHANGED <<pushed, popped, ahead, submitter, grapher, note>>
      BY <2>1, Room DEF TypeOK, FreeGrapher, SchedulerGoes, Notify, Posted, Heads,
         Head0, Head1, queueVars, handshakeVars, NoOverflow
    <3> QED
      BY <3>1, <1>0, LeadBounds, MaxMessagesAssumption DEF Scalars, Tokens,
         Notified0, Notified1, SpareSem, SpareAhead, Holds, Meeting
  <2>2. CASE scheduler = "free1"
    <3>1. /\ ahead'[Head0] = ahead[Head0] /\ ahead'[Head1] = ahead[Head1] + 1
          /\ scheduler = "free1" /\ scheduler' = "meet"
          /\ UNCHANGED <<pushed, popped, sem, submitter, grapher, note>>
      BY <2>2, Room DEF TypeOK, FreeGrapher, SchedulerGoes, Notify, Posted, Heads,
         Head0, Head1, queueVars, handshakeVars, NoOverflow
    <3> QED
      BY <3>1, <1>0, LeadBounds, MaxMessagesAssumption DEF Scalars, Tokens,
         Notified0, Notified1, SpareSem, SpareAhead, Holds, Meeting
  <2> QED
    BY <2>1, <2>2 DEF FreeGrapher, SchedulerGoes
<1>3. Counters'
  BY DEF Counters, Holds, TypeOK, SubmitterAt, SchedulerAt, GrapherAt, FreeGrapher,
     SchedulerGoes, Notify, Posted, Heads, Head0, Head1, queueVars, handshakeVars
<1>4. Meeting'
  BY DEF Meeting, Lag, AtBarrier, TypeOK, SchedulerAt, GrapherAt, FreeGrapher,
     SchedulerGoes, Notify, Posted, Heads, Head0, Head1, queueVars, handshakeVars
<1>5. Recent'
  BY DEF Recent, CopyFresh, Counters, Meeting, AtBarrier, Holds, TypeOK,
     FreeGrapher, SchedulerGoes, Notify, Posted, Heads, Head0, Head1, queueVars,
     handshakeVars
<1> QED
  BY <1>1, <1>2, <1>3, <1>4, <1>5

(* The scheduling thread's arrival at the barrier keeps the invariant.       *)
LEMMA InvSchedulerArrive == ASSUME HandshakeInv, SchedulerArrive PROVE HandshakeInv'
<1> USE DEF HandshakeInv
<1>0. Scalars
  BY Typed
<1>1. TypeOK'
  BY DEF TypeOK, SubmitterAt, SchedulerAt, GrapherAt, SchedulerArrive,
     SchedulerGoes, Arrives, Heads, Head0, Head1, queueVars, handshakeVars
<1>2. Tokens'
  BY <1>0, LeadBounds, MaxMessagesAssumption DEF Scalars, Tokens, Notified0,
     Notified1, SpareSem, SpareAhead, Holds, SchedulerArrive, SchedulerGoes,
     Arrives, Heads, Head0, Head1, queueVars, handshakeVars, Meeting
<1>3. Counters'
  BY DEF Counters, Holds, TypeOK, SubmitterAt, SchedulerAt, GrapherAt,
     SchedulerArrive, SchedulerGoes, Arrives, Heads, Head0, Head1, queueVars,
     handshakeVars
<1>4. Meeting'
  <2>1. /\ UNCHANGED <<grapher, note>>
        /\ Lag' = Lag + 1 /\ Lag \in Int
        /\ \/ scheduler = "meet" /\ scheduler' = "meeting"
           \/ scheduler = "part" /\ scheduler' = "parting"
    <3>1. /\ arrivals'[Head0] = arrivals[Head0] + 1
          /\ arrivals'[Head1] = arrivals[Head1]
          /\ UNCHANGED <<grapher, note>>
          /\ \/ scheduler = "meet" /\ scheduler' = "meeting"
             \/ scheduler = "part" /\ scheduler' = "parting"
      BY DEF SchedulerArrive, SchedulerGoes, Arrives, TypeOK, Heads, Head0, Head1
    <3>2. Lag' = Lag + 1 /\ Lag \in Int
      BY <3>1, <1>0 DEF Lag, Scalars
    <3> QED
      BY <3>1, <3>2
  <2> QED
    BY <2>1 DEF Meeting, AtBarrier, TypeOK, SchedulerAt, GrapherAt
<1>5. Recent'
  BY DEF Recent, CopyFresh, Counters, Meeting, AtBarrier, Holds, TypeOK,
     SchedulerArrive, SchedulerGoes, Arrives, Heads, Head0, Head1, queueVars,
     handshakeVars
<1> QED
  BY <1>1, <1>2, <1>3, <1>4, <1>5

(* The scheduling thread's release from the barrier keeps the invariant.     *)
LEMMA InvSchedulerLeave == ASSUME HandshakeInv, SchedulerLeave PROVE HandshakeInv'
<1> USE DEF HandshakeInv
<1>0. Scalars
  BY Typed
<1>1. TypeOK'
  BY DEF TypeOK, SubmitterAt, SchedulerAt, GrapherAt, SchedulerLeave, SchedulerGoes,
     Released, Other, Heads, Head0, Head1, queueVars, handshakeVars
<1>2. Tokens'
  <2>1. /\ UNCHANGED <<pushed, popped, sem, ahead, submitter, grapher, note>>
        /\ \/ scheduler = "meeting" /\ scheduler' = "copy" /\ ~note
           \/ scheduler = "parting" /\ scheduler' = "install" /\ ~note
    BY DEF SchedulerLeave, SchedulerGoes, Released, Other, Meeting, Lag, TypeOK,
       Heads, Head0, Head1, queueVars, handshakeVars
  <2> QED
    BY <2>1, <1>0, LeadBounds, MaxMessagesAssumption DEF Scalars, Tokens, Notified0,
       Notified1, SpareSem, SpareAhead, Holds
<1>3. Counters'
  BY DEF Counters, Holds, TypeOK, SubmitterAt, SchedulerAt, GrapherAt,
     SchedulerLeave, SchedulerGoes, Released, Other, Heads, Head0, Head1, queueVars,
     handshakeVars
<1>4. Meeting'
  BY DEF Meeting, Lag, AtBarrier, TypeOK, SchedulerAt, GrapherAt, SchedulerLeave,
     SchedulerGoes, Released, Other, Heads, Head0, Head1, queueVars, handshakeVars
<1>5. Recent'
  BY DEF Recent, CopyFresh, Counters, Meeting, AtBarrier, Holds, TypeOK,
     SchedulerLeave, SchedulerGoes, Released, Other, Heads, Head0, Head1, queueVars,
     handshakeVars
<1> QED
  BY <1>1, <1>2, <1>3, <1>4, <1>5

(* Copying the graph keeps the invariant.                                    *)
LEMMA InvCopyGraph == ASSUME HandshakeInv, CopyGraph PROVE HandshakeInv'
<1> USE DEF HandshakeInv
<1>0. Scalars
  BY Typed
<1>1. TypeOK'
  BY DEF TypeOK, SubmitterAt, SchedulerAt, GrapherAt, CopyGraph, SchedulerGoes,
     Heads, Head0, Head1, queueVars, handshakeVars
<1>2. Tokens'
  BY <1>0, LeadBounds, MaxMessagesAssumption DEF Scalars, Tokens, Notified0,
     Notified1, SpareSem, SpareAhead, Holds, CopyGraph, SchedulerGoes, Heads, Head0,
     Head1, queueVars, handshakeVars, Meeting
<1>3. Counters'
  BY DEF Counters, Holds, TypeOK, SubmitterAt, SchedulerAt, GrapherAt, CopyGraph,
     SchedulerGoes, Heads, Head0, Head1, queueVars, handshakeVars
<1>4. Meeting'
  BY DEF Meeting, Lag, AtBarrier, TypeOK, SchedulerAt, GrapherAt, CopyGraph,
     SchedulerGoes, Heads, Head0, Head1, queueVars, handshakeVars
<1>5. Recent'
  <2> DEFINE copy == [dispatched |-> dispatched, tracked |-> tracked]
  <2>1. /\ scheduler = "copy" /\ scheduler' = "part"
        /\ snapshots' = Append(snapshots, copy)
        /\ UNCHANGED <<popped, dispatched, processed, tracked>>
    BY DEF CopyGraph, SchedulerGoes, queueVars
  <2>2. processed + 1 >= dispatched /\ grapher \in {"meeting", "part", "parting"}
    BY <2>1 DEF Meeting, Recent
  <2>3. tracked = processed /\ tracked = popped[Head1] /\ dispatched = popped[Head0]
    BY <2>1, <2>2, <1>0 DEF Counters, Holds, Scalars
  <2>4. tracked >= dispatched - 1 /\ tracked <= dispatched + Lead[Head1]
    BY <2>2, <2>3 DEF Tokens, TypeOK
  <2>5. copy \in [dispatched : Nat, tracked : Nat] /\ snapshots \in Seq([dispatched : Nat, tracked : Nat])
    BY DEF TypeOK
  <2>6. ASSUME NEW i \in DOMAIN snapshots'
        PROVE  /\ snapshots'[i].tracked >= snapshots'[i].dispatched - 1
               /\ snapshots'[i].tracked <= snapshots'[i].dispatched + Lead[Head1]
    <3>1. (i \in DOMAIN snapshots /\ snapshots'[i] = snapshots[i]) \/ snapshots'[i] = copy
      BY <2>1, <2>5
    <3>2. CASE i \in DOMAIN snapshots /\ snapshots'[i] = snapshots[i]
      BY <3>2 DEF Recent, CopyFresh
    <3>3. CASE snapshots'[i] = copy
      BY <3>3, <2>4
    <3> QED
      BY <3>1, <3>2, <3>3
  <2> QED
    BY <2>1, <2>6 DEF Recent, CopyFresh
<1> QED
  BY <1>1, <1>2, <1>3, <1>4, <1>5

(* Installing a map keeps the invariant.                                     *)
LEMMA InvInstallMap == ASSUME HandshakeInv, InstallMap PROVE HandshakeInv'
<1> USE DEF HandshakeInv
<1>0. Scalars
  BY Typed
<1>1. TypeOK'
  BY DEF TypeOK, SubmitterAt, SchedulerAt, GrapherAt, InstallMap, SchedulerGoes,
     Heads, Head0, Head1, queueVars, handshakeVars
<1>2. Tokens'
  BY <1>0, LeadBounds, MaxMessagesAssumption DEF Scalars, Tokens, Notified0,
     Notified1, SpareSem, SpareAhead, Holds, InstallMap, SchedulerGoes, Heads,
     Head0, Head1, queueVars, handshakeVars, Meeting
<1>3. Counters'
  BY DEF Counters, Holds, TypeOK, SubmitterAt, SchedulerAt, GrapherAt, InstallMap,
     SchedulerGoes, Heads, Head0, Head1, queueVars, handshakeVars
<1>4. Meeting'
  BY DEF Meeting, Lag, AtBarrier, TypeOK, SchedulerAt, GrapherAt, InstallMap,
     SchedulerGoes, Heads, Head0, Head1, queueVars, handshakeVars
<1>5. Recent'
  BY DEF Recent, CopyFresh, Counters, Meeting, AtBarrier, Holds, TypeOK, InstallMap,
     SchedulerGoes, Heads, Head0, Head1, queueVars, handshakeVars
<1> QED
  BY <1>1, <1>2, <1>3, <1>4, <1>5

(* Taking a token of head 1 keeps the invariant.                             *)
LEMMA InvGrapherWait == ASSUME HandshakeInv, GrapherWait PROVE HandshakeInv'
<1> USE DEF HandshakeInv
<1>0. Scalars
  BY Typed
<1>1. TypeOK'
  BY DEF TypeOK, SubmitterAt, SchedulerAt, GrapherAt, GrapherWait, GrapherGoes,
     TakeSemaphore, TakeAhead, Taken, Heads, Head0, Head1, queueVars, handshakeVars
<1>2. Tokens'
  <2>1. CASE GrapherGoes("wait", "ahead") /\ TakeSemaphore(Head1)
    <3>1. /\ sem'[Head0] = sem[Head0] /\ sem'[Head1] = sem[Head1] - 1
          /\ grapher = "wait" /\ grapher' = "ahead"
          /\ UNCHANGED <<pushed, popped, ahead, submitter, scheduler, note>>
      BY <2>1 DEF TypeOK, GrapherWait, GrapherGoes, TakeSemaphore, TakeAhead, Taken,
         Heads, Head0, Head1, queueVars, handshakeVars
    <3> QED
      BY <3>1, <1>0, LeadBounds, MaxMessagesAssumption DEF Scalars, Tokens,
         Notified0, Notified1, SpareSem, SpareAhead, Holds
  <2>2. CASE GrapherGoes("ahead", "check") /\ TakeAhead(Head1)
    <3>1. /\ ahead'[Head0] = ahead[Head0] /\ ahead'[Head1] = ahead[Head1] - 1
          /\ grapher = "ahead" /\ grapher' = "check"
          /\ UNCHANGED <<pushed, popped, sem, submitter, scheduler, note>>
      BY <2>2 DEF TypeOK, GrapherWait, GrapherGoes, TakeSemaphore, TakeAhead, Taken,
         Heads, Head0, Head1, queueVars, handshakeVars
    <3> QED
      BY <3>1, <1>0, LeadBounds, MaxMessagesAssumption DEF Scalars, Tokens,
         Notified0, Notified1, SpareSem, SpareAhead, Holds
  <2> QED
    BY <2>1, <2>2 DEF GrapherWait
<1>3. Counters'
  BY DEF Counters, Holds, TypeOK, SubmitterAt, SchedulerAt, GrapherAt, GrapherWait,
     GrapherGoes, TakeSemaphore, TakeAhead, Taken, Heads, Head0, Head1, queueVars,
     handshakeVars
<1>4. Meeting'
  BY DEF Meeting, Lag, AtBarrier, TypeOK, SchedulerAt, GrapherAt, GrapherWait,
     GrapherGoes, TakeSemaphore, TakeAhead, Taken, Heads, Head0, Head1, queueVars,
     handshakeVars
<1>5. Recent'
  BY DEF Recent, CopyFresh, Counters, Meeting, AtBarrier, Holds, TypeOK,
     GrapherWait, GrapherGoes, TakeSemaphore, TakeAhead, Taken, Heads, Head0, Head1,
     queueVars, handshakeVars
<1> QED
  BY <1>1, <1>2, <1>3, <1>4, <1>5

(* Answering a note, or not, keeps the invariant.                            *)
LEMMA InvGrapherCheck == ASSUME HandshakeInv, GrapherCheck PROVE HandshakeInv'
<1> USE DEF HandshakeInv
<1>0. Scalars
  BY Typed
<1>1. TypeOK'
  BY DEF TypeOK, SubmitterAt, SchedulerAt, GrapherAt, GrapherCheck, GrapherGoes,
     AnswersNote, Heads, Head0, Head1, queueVars, handshakeVars
<1>2. Tokens'
  <2>1. /\ grapher = "check"
        /\ UNCHANGED <<pushed, popped, sem, ahead, submitter, scheduler>>
    BY DEF GrapherCheck, GrapherGoes, queueVars
  <2>2. CASE AnswersNote
    <3>1. note = TRUE /\ note' = FALSE /\ grapher' = "meet"
      BY <2>2, Zenon DEF GrapherCheck, GrapherGoes, AnswersNote
    <3>2. scheduler \in {"free0", "free1", "meet", "meeting"}
      BY <3>1 DEF Meeting, TypeOK, SchedulerAt
    <3> QED
      BY <2>1, <3>1, <3>2, <1>0, LeadBounds, MaxMessagesAssumption DEF Scalars,
         Tokens, Notified0, Notified1, SpareSem, SpareAhead, Holds
  <2>3. CASE ~AnswersNote
    <3>1. note' = note /\ grapher' = "pop"
      BY <2>3, Zenon DEF GrapherCheck, GrapherGoes, TypeOK
    <3>2. /\ popped[Head0] <= Notified0
          /\ Notified0 <= pushed[Head1]
      BY <1>0 DEF Scalars, Tokens, Notified0, Notified1, SpareSem, SpareAhead, Holds
    <3>3. note => popped[Head1] + 1 < popped[Head0] /\ popped[Head0] <= Notified1 + 1
      BY <2>1, <2>3, <3>2, <1>0 DEF AnswersNote, Counters, Meeting, Scalars, Tokens,
         Notified0, Notified1, SpareSem, SpareAhead, Holds
    <3> QED
      BY <2>1, <3>1, <3>3, <1>0, LeadBounds, MaxMessagesAssumption DEF Scalars,
         Tokens, Notified0, Notified1, SpareSem, SpareAhead, Holds
  <2> QED
    BY <2>2, <2>3
<1>3. Counters'
  BY DEF Counters, Holds, TypeOK, SubmitterAt, SchedulerAt, GrapherAt, GrapherCheck,
     GrapherGoes, AnswersNote, Heads, Head0, Head1, queueVars, handshakeVars
<1>4. Meeting'
  BY DEF Meeting, Lag, AtBarrier, TypeOK, SchedulerAt, GrapherAt, GrapherCheck,
     GrapherGoes, AnswersNote, Heads, Head0, Head1, queueVars, handshakeVars
<1>5. Recent'
  BY DEF Recent, CopyFresh, Counters, Meeting, AtBarrier, Holds, TypeOK,
     GrapherCheck, GrapherGoes, AnswersNote, Heads, Head0, Head1, queueVars,
     handshakeVars
<1> QED
  BY <1>1, <1>2, <1>3, <1>4, <1>5

(* Popping at head 1 keeps the invariant.                                    *)
LEMMA InvGrapherPop == ASSUME HandshakeInv, GrapherPop PROVE HandshakeInv'
<1> USE DEF HandshakeInv
<1>0. Scalars
  BY Typed
<1>1. TypeOK'
  BY DEF TypeOK, SubmitterAt, SchedulerAt, GrapherAt, GrapherPop, GrapherGoes, Pop,
     LetOtherAdvance, Posted, Other, Heads, Head0, Head1, queueVars, handshakeVars
<1>2. Tokens'
  <2>1. CASE GrapherGoes("pop", "post") /\ Pop(Head1)
    <3>1. /\ popped'[Head0] = popped[Head0] /\ popped'[Head1] = popped[Head1] + 1
          /\ grapher = "pop" /\ grapher' = "post"
          /\ UNCHANGED <<pushed, sem, ahead, submitter, scheduler, note>>
      BY <2>1 DEF TypeOK, GrapherPop, GrapherGoes, Pop, LetOtherAdvance, Other,
         Posted, Heads, Head0, Head1, queueVars, handshakeVars
    <3>2. /\ popped[Head1] < Notified1
          /\ popped[Head1] < popped[Head0] + Lead[Head1]
      BY <3>1 DEF Tokens
    <3>3. Tokens
      OBVIOUS
    <3>4. /\ popped'[Head1] <= popped'[Head0] + Lead[Head1]
          /\ sem'[Head1] = Notified1' - popped'[Head1] + SpareSem' - Holds(grapher' \in {"ahead", "check", "pop"})
      BY <3>1, <3>2, <3>3, <1>0, LeadBounds DEF Scalars, Tokens, Notified1,
         SpareSem, Holds
    <3> QED
      BY <3>1, <3>3, <3>4, <1>0, LeadBounds DEF Scalars, Tokens, Notified0,
         Notified1, SpareAhead, Holds
  <2>2. CASE GrapherGoes("post", "update") /\ LetOtherAdvance(Head1)
    <3>1. /\ ahead'[Head0] = ahead[Head0] + 1 /\ ahead'[Head1] = ahead[Head1]
          /\ grapher = "post" /\ grapher' = "update"
          /\ UNCHANGED <<pushed, popped, sem, submitter, scheduler, note>>
      BY <2>2, Room DEF TypeOK, GrapherPop, GrapherGoes, Pop, LetOtherAdvance,
         Other, Posted, Heads, Head0, Head1, queueVars, handshakeVars, NoOverflow
    <3> QED
      BY <3>1, <1>0, LeadBounds, MaxMessagesAssumption DEF Scalars, Tokens,
         Notified0, Notified1, SpareSem, SpareAhead, Holds
  <2> QED
    BY <2>1, <2>2 DEF GrapherPop
<1>3. Counters'
  <2>1. UNCHANGED <<scheduler, dispatched, tracked, processed>>
    BY DEF GrapherPop, handshakeVars
  <2>2. CASE GrapherGoes("pop", "post") /\ Pop(Head1)
    <3>1. /\ popped'[Head0] = popped[Head0]
          /\ popped'[Head1] = popped[Head1] + 1
          /\ grapher = "pop" /\ grapher' = "post"
      BY <2>2 DEF GrapherGoes, Pop, TypeOK, Heads, Head0, Head1
    <3> QED
      BY <2>1, <3>1 DEF Counters, Holds, TypeOK, Heads, Head0, Head1
  <2>3. CASE GrapherGoes("post", "update") /\ LetOtherAdvance(Head1)
    <3>1. popped' = popped /\ grapher = "post" /\ grapher' \in {"update"}
      BY <2>3 DEF GrapherGoes, LetOtherAdvance
    <3> QED
      BY <2>1, <3>1 DEF Counters, Holds, TypeOK, Heads, Head0, Head1
  <2> QED
    BY <2>2, <2>3 DEF GrapherPop
<1>4. Meeting'
  BY DEF Meeting, Lag, AtBarrier, TypeOK, SchedulerAt, GrapherAt, GrapherPop,
     GrapherGoes, Pop, LetOtherAdvance, Posted, Other, Heads, Head0, Head1,
     queueVars, handshakeVars
<1>5. Recent'
  BY DEF Recent, CopyFresh, Counters, Meeting, AtBarrier, Holds, TypeOK, GrapherPop,
     GrapherGoes, Pop, LetOtherAdvance, Posted, Other, Heads, Head0, Head1,
     queueVars, handshakeVars
<1> QED
  BY <1>1, <1>2, <1>3, <1>4, <1>5

(* Folding a message into the graph keeps the invariant.                     *)
LEMMA InvUpdateGraph == ASSUME HandshakeInv, UpdateGraph PROVE HandshakeInv'
<1> USE DEF HandshakeInv
<1>0. Scalars
  BY Typed
<1>1. TypeOK'
  BY DEF TypeOK, SubmitterAt, SchedulerAt, GrapherAt, UpdateGraph, GrapherGoes,
     Heads, Head0, Head1, queueVars, handshakeVars
<1>2. Tokens'
  BY <1>0, LeadBounds, MaxMessagesAssumption DEF Scalars, Tokens, Notified0,
     Notified1, SpareSem, SpareAhead, Holds, UpdateGraph, GrapherGoes, Heads, Head0,
     Head1, queueVars, handshakeVars, Meeting
<1>3. Counters'
  BY SMTT(20) DEF Counters, Holds, TypeOK, SubmitterAt, SchedulerAt, GrapherAt, UpdateGraph,
     GrapherGoes, Heads, Head0, Head1, queueVars, handshakeVars
<1>4. Meeting'
  BY DEF Meeting, Lag, AtBarrier, TypeOK, SchedulerAt, GrapherAt, UpdateGraph,
     GrapherGoes, Heads, Head0, Head1, queueVars, handshakeVars
<1>5. Recent'
  BY DEF Recent, CopyFresh, Counters, Meeting, AtBarrier, Holds, TypeOK,
     UpdateGraph, GrapherGoes, Heads, Head0, Head1, queueVars, handshakeVars
<1> QED
  BY <1>1, <1>2, <1>3, <1>4, <1>5

(* Counting a message keeps the invariant.                                   *)
LEMMA InvCountProcessed == ASSUME HandshakeInv, CountProcessed PROVE HandshakeInv'
<1> USE DEF HandshakeInv
<1>0. Scalars
  BY Typed
<1>1. TypeOK'
  BY DEF TypeOK, SubmitterAt, SchedulerAt, GrapherAt, CountProcessed, GrapherGoes,
     Heads, Head0, Head1, queueVars, handshakeVars
<1>2. Tokens'
  BY <1>0, LeadBounds, MaxMessagesAssumption DEF Scalars, Tokens, Notified0,
     Notified1, SpareSem, SpareAhead, Holds, CountProcessed, GrapherGoes, Heads,
     Head0, Head1, queueVars, handshakeVars, Meeting
<1>3. Counters'
  BY DEF Counters, Holds, TypeOK, SubmitterAt, SchedulerAt, GrapherAt,
     CountProcessed, GrapherGoes, Heads, Head0, Head1, queueVars, handshakeVars
<1>4. Meeting'
  BY DEF Meeting, Lag, AtBarrier, TypeOK, SchedulerAt, GrapherAt, CountProcessed,
     GrapherGoes, Heads, Head0, Head1, queueVars, handshakeVars
<1>5. Recent'
  BY DEF Recent, CopyFresh, Counters, Meeting, AtBarrier, Holds, TypeOK,
     CountProcessed, GrapherGoes, Heads, Head0, Head1, queueVars, handshakeVars
<1> QED
  BY <1>1, <1>2, <1>3, <1>4, <1>5

(* The graph thread's arrival at the barrier keeps the invariant.            *)
LEMMA InvGrapherArrive == ASSUME HandshakeInv, GrapherArrive PROVE HandshakeInv'
<1> USE DEF HandshakeInv
<1>0. Scalars
  BY Typed
<1>1. TypeOK'
  BY DEF TypeOK, SubmitterAt, SchedulerAt, GrapherAt, GrapherArrive, GrapherGoes,
     Arrives, Heads, Head0, Head1, queueVars, handshakeVars
<1>2. Tokens'
  BY <1>0, LeadBounds, MaxMessagesAssumption DEF Scalars, Tokens, Notified0,
     Notified1, SpareSem, SpareAhead, Holds, GrapherArrive, GrapherGoes, Arrives,
     Heads, Head0, Head1, queueVars, handshakeVars, Meeting
<1>3. Counters'
  BY DEF Counters, Holds, TypeOK, SubmitterAt, SchedulerAt, GrapherAt,
     GrapherArrive, GrapherGoes, Arrives, Heads, Head0, Head1, queueVars,
     handshakeVars
<1>4. Meeting'
  <2>1. /\ UNCHANGED <<scheduler, note>>
        /\ Lag' = Lag - 1 /\ Lag \in Int
        /\ \/ grapher = "meet" /\ grapher' = "meeting"
           \/ grapher = "part" /\ grapher' = "parting"
    <3>1. /\ arrivals'[Head1] = arrivals[Head1] + 1
          /\ arrivals'[Head0] = arrivals[Head0]
          /\ UNCHANGED <<scheduler, note>>
          /\ \/ grapher = "meet" /\ grapher' = "meeting"
             \/ grapher = "part" /\ grapher' = "parting"
      BY DEF GrapherArrive, GrapherGoes, Arrives, TypeOK, Heads, Head0, Head1
    <3>2. Lag' = Lag - 1 /\ Lag \in Int
      BY <3>1, <1>0 DEF Lag, Scalars
    <3> QED
      BY <3>1, <3>2
  <2> QED
    BY <2>1 DEF Meeting, AtBarrier, TypeOK, SchedulerAt, GrapherAt
<1>5. Recent'
  BY DEF Recent, CopyFresh, Counters, Meeting, AtBarrier, Holds, TypeOK,
     GrapherArrive, GrapherGoes, Arrives, Heads, Head0, Head1, queueVars,
     handshakeVars
<1> QED
  BY <1>1, <1>2, <1>3, <1>4, <1>5

(* The graph thread's release from the barrier keeps the invariant.          *)
LEMMA InvGrapherLeave == ASSUME HandshakeInv, GrapherLeave PROVE HandshakeInv'
<1> USE DEF HandshakeInv
<1>0. Scalars
  BY Typed
<1>1. TypeOK'
  BY DEF TypeOK, SubmitterAt, SchedulerAt, GrapherAt, GrapherLeave, GrapherGoes,
     AfterMeeting, Released, Other, Heads, Head0, Head1, queueVars, handshakeVars
<1>2. Tokens'
  BY <1>0, LeadBounds, MaxMessagesAssumption DEF Scalars, Tokens, Notified0,
     Notified1, SpareSem, SpareAhead, Holds, GrapherLeave, GrapherGoes,
     AfterMeeting, Released, Other, Heads, Head0, Head1, queueVars, handshakeVars,
     Meeting
<1>3. Counters'
  BY DEF Counters, Holds, TypeOK, SubmitterAt, SchedulerAt, GrapherAt, GrapherLeave,
     GrapherGoes, AfterMeeting, Released, Other, Heads, Head0, Head1, queueVars,
     handshakeVars
<1>4. Meeting'
  BY SMTT(20) DEF Meeting, Lag, AtBarrier, TypeOK, SchedulerAt, GrapherAt, GrapherLeave,
     GrapherGoes, AfterMeeting, Released, Other, Heads, Head0, Head1, queueVars,
     handshakeVars
<1>5. Recent'
  BY DEF Recent, CopyFresh, Counters, Meeting, AtBarrier, Holds, TypeOK,
     GrapherLeave, GrapherGoes, AfterMeeting, Released, Other, Heads, Head0, Head1,
     queueVars, handshakeVars
<1> QED
  BY <1>1, <1>2, <1>3, <1>4, <1>5

(* The invariant holds initially.                                            *)
LEMMA InvInit == Init => HandshakeInv
<1> SUFFICES ASSUME Init PROVE HandshakeInv
  OBVIOUS
<1>1. TypeOK
  <2>1. ahead \in [Heads -> Nat]
    BY DistanceAssumption, SemValueMaxAssumption DEF Init, Lead, Heads, Head0, Head1
  <2>2. snapshots \in Seq([dispatched : Nat, tracked : Nat])
    BY SMT DEF Init
  <2>3. note \in BOOLEAN
    BY Zenon DEF Init
  <2>4. /\ pushed \in [Heads -> Nat] /\ popped \in [Heads -> Nat]
        /\ sem \in [Heads -> Nat] /\ arrivals \in [Heads -> Nat]
        /\ dispatched \in Nat /\ processed \in Nat /\ tracked \in Nat
        /\ submitter \in SubmitterAt /\ scheduler \in SchedulerAt /\ grapher \in GrapherAt
    BY DEF Init, SubmitterAt, SchedulerAt, GrapherAt
  <2> QED
    BY <2>1, <2>2, <2>3, <2>4, Zenon DEF TypeOK
<1>2. Scalars
  BY <1>1, Typed
<1>3. Tokens
  BY <1>2, LeadBounds, MaxMessagesAssumption DEF Init, Scalars, Tokens, Notified0,
     Notified1, SpareSem, SpareAhead, Holds, Heads, Head0, Head1
<1>4. Counters
  BY DEF Init, Counters, Holds, Heads, Head0, Head1
<1>5. Meeting
  BY DEF Init, Meeting, Lag, AtBarrier, Heads, Head0, Head1
<1>6. Recent
  BY DEF Init, Recent, CopyFresh
<1> QED
  BY <1>1, <1>3, <1>4, <1>5, <1>6 DEF HandshakeInv

(* A step that changes nothing keeps the invariant.                          *)
LEMMA InvStutter == ASSUME HandshakeInv, UNCHANGED vars PROVE HandshakeInv'
<1>1. UNCHANGED <<pushed, popped, sem, ahead, submitter, scheduler, grapher,
                  dispatched, processed, note, tracked, arrivals, snapshots>>
  BY DEF vars, queueVars, handshakeVars
<1> QED
  BY <1>1 DEF HandshakeInv, TypeOK, Tokens, Notified0, Notified1, SpareSem,
     SpareAhead, Holds, Counters, Meeting, Lag, AtBarrier, Recent, CopyFresh

(* Every step keeps the invariant.                                           *)
LEMMA InvNext == ASSUME HandshakeInv, [Next]_vars PROVE HandshakeInv'
<1>1. CASE Submit
  BY <1>1, InvSubmit
<1>2. CASE Scheduler
  BY <1>2, InvSchedulerWait, InvSchedulerPop, InvSchedulerDispatch, InvLeaveNote,
     InvFreeGrapher, InvSchedulerArrive, InvSchedulerLeave, InvCopyGraph,
     InvInstallMap DEF Scheduler
<1>3. CASE Grapher
  BY <1>3, InvGrapherWait, InvGrapherCheck, InvGrapherPop, InvUpdateGraph,
     InvCountProcessed, InvGrapherArrive, InvGrapherLeave DEF Grapher
<1>4. CASE Terminated \/ UNCHANGED vars
  BY <1>4, InvStutter DEF Terminated
<1> QED
  BY <1>1, <1>2, <1>3, <1>4 DEF Next

(* The invariant is inductive: tokens, counters and barrier arrivals agree   *)
(* with where the two threads are, for every distance and interval.          *)
THEOREM HandshakeInductive == Safety => []HandshakeInv
<1>1. Init => HandshakeInv
  BY InvInit
<1>2. HandshakeInv /\ [Next]_vars => HandshakeInv'
  BY InvNext
<1> QED
  BY <1>1, <1>2, PTL DEF Safety

(* The queue and the two threads are type correct.                           *)
THEOREM HandshakeTypes == Safety => []TypeOK
<1>1. HandshakeInv => TypeOK
  BY DEF HandshakeInv
<1> QED
  BY <1>1, HandshakeInductive, PTL

(* Neither thread ever takes the front of an empty queue, although free<1>   *)
(* posts tokens for messages that do not exist (wait, free, pop).            *)
THEOREM NoEmptyPopTheorem == Safety => []NoEmptyPop
<1>1. HandshakeInv => NoEmptyPop
  <2> SUFFICES ASSUME HandshakeInv PROVE NoEmptyPop
    OBVIOUS
  <2> USE DEF HandshakeInv
  <2>1. Scalars
    BY Typed
  <2>2. scheduler = "pop" => popped[Head0] < pushed[Head0]
    BY <2>1 DEF Scalars, Tokens, Notified0, Holds
  <2>3. grapher = "pop" => popped[Head1] < pushed[Head1]
    BY <2>1 DEF Scalars, Tokens, Notified1, Holds
  <2> QED
    BY <2>2, <2>3 DEF NoEmptyPop
<1> QED
  BY <1>1, HandshakeInductive, PTL

(* Neither head ever runs further ahead of the other than its semaphore was  *)
(* initialised to (the constructors of Queue, wait, pop, free).              *)
THEOREM HeadDistanceTheorem == Safety => []HeadDistance
<1>1. HandshakeInv => HeadDistance
  <2> SUFFICES ASSUME HandshakeInv PROVE HeadDistance
    OBVIOUS
  <2> USE DEF HandshakeInv
  <2>1. Scalars
    BY Typed
  <2>2. popped[Head0] - popped[Head1] <= Lead[Head0]
    BY <2>1, LeadBounds DEF Scalars, Tokens, Holds
  <2>3. popped[Head1] - popped[Head0] <= Lead[Head1]
    BY <2>1, LeadBounds DEF Scalars, Tokens
  <2> QED
    BY <2>2, <2>3 DEF HeadDistance, Heads, Other, Head0, Head1
<1> QED
  BY <1>1, HandshakeInductive, PTL

(* The graph is only copied while the graph thread is held at the barrier    *)
(* (schedule_and_answer, update_graph_loop).                                 *)
THEOREM CopyExclusiveTheorem == Safety => []CopyExclusive
<1>1. HandshakeInv => CopyExclusive
  BY DEF HandshakeInv, Meeting, CopyExclusive
<1> QED
  BY <1>1, HandshakeInductive, PTL

(* Every copy of the graph lacks at most the last request dispatched         *)
(* (update_graph_loop's test).                                               *)
THEOREM CopyFreshTheorem == Safety => []CopyFresh
<1>1. HandshakeInv => CopyFresh
  BY DEF HandshakeInv, Recent
<1> QED
  BY <1>1, HandshakeInductive, PTL

(* No token is ever lost to a full semaphore, the one that starts at         *)
(* SEM_VALUE_MAX included (notify, free, pop, the constructors).             *)
THEOREM NoOverflowTheorem == Safety => []NoOverflow
<1> QED
  BY Room, HandshakeInductive, PTL

(* The queue implements TwoHeadedStream: every pop takes the next message,   *)
(* pushed for both threads, within the lead its head was given, whatever     *)
(* free<1> posts in between.                                                 *)
THEOREM ImplementsTwoHeadsTheorem == Safety => ImplementsTwoHeads
<1>1. Init => Stream!Init
  BY DEF Init, Stream!Init, Heads, Head0, Head1, Stream!Heads
<1>2. HandshakeInv /\ [Next]_vars => [Stream!Next]_(Stream!vars)
  <2> SUFFICES ASSUME HandshakeInv, [Next]_vars
               PROVE  [Stream!Next]_(Stream!vars)
    OBVIOUS
  <2> USE DEF HandshakeInv, Stream!vars, Stream!Heads
  <2>0. /\ Scalars /\ popped \in [Heads -> Nat] /\ pushed \in [Heads -> Nat]
        /\ submitter \in {"push0", "push1", "notify0", "notify1"}
    BY Typed DEF TypeOK, SubmitterAt
  <2>1. CASE Submit
    <3>1. popped' = popped
      BY <2>0, <2>1 DEF Submit, SubmitStep, SubmitPush, Notify
    <3>2. pushed'[Head1] = pushed[Head1] \/ pushed'[Head1] = pushed[Head1] + 1
      BY <2>0, <2>1 DEF Submit, SubmitStep, SubmitPush, Notify, Heads, Head0, Head1
    <3> QED
      BY <3>1, <3>2 DEF Stream!Next, Stream!Push
  <2>2. CASE SchedulerPop /\ Pop(Head0)
    <3>1. scheduler = "pop"
      BY <2>2, <2>0 DEF SchedulerPop, SchedulerGoes, Pop, LetOtherAdvance, Head0, Head1,
                        Heads
    <3>2. /\ popped[Head0] < pushed[Head1]
          /\ popped[Head0] < popped[Head1] + Lead[Head0]
      BY <2>0, <3>1, LeadBounds DEF Scalars, Tokens, Notified0, Holds
    <3> QED
      BY <2>2, <3>2 DEF Pop, Stream!Next, Stream!Take, Head0, Head1
  <2>3. CASE GrapherPop /\ Pop(Head1)
    <3>1. grapher = "pop"
      BY <2>3, <2>0 DEF GrapherPop, GrapherGoes, Pop, LetOtherAdvance, Head0, Head1, Heads
    <3>2. /\ popped[Head1] < pushed[Head1]
          /\ popped[Head1] < popped[Head0] + Lead[Head1]
      BY <2>0, <3>1, LeadBounds DEF Scalars, Tokens, Notified1, Holds
    <3> QED
      BY <2>3, <3>2 DEF Pop, Stream!Next, Stream!Take, Head0, Head1
  <2>4. CASE UNCHANGED <<pushed, popped>>
    BY <2>4
  <2>5. Submit \/ (SchedulerPop /\ Pop(Head0)) \/ (GrapherPop /\ Pop(Head1))
          \/ UNCHANGED <<pushed, popped>>
    BY DEF Next, Scheduler, Grapher, SchedulerWait, SchedulerPop, SchedulerDispatch,
           LeaveNote, FreeGrapher, SchedulerArrive, SchedulerLeave, CopyGraph,
           InstallMap, GrapherWait, GrapherCheck, GrapherPop, UpdateGraph,
           CountProcessed, GrapherArrive, GrapherLeave, Terminated, TakeSemaphore,
           TakeAhead, LetOtherAdvance, Notify, Arrives, vars, queueVars, handshakeVars
  <2> QED
    BY <2>1, <2>2, <2>3, <2>4, <2>5
<1> QED
  BY <1>1, <1>2, HandshakeInductive, PTL DEF Safety, ImplementsTwoHeads, Stream!Safety

-----------------------------------------------------------------------------
(* Nobody is left waiting.                                                   *)

(* Of the two heads one may lead the other (the constructors).               *)
LEMMA LeadSum == Lead[Head0] + Lead[Head1] > 0
BY DistanceAssumption, MaxMessagesAssumption, SemValueMaxAssumption DEF Lead, Heads,
   Head0, Head1

(* Only a pop changes what was popped, at a place that it leaves.            *)
LEMMA PoppedChanges ==
    ASSUME HandshakeInv, [Next]_vars
    PROVE  /\ \/ popped'[Head0] = popped[Head0]
              \/ scheduler = "pop" /\ scheduler' = "post"
           /\ \/ popped'[Head1] = popped[Head1]
              \/ /\ grapher = "pop" /\ popped'[Head1] = popped[Head1] + 1
                 /\ UNCHANGED <<pushed, submitter>>
<1> USE DEF HandshakeInv
<1>0. /\ popped \in [Heads -> Nat] /\ Head0 \in Heads /\ Head1 \in Heads /\ Head0 # Head1
  BY DEF TypeOK, Heads, Head0, Head1
<1>1. CASE Submit
  BY <1>1 DEF TypeOK, SubmitterAt, Submit, SubmitStep, SubmitPush, Notify
<1>2. CASE SchedulerPop
  BY <1>0, <1>2 DEF SchedulerPop, SchedulerGoes, Pop, LetOtherAdvance
<1>3. CASE GrapherPop
  <2>1. CASE GrapherGoes("pop", "post") /\ Pop(Head1)
    BY <1>0, <1>3, <2>1 DEF GrapherPop, GrapherGoes, Pop
  <2>2. CASE GrapherGoes("post", "update") /\ LetOtherAdvance(Head1)
    BY <2>2 DEF LetOtherAdvance
  <2> QED
    BY <1>3, <2>1, <2>2 DEF GrapherPop
<1>4. popped' = popped \/ Submit \/ SchedulerPop \/ GrapherPop
  BY DEF Next, Scheduler, Grapher, SchedulerWait, SchedulerDispatch, LeaveNote,
         FreeGrapher, SchedulerArrive, SchedulerLeave, CopyGraph, InstallMap,
         GrapherWait, GrapherCheck, UpdateGraph, CountProcessed, GrapherArrive,
         GrapherLeave, Terminated, TakeSemaphore, TakeAhead, Notify, Arrives, vars,
         queueVars, handshakeVars
<1> QED
  BY <1>1, <1>2, <1>3, <1>4

(* The scheduling thread ends at the last message, in every step.            *)
LEMMA EndStep == ASSUME HandshakeInv, EndIsLast, [Next]_vars PROVE EndIsLast'
<1> SUFFICES ASSUME scheduler' = "ended" PROVE popped'[Head0] = MaxMessages
  BY DEF EndIsLast
<1>1. popped'[Head0] = popped[Head0]
  BY PoppedChanges
<1>2. scheduler = "ended" \/ (scheduler = "post" /\ IsEnd(popped[Head0]))
  BY DEF Next, Submit, Scheduler, Grapher, SchedulerWait, SchedulerPop,
         SchedulerDispatch, LeaveNote, FreeGrapher, SchedulerArrive, SchedulerLeave,
         CopyGraph, InstallMap, GrapherWait, GrapherCheck, GrapherPop, UpdateGraph,
         CountProcessed, GrapherArrive, GrapherLeave, Terminated, SchedulerGoes, vars
<1> QED
  BY <1>1, <1>2 DEF EndIsLast, IsEnd

(* A message the graph thread pops was announced, in every step.             *)
LEMMA NotifiedStep == ASSUME HandshakeInv, OnlyNotified, [Next]_vars PROVE OnlyNotified'
<1> USE DEF HandshakeInv
<1>0. Scalars /\ submitter \in SubmitterAt /\ pushed \in [Heads -> Nat]
  BY Typed DEF TypeOK
<1>1. Notified1 \in Int /\ Notified1' \in Int /\ Notified1' >= Notified1
  <2>1. CASE Submit
    <3>1. CASE submitter = "push1"
      <4>1. pushed'[Head1] = pushed[Head1] + 1 /\ submitter' = "notify0"
        BY <1>0, <2>1, <3>1 DEF Submit, SubmitStep, SubmitPush, Heads, Head1
      <4> QED
        BY <1>0, <3>1, <4>1 DEF Scalars, Notified1, Holds
    <3>2. CASE submitter # "push1"
      <4>1. pushed'[Head1] = pushed[Head1]
        <5>1. CASE submitter = "push0"
          BY <1>0, <2>1, <5>1 DEF Submit, SubmitStep, SubmitPush, Heads, Head0, Head1
        <5>2. CASE submitter \in {"notify0", "notify1"}
          BY <2>1, <5>2 DEF Submit, SubmitStep, Notify
        <5> QED
          BY <1>0, <3>2, <5>1, <5>2 DEF SubmitterAt
      <4>2. submitter' \in {"notify0", "notify1"} => submitter \in {"notify0", "notify1"}
        BY <1>0, <2>1, <3>2 DEF SubmitterAt, Submit, SubmitStep
      <4> QED
        BY <1>0, <4>1, <4>2 DEF Scalars, Notified1, Holds
    <3> QED
      BY <3>1, <3>2
  <2>2. CASE UNCHANGED <<pushed, submitter>>
    BY <1>0, <2>2 DEF Scalars, Notified1, Holds
  <2>3. Submit \/ UNCHANGED <<pushed, submitter>>
    BY DEF Next, Scheduler, Grapher, SchedulerWait, SchedulerPop, SchedulerDispatch,
           LeaveNote, FreeGrapher, SchedulerArrive, SchedulerLeave, CopyGraph,
           InstallMap, GrapherWait, GrapherCheck, GrapherPop, UpdateGraph,
           CountProcessed, GrapherArrive, GrapherLeave, Terminated, TakeSemaphore,
           TakeAhead, Pop, LetOtherAdvance, Notify, Arrives, vars, queueVars
  <2> QED
    BY <2>1, <2>2, <2>3
<1>2. \/ popped'[Head1] = popped[Head1]
      \/ grapher = "pop" /\ popped'[Head1] = popped[Head1] + 1
  BY PoppedChanges
<1>3. grapher = "pop" => popped[Head1] < Notified1
  BY DEF Tokens
<1> QED
  BY <1>0, <1>1, <1>2, <1>3 DEF OnlyNotified, Scalars

(* A thread that waits at the queue does so because every message has gone   *)
(* by it, and one that waits at the barrier has the other on its way there.  *)
LEMMA NobodyLeft ==
    ASSUME HandshakeInv, EndIsLast, OnlyNotified PROVE NobodyLeftWaiting
<1> SUFFICES ASSUME submitter = "push0", SchedulerWaits, GrapherWaits
             PROVE  /\ scheduler \in {"wait", "ended"} /\ grapher = "wait"
                    /\ popped[Head0] = pushed[Head0] /\ popped[Head1] = pushed[Head0]
                    /\ processed = pushed[Head0]
  BY DEF NobodyLeftWaiting, Heads
<1> USE DEF HandshakeInv
<1>0. Scalars /\ MaxMessages \in Nat
  BY Typed, MaxMessagesAssumption
<1>1. /\ pushed[Head1] = pushed[Head0]
      /\ Notified0 = pushed[Head0] /\ Notified1 = pushed[Head0]
      /\ popped[Head1] <= pushed[Head0]
  BY <1>0 DEF Scalars, Tokens, Notified0, Notified1, Holds, OnlyNotified
<1> DEFINE taken0 == Holds(scheduler \in {"ahead", "pop"})
           taken1 == Holds(grapher \in {"ahead", "check", "pop"})
           used0  == Holds(grapher = "post") + Holds(scheduler = "pop")
           used1  == Holds(scheduler = "post") + Holds(grapher \in {"check", "pop"})
<1>2. /\ sem[Head0] = pushed[Head0] - popped[Head0] - taken0
      /\ sem[Head1] = pushed[Head0] - popped[Head1] + SpareSem - taken1
      /\ ahead[Head0] = Lead[Head0] + popped[Head1] - popped[Head0] - used0
      /\ ahead[Head1] = Lead[Head1] + popped[Head0] - popped[Head1] + SpareAhead - used1
      /\ popped[Head1] <= popped[Head0] + Lead[Head1]
      /\ pushed[Head0] <= MaxMessages
  <2>1. SpareSem \in Int /\ SpareAhead \in Int
    BY DEF SpareSem, SpareAhead, Holds
  <2>2. taken0 \in Int /\ taken1 \in Int /\ used0 \in Int /\ used1 \in Int
    BY DEF Holds
  <2>3. Holds(grapher = "post") \in Int /\ Holds(scheduler = "pop") \in Int
        /\ Holds(scheduler = "post") \in Int /\ Holds(grapher \in {"check", "pop"}) \in Int
    BY DEF Holds
  <2> QED
    BY <1>0, <1>1, <2>1, <2>2, <2>3, LeadBounds DEF Scalars, Tokens
<1>3. /\ Released(Head0) <=> Lag <= 0
      /\ Released(Head1) <=> Lag >= 0
  BY <1>0 DEF Scalars, Lag, Released, Other, Head0, Head1
<1> HIDE DEF taken0, taken1, used0, used1
<1>4. scheduler # "parting"
  BY <1>3 DEF SchedulerWaits, GrapherWaits, Meeting, AtBarrier
<1>5. scheduler # "meeting"
  <2> SUFFICES ASSUME scheduler = "meeting" PROVE FALSE
    OBVIOUS
  <2>1. note /\ Lag = 1 /\ grapher \notin AtBarrier
    BY <1>3 DEF SchedulerWaits, GrapherWaits, Meeting, AtBarrier
  <2>2. SpareSem = 1 /\ SpareAhead = 1
    BY <2>1 DEF SpareSem, SpareAhead, Holds
  <2>3. ~(grapher = "wait" /\ sem[Head1] = 0)
    BY <1>0, <1>2, <1>1, <2>2 DEF Scalars, Holds, taken1
  <2>4. ~(grapher = "ahead" /\ ahead[Head1] = 0)
    BY <1>0, <1>2, <2>2, LeadBounds DEF Scalars, Holds, used1
  <2> QED
    BY <1>3, <2>1, <2>3, <2>4 DEF GrapherWaits, AtBarrier
<1>6. scheduler \in {"wait", "ahead", "ended"}
  BY <1>4, <1>5 DEF SchedulerWaits
<1>7. grapher \in {"wait", "ahead"}
  BY <1>3, <1>6 DEF GrapherWaits, Meeting, AtBarrier
<1>8. SpareSem = 0 /\ SpareAhead = 0 /\ used0 = 0 /\ used1 = 0
  BY <1>6, <1>7 DEF SpareSem, SpareAhead, Holds, used0, used1
<1>9. /\ grapher = "wait" => popped[Head1] = pushed[Head0]
      /\ grapher = "ahead" => /\ popped[Head1] < pushed[Head0]
                              /\ Lead[Head1] + popped[Head0] = popped[Head1]
  <2>1. CASE grapher = "wait"
    <3>1. taken1 = 0 /\ sem[Head1] = 0
      BY <2>1 DEF GrapherWaits, Holds, taken1
    <3> QED
      BY <1>0, <1>2, <1>8, <2>1, <3>1 DEF Scalars
  <2>2. CASE grapher = "ahead"
    <3>1. taken1 = 1 /\ ahead[Head1] = 0
      BY <2>2 DEF GrapherWaits, Holds, taken1
    <3>2. sem[Head1] = pushed[Head0] - popped[Head1] - 1
      BY <1>0, <1>2, <1>8, <3>1 DEF Scalars
    <3>3. 0 = Lead[Head1] + popped[Head0] - popped[Head1]
      BY <1>0, <1>2, <1>8, <3>1, LeadBounds DEF Scalars
    <3> QED
      BY <1>0, <2>2, <3>2, <3>3, LeadBounds DEF Scalars
  <2> QED
    BY <2>1, <2>2
<1>10. scheduler # "ahead"
  <2> SUFFICES ASSUME scheduler = "ahead" PROVE FALSE
    OBVIOUS
  <2>1. ahead[Head0] = 0 /\ taken0 = 1
    BY DEF SchedulerWaits, Holds, taken0
  <2>2. popped[Head0] < pushed[Head0] /\ Lead[Head0] + popped[Head1] = popped[Head0]
    <3>1. sem[Head0] = pushed[Head0] - popped[Head0] - 1
      BY <1>2, <2>1
    <3>2. 0 = Lead[Head0] + popped[Head1] - popped[Head0]
      BY <1>0, <1>2, <1>8, <2>1, LeadBounds DEF Scalars
    <3>3. popped[Head0] < pushed[Head0]
      BY <1>0, <3>1 DEF Scalars
    <3>4. Lead[Head0] + popped[Head1] = popped[Head0]
      <4>1. Lead[Head0] \in Int /\ popped[Head0] \in Int /\ popped[Head1] \in Int
        BY <1>0, LeadBounds DEF Scalars
      <4> QED
        BY <3>2, <4>1
    <3> QED
      BY <3>3, <3>4
  <2> QED
    BY <1>0, <1>7, <1>9, <2>2, LeadBounds, LeadSum DEF Scalars
<1>11. popped[Head0] = pushed[Head0]
  <2>1. taken0 = 0
    BY <1>6, <1>10 DEF Holds, taken0
  <2>2. scheduler = "wait" => sem[Head0] = 0
    BY DEF SchedulerWaits
  <2> QED
    BY <1>0, <1>2, <1>6, <1>10, <2>1, <2>2 DEF EndIsLast, Scalars
<1>12. grapher = "wait"
  BY <1>0, <1>7, <1>9, <1>11, LeadBounds DEF Scalars
<1>13. popped[Head1] = pushed[Head0]
  BY <1>12, <1>9
<1>14. processed = popped[Head1]
  BY <1>0, <1>12 DEF Scalars, Counters, Holds
<1> QED
  BY <1>6, <1>10, <1>11, <1>12, <1>13, <1>14

(* The two threads never wait for each other, nor for a token that nobody    *)
(* holds: when both wait, every message submitted has been processed by both *)
(* (wait, pop, free, schedule_and_answer, update_graph_loop).                *)
THEOREM NobodyLeftWaitingTheorem == Safety => []NobodyLeftWaiting
<1> DEFINE IInv == HandshakeInv /\ EndIsLast /\ OnlyNotified
<1>1. Init => EndIsLast /\ OnlyNotified
  BY DEF Init, EndIsLast, OnlyNotified, Notified1, Holds, Heads, Head0, Head1
<1>2. IInv /\ [Next]_vars => EndIsLast' /\ OnlyNotified'
  BY EndStep, NotifiedStep
<1>3. IInv => NobodyLeftWaiting
  BY NobodyLeft
<1> QED
  BY <1>1, <1>2, <1>3, HandshakeInductive, PTL DEF Safety

=============================================================================
