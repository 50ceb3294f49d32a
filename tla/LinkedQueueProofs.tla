-------------------------- MODULE LinkedQueueProofs --------------------------
(* Proofs about LinkedQueue, for every distance of the heads and every bound. *)
EXTENDS LinkedQueue, TLAPS

IInv == TypeOK /\ LinkedInv

USE DEF Heads, Other


(* The invariant holds of the constructor's queue.                             *)
LEMMA InitHolds == Init => IInv
<1> SUFFICES ASSUME Init PROVE IInv
  OBVIOUS
<1> USE AheadAssumption, MaxMessagesAssumption
<1>1. TypeOK
  BY DEF Init, TypeOK
<1>2. TailExact /\ \A g \in Heads : HeadExact(g) /\ TokensExact(g) /\ FreeBehind(g)
  BY DEF Init, TailExact, HeadExact, TokensExact, FreeBehind, Notified, Marking, Freeing,
         Done
<1>3. FlagsExact /\ FreedExact /\ FreedUnlessRaced
  BY DEF Init, FlagsExact, FreedExact, FreedUnlessRaced, Marking, Done
<1> QED BY <1>1, <1>2, <1>3 DEF IInv, LinkedInv

(* push and notify preserve it.                                              *)
LEMMA ProducerPreserves == ASSUME IInv, Producer PROVE IInv'
<1>1. CASE Link
  <2>1. TypeOK'
    BY <1>1, AheadAssumption, MaxMessagesAssumption
    DEF IInv, LinkedInv, Link, TypeOK
  <2>2. TailExact'
    BY <1>1, AheadAssumption, MaxMessagesAssumption
    DEF IInv, LinkedInv, Link, TailExact, TypeOK
  <2>3. \A g \in Heads : HeadExact(g)'
    BY <1>1, AheadAssumption, MaxMessagesAssumption
    DEF IInv, LinkedInv, Link, HeadExact, TypeOK
  <2>4. \A g \in Heads : TokensExact(g)'
    BY <1>1, AheadAssumption, MaxMessagesAssumption
    DEF IInv, LinkedInv, Link, TokensExact, Notified, Marking, TypeOK
  <2>5. \A g \in Heads : FreeBehind(g)'
    BY <1>1, AheadAssumption, MaxMessagesAssumption
    DEF IInv, LinkedInv, Link, FreeBehind, Marking, Freeing, Done,
        TypeOK
  <2>6. FlagsExact'
    BY <1>1, AheadAssumption, MaxMessagesAssumption
    DEF IInv, LinkedInv, Link, FlagsExact, Marking, Done, TypeOK
  <2>7. FreedExact'
    BY <1>1, AheadAssumption, MaxMessagesAssumption
    DEF IInv, LinkedInv, Link, FreedExact, TypeOK
  <2>8. FreedUnlessRaced'
    BY <1>1, AheadAssumption, MaxMessagesAssumption
    DEF IInv, LinkedInv, Link, FreedUnlessRaced, Marking, Done, TypeOK
  <2> QED BY <2>1, <2>2, <2>3, <2>4, <2>5, <2>6, <2>7, <2>8 DEF IInv, LinkedInv
<1>2. CASE MoveTail
  <2>1. TypeOK'
    BY <1>2, AheadAssumption, MaxMessagesAssumption
    DEF IInv, LinkedInv, MoveTail, TypeOK
  <2>2. TailExact'
    BY <1>2, AheadAssumption, MaxMessagesAssumption
    DEF IInv, LinkedInv, MoveTail, TailExact, TypeOK
  <2>3. \A g \in Heads : HeadExact(g)'
    BY <1>2, AheadAssumption, MaxMessagesAssumption
    DEF IInv, LinkedInv, MoveTail, HeadExact, TypeOK
  <2>4. \A g \in Heads : TokensExact(g)'
    BY <1>2, AheadAssumption, MaxMessagesAssumption
    DEF IInv, LinkedInv, MoveTail, TokensExact, Notified, Marking,
        TypeOK
  <2>5. \A g \in Heads : FreeBehind(g)'
    BY <1>2, AheadAssumption, MaxMessagesAssumption
    DEF IInv, LinkedInv, MoveTail, FreeBehind, Marking, Freeing, Done,
        TypeOK
  <2>6. FlagsExact'
    BY <1>2, AheadAssumption, MaxMessagesAssumption
    DEF IInv, LinkedInv, MoveTail, FlagsExact, Marking, Done, TypeOK
  <2>7. FreedExact'
    BY <1>2, AheadAssumption, MaxMessagesAssumption
    DEF IInv, LinkedInv, MoveTail, FreedExact, TypeOK
  <2>8. FreedUnlessRaced'
    BY <1>2, AheadAssumption, MaxMessagesAssumption
    DEF IInv, LinkedInv, MoveTail, FreedUnlessRaced, Marking, Done,
        TypeOK
  <2> QED BY <2>1, <2>2, <2>3, <2>4, <2>5, <2>6, <2>7, <2>8 DEF IInv, LinkedInv
<1>3. ASSUME NEW h \in Heads, Notify(h) PROVE IInv'
  <2>1. TypeOK'
    BY <1>3, AheadAssumption, MaxMessagesAssumption
    DEF IInv, LinkedInv, Notify, TypeOK
  <2>2. TailExact'
    BY <1>3, AheadAssumption, MaxMessagesAssumption
    DEF IInv, LinkedInv, Notify, TailExact, TypeOK
  <2>3. \A g \in Heads : HeadExact(g)'
    BY <1>3, AheadAssumption, MaxMessagesAssumption
    DEF IInv, LinkedInv, Notify, HeadExact, TypeOK
  <2>4. \A g \in Heads : TokensExact(g)'
    BY <1>3, AheadAssumption, MaxMessagesAssumption
    DEF IInv, LinkedInv, Notify, TokensExact, Notified, Marking, TypeOK
  <2>5. \A g \in Heads : FreeBehind(g)'
    BY <1>3, AheadAssumption, MaxMessagesAssumption
    DEF IInv, LinkedInv, Notify, FreeBehind, Marking, Freeing, Done,
        TypeOK
  <2>6. FlagsExact'
    BY <1>3, AheadAssumption, MaxMessagesAssumption
    DEF IInv, LinkedInv, Notify, FlagsExact, Marking, Done, TypeOK
  <2>7. FreedExact'
    BY <1>3, AheadAssumption, MaxMessagesAssumption
    DEF IInv, LinkedInv, Notify, FreedExact, TypeOK
  <2>8. FreedUnlessRaced'
    BY <1>3, AheadAssumption, MaxMessagesAssumption
    DEF IInv, LinkedInv, Notify, FreedUnlessRaced, Marking, Done, TypeOK
  <2> QED BY <2>1, <2>2, <2>3, <2>4, <2>5, <2>6, <2>7, <2>8 DEF IInv, LinkedInv
<1> QED BY <1>1, <1>2, <1>3 DEF Producer

(* So does each step of wait and pop.                                       *)
LEMMA ReaderPreserves == ASSUME IInv, NEW h \in Heads, Reader(h) PROVE IInv'
<1>1. CASE TakeSemaphore(h)
  <2>1. TypeOK'
    BY <1>1, AheadAssumption, MaxMessagesAssumption
    DEF IInv, LinkedInv, TakeSemaphore, Goes, TypeOK
  <2>2. TailExact'
    BY <1>1, AheadAssumption, MaxMessagesAssumption
    DEF IInv, LinkedInv, TakeSemaphore, Goes, TailExact, TypeOK
  <2>3. \A g \in Heads : HeadExact(g)'
    BY <1>1, AheadAssumption, MaxMessagesAssumption
    DEF IInv, LinkedInv, TakeSemaphore, Goes, HeadExact, TypeOK
  <2>4. \A g \in Heads : TokensExact(g)'
    BY <1>1, AheadAssumption, MaxMessagesAssumption
    DEF IInv, LinkedInv, TakeSemaphore, Goes, TokensExact, Notified,
        Marking, TypeOK
  <2>5. \A g \in Heads : FreeBehind(g)'
    BY <1>1, AheadAssumption, MaxMessagesAssumption
    DEF IInv, LinkedInv, TakeSemaphore, Goes, FreeBehind, Marking,
        Freeing, Done, TypeOK
  <2>6. FlagsExact'
    BY <1>1, AheadAssumption, MaxMessagesAssumption
    DEF IInv, LinkedInv, TakeSemaphore, Goes, FlagsExact, Marking, Done,
        TypeOK
  <2>7. FreedExact'
    BY <1>1, AheadAssumption, MaxMessagesAssumption
    DEF IInv, LinkedInv, TakeSemaphore, Goes, FreedExact, TypeOK
  <2>8. FreedUnlessRaced'
    BY <1>1, AheadAssumption, MaxMessagesAssumption
    DEF IInv, LinkedInv, TakeSemaphore, Goes, FreedUnlessRaced, Marking,
        Done, TypeOK
  <2> QED BY <2>1, <2>2, <2>3, <2>4, <2>5, <2>6, <2>7, <2>8 DEF IInv, LinkedInv
<1>2. CASE TakeAhead(h)
  <2>1. TypeOK'
    BY <1>2, AheadAssumption, MaxMessagesAssumption
    DEF IInv, LinkedInv, TakeAhead, Goes, TypeOK
  <2>2. TailExact'
    BY <1>2, AheadAssumption, MaxMessagesAssumption
    DEF IInv, LinkedInv, TakeAhead, Goes, TailExact, TypeOK
  <2>3. \A g \in Heads : HeadExact(g)'
    BY <1>2, AheadAssumption, MaxMessagesAssumption
    DEF IInv, LinkedInv, TakeAhead, Goes, HeadExact, TypeOK
  <2>4. \A g \in Heads : TokensExact(g)'
    BY <1>2, AheadAssumption, MaxMessagesAssumption
    DEF IInv, LinkedInv, TakeAhead, Goes, TokensExact, Notified,
        Marking, TypeOK
  <2>5. \A g \in Heads : FreeBehind(g)'
    BY <1>2, AheadAssumption, MaxMessagesAssumption
    DEF IInv, LinkedInv, TakeAhead, Goes, FreeBehind, Marking, Freeing,
        Done, TypeOK
  <2>6. FlagsExact'
    BY <1>2, AheadAssumption, MaxMessagesAssumption
    DEF IInv, LinkedInv, TakeAhead, Goes, FlagsExact, Marking, Done,
        TypeOK
  <2>7. FreedExact'
    BY <1>2, AheadAssumption, MaxMessagesAssumption
    DEF IInv, LinkedInv, TakeAhead, Goes, FreedExact, TypeOK
  <2>8. FreedUnlessRaced'
    BY <1>2, AheadAssumption, MaxMessagesAssumption
    DEF IInv, LinkedInv, TakeAhead, Goes, FreedUnlessRaced, Marking,
        Done, TypeOK
  <2> QED BY <2>1, <2>2, <2>3, <2>4, <2>5, <2>6, <2>7, <2>8 DEF IInv, LinkedInv
<1>3. CASE ReadNext(h)
  <2>1. TypeOK'
    BY <1>3, AheadAssumption, MaxMessagesAssumption
    DEF IInv, LinkedInv, ReadNext, Goes, TypeOK, TokensExact, HeadExact,
        Notified
  <2>2. TailExact'
    BY <1>3, AheadAssumption, MaxMessagesAssumption
    DEF IInv, LinkedInv, ReadNext, Goes, TailExact, TypeOK
  <2>3. \A g \in Heads : HeadExact(g)'
    BY <1>3, AheadAssumption, MaxMessagesAssumption
    DEF IInv, LinkedInv, ReadNext, Goes, HeadExact, TypeOK
  <2>4. \A g \in Heads : TokensExact(g)'
    BY <1>3, AheadAssumption, MaxMessagesAssumption
    DEF IInv, LinkedInv, ReadNext, Goes, TokensExact, Notified, Marking,
        TypeOK
  <2>5. \A g \in Heads : FreeBehind(g)'
    BY <1>3, AheadAssumption, MaxMessagesAssumption
    DEF IInv, LinkedInv, ReadNext, Goes, FreeBehind, Marking, Freeing,
        Done, TypeOK
  <2>6. FlagsExact'
    BY <1>3, AheadAssumption, MaxMessagesAssumption
    DEF IInv, LinkedInv, ReadNext, Goes, FlagsExact, Marking, Done,
        TypeOK
  <2>7. FreedExact'
    BY <1>3, AheadAssumption, MaxMessagesAssumption
    DEF IInv, LinkedInv, ReadNext, Goes, FreedExact, TypeOK
  <2>8. FreedUnlessRaced'
    BY <1>3, AheadAssumption, MaxMessagesAssumption
    DEF IInv, LinkedInv, ReadNext, Goes, FreedUnlessRaced, Marking,
        Done, TypeOK
  <2> QED BY <2>1, <2>2, <2>3, <2>4, <2>5, <2>6, <2>7, <2>8 DEF IInv, LinkedInv
<1>4. CASE MoveHead(h)
  <2>1. TypeOK'
    BY <1>4, AheadAssumption, MaxMessagesAssumption
    DEF IInv, LinkedInv, MoveHead, Goes, TypeOK, HeadExact
  <2>2. TailExact'
    BY <1>4, AheadAssumption, MaxMessagesAssumption
    DEF IInv, LinkedInv, MoveHead, Goes, TailExact, TypeOK
  <2>3. \A g \in Heads : HeadExact(g)'
    BY <1>4, AheadAssumption, MaxMessagesAssumption
    DEF IInv, LinkedInv, MoveHead, Goes, HeadExact, TypeOK
  <2>4. \A g \in Heads : TokensExact(g)'
    BY <1>4, AheadAssumption, MaxMessagesAssumption
    DEF IInv, LinkedInv, MoveHead, Goes, TokensExact, Notified, Marking,
        HeadExact, TypeOK
  <2>5. \A g \in Heads : FreeBehind(g)'
    BY <1>4, AheadAssumption, MaxMessagesAssumption
    DEF IInv, LinkedInv, MoveHead, Goes, FreeBehind, Marking, Freeing,
        Done, HeadExact, TypeOK
  <2>6. FlagsExact'
    BY <1>4, AheadAssumption, MaxMessagesAssumption
    DEF IInv, LinkedInv, MoveHead, Goes, FlagsExact, Marking, Done,
        HeadExact, TypeOK
  <2>7. FreedExact'
    BY <1>4, AheadAssumption, MaxMessagesAssumption
    DEF IInv, LinkedInv, MoveHead, Goes, FreedExact, TypeOK
  <2>8. FreedUnlessRaced'
    BY <1>4, AheadAssumption, MaxMessagesAssumption
    DEF IInv, LinkedInv, MoveHead, Goes, FreedUnlessRaced, Marking,
        Done, HeadExact, TypeOK
  <2> QED BY <2>1, <2>2, <2>3, <2>4, <2>5, <2>6, <2>7, <2>8 DEF IInv, LinkedInv
<1>5. CASE LoadPassed(h)
  <2>1. TypeOK'
    BY <1>5, AheadAssumption, MaxMessagesAssumption
    DEF IInv, LinkedInv, LoadPassed, Goes, TypeOK
  <2>2. TailExact'
    BY <1>5, AheadAssumption, MaxMessagesAssumption
    DEF IInv, LinkedInv, LoadPassed, Goes, TailExact, TypeOK
  <2>3. \A g \in Heads : HeadExact(g)'
    BY <1>5, AheadAssumption, MaxMessagesAssumption
    DEF IInv, LinkedInv, LoadPassed, Goes, HeadExact, TypeOK
  <2>4. \A g \in Heads : TokensExact(g)'
    BY <1>5, AheadAssumption, MaxMessagesAssumption
    DEF IInv, LinkedInv, LoadPassed, Goes, TokensExact, Notified,
        Marking, TypeOK
  <2>5. \A g \in Heads : FreeBehind(g)'
    BY <1>5, AheadAssumption, MaxMessagesAssumption
    DEF IInv, LinkedInv, LoadPassed, Goes, FreeBehind, Marking, Freeing,
        Done, HeadExact, FlagsExact, TypeOK
  <2>6. FlagsExact'
    BY <1>5, AheadAssumption, MaxMessagesAssumption
    DEF IInv, LinkedInv, LoadPassed, Goes, FlagsExact, Marking, Done,
        TypeOK
  <2>7. FreedExact'
    BY <1>5, AheadAssumption, MaxMessagesAssumption
    DEF IInv, LinkedInv, LoadPassed, Goes, FreedExact, TypeOK
  <2>8. FreedUnlessRaced'
    BY <1>5, AheadAssumption, MaxMessagesAssumption
    DEF IInv, LinkedInv, LoadPassed, Goes, FreedUnlessRaced, Marking,
        Done, TypeOK
  <2> QED BY <2>1, <2>2, <2>3, <2>4, <2>5, <2>6, <2>7, <2>8 DEF IInv, LinkedInv
<1>6. CASE StorePassed(h)
  <2>1. TypeOK'
    <3>1. head[h] \in 1..MaxMessages
      BY <1>6 DEF StorePassed, Goes, IInv, LinkedInv, TypeOK, HeadExact, FreeBehind, Marking
    <3>2. passed' \subseteq 1..MaxMessages /\ raced' \subseteq passed'
      BY <1>6, <3>1 DEF StorePassed, IInv, TypeOK
    <3>3. pc' \in [Heads -> {"wait", "ahead", "next", "value", "passed", "set", "free",
                            "advance", "post"}]
      BY <1>6 DEF StorePassed, Goes, IInv, TypeOK
    <3> QED BY <1>6, <3>2, <3>3 DEF StorePassed, IInv, TypeOK
  <2>2. TailExact'
    BY <1>6, AheadAssumption, MaxMessagesAssumption
    DEF IInv, LinkedInv, StorePassed, Goes, TailExact, TypeOK
  <2>3. \A g \in Heads : HeadExact(g)'
    BY <1>6, AheadAssumption, MaxMessagesAssumption
    DEF IInv, LinkedInv, StorePassed, Goes, HeadExact, TypeOK
  <2>4. \A g \in Heads : TokensExact(g)'
    BY <1>6, AheadAssumption, MaxMessagesAssumption
    DEF IInv, LinkedInv, StorePassed, Goes, TokensExact, Notified,
        Marking, TypeOK
  <2>5. \A g \in Heads : FreeBehind(g)'
    BY <1>6, AheadAssumption, MaxMessagesAssumption
    DEF IInv, LinkedInv, StorePassed, Goes, FreeBehind, Marking,
        Freeing, Done, TypeOK
  <2>6. FlagsExact'
    <3>1. heads[h] \in Nat \ {0} /\ head[h] = heads[h] /\ Done(h) = heads[h] - 1
      BY <1>6 DEF StorePassed, Goes, IInv, LinkedInv, TypeOK, HeadExact, FreeBehind,
                  Marking, Done
    <3>2. Done(h)' = heads[h] /\ Done(Other(h))' = Done(Other(h))
      BY <1>6 DEF StorePassed, Goes, IInv, TypeOK, Marking, Done
    <3>3. passed' = passed \cup {heads[h]} /\ 1..Done(h)' = 1..Done(h) \cup {heads[h]}
      BY <1>6, <3>1, <3>2 DEF StorePassed
    <3>4. \A g \in Heads : 1..Done(g) \subseteq passed
      BY DEF IInv, LinkedInv, FlagsExact
    <3>5. passed \subseteq 1..Done(h) \cup 1..Done(Other(h))
      BY DEF IInv, LinkedInv, FlagsExact
    <3>6. \A g \in Heads : 1..Done(g)' \subseteq passed'
      BY <3>2, <3>3, <3>4
    <3>7. passed' \subseteq 1..Done(h)' \cup 1..Done(Other(h))'
      BY <3>2, <3>3, <3>5
    <3> QED BY <3>6, <3>7 DEF FlagsExact
  <2>7. FreedExact'
    BY <1>6, AheadAssumption, MaxMessagesAssumption
    DEF IInv, LinkedInv, StorePassed, Goes, FreedExact, TypeOK
  <2>8. FreedUnlessRaced'
    BY <1>6, AheadAssumption, MaxMessagesAssumption
    DEF IInv, LinkedInv, StorePassed, Goes, FreedUnlessRaced, Marking,
        Done, HeadExact, FlagsExact, TypeOK
  <2> QED BY <2>1, <2>2, <2>3, <2>4, <2>5, <2>6, <2>7, <2>8 DEF IInv, LinkedInv
<1>7. CASE Delete(h)
  <2>1. TypeOK'
    BY <1>7, AheadAssumption, MaxMessagesAssumption
    DEF IInv, LinkedInv, Delete, Goes, TypeOK
  <2>2. TailExact'
    BY <1>7, AheadAssumption, MaxMessagesAssumption
    DEF IInv, LinkedInv, Delete, Goes, TailExact, TypeOK
  <2>3. \A g \in Heads : HeadExact(g)'
    BY <1>7, AheadAssumption, MaxMessagesAssumption
    DEF IInv, LinkedInv, Delete, Goes, HeadExact, TypeOK
  <2>4. \A g \in Heads : TokensExact(g)'
    BY <1>7, AheadAssumption, MaxMessagesAssumption
    DEF IInv, LinkedInv, Delete, Goes, TokensExact, Notified, Marking,
        TypeOK
  <2>5. \A g \in Heads : FreeBehind(g)'
    BY <1>7, AheadAssumption, MaxMessagesAssumption
    DEF IInv, LinkedInv, Delete, Goes, FreeBehind, Marking, Freeing,
        Done, HeadExact, TypeOK
  <2>6. FlagsExact'
    BY <1>7, AheadAssumption, MaxMessagesAssumption
    DEF IInv, LinkedInv, Delete, Goes, FlagsExact, Marking, Done, TypeOK
  <2>7. FreedExact'
    BY SMTT(20), <1>7, AheadAssumption, MaxMessagesAssumption
    DEF IInv, LinkedInv, Delete, Goes, FreedExact, FreeBehind, Freeing,
        Marking, Done, TypeOK
  <2>8. FreedUnlessRaced'
    BY <1>7, AheadAssumption, MaxMessagesAssumption
    DEF IInv, LinkedInv, Delete, Goes, FreedUnlessRaced, Marking, Done,
        TypeOK
  <2> QED BY <2>1, <2>2, <2>3, <2>4, <2>5, <2>6, <2>7, <2>8 DEF IInv, LinkedInv
<1>8. CASE Advance(h)
  <2>1. TypeOK'
    BY <1>8, AheadAssumption, MaxMessagesAssumption
    DEF IInv, LinkedInv, Advance, Goes, TypeOK, FreeBehind
  <2>2. TailExact'
    BY <1>8, AheadAssumption, MaxMessagesAssumption
    DEF IInv, LinkedInv, Advance, Goes, TailExact, TypeOK
  <2>3. \A g \in Heads : HeadExact(g)'
    BY <1>8, AheadAssumption, MaxMessagesAssumption
    DEF IInv, LinkedInv, Advance, Goes, HeadExact, TypeOK
  <2>4. \A g \in Heads : TokensExact(g)'
    BY <1>8, AheadAssumption, MaxMessagesAssumption
    DEF IInv, LinkedInv, Advance, Goes, TokensExact, Notified, Marking,
        TypeOK
  <2>5. \A g \in Heads : FreeBehind(g)'
    BY <1>8, AheadAssumption, MaxMessagesAssumption
    DEF IInv, LinkedInv, Advance, Goes, FreeBehind, Marking, Freeing,
        Done, TypeOK
  <2>6. FlagsExact'
    BY <1>8, AheadAssumption, MaxMessagesAssumption
    DEF IInv, LinkedInv, Advance, Goes, FlagsExact, Marking, Done,
        TypeOK
  <2>7. FreedExact'
    BY <1>8, AheadAssumption, MaxMessagesAssumption
    DEF IInv, LinkedInv, Advance, Goes, FreedExact, FreeBehind, Freeing,
        Marking, Done, TypeOK
  <2>8. FreedUnlessRaced'
    BY <1>8, AheadAssumption, MaxMessagesAssumption
    DEF IInv, LinkedInv, Advance, Goes, FreedUnlessRaced, Marking, Done,
        TypeOK
  <2> QED BY <2>1, <2>2, <2>3, <2>4, <2>5, <2>6, <2>7, <2>8 DEF IInv, LinkedInv
<1>9. CASE FreeDone(h)
  <2>1. TypeOK'
    BY <1>9, AheadAssumption, MaxMessagesAssumption
    DEF IInv, LinkedInv, FreeDone, Goes, TypeOK
  <2>2. TailExact'
    BY <1>9, AheadAssumption, MaxMessagesAssumption
    DEF IInv, LinkedInv, FreeDone, Goes, TailExact, TypeOK
  <2>3. \A g \in Heads : HeadExact(g)'
    BY <1>9, AheadAssumption, MaxMessagesAssumption
    DEF IInv, LinkedInv, FreeDone, Goes, HeadExact, TypeOK
  <2>4. \A g \in Heads : TokensExact(g)'
    BY <1>9, AheadAssumption, MaxMessagesAssumption
    DEF IInv, LinkedInv, FreeDone, Goes, TokensExact, Notified, Marking,
        TypeOK
  <2>5. \A g \in Heads : FreeBehind(g)'
    BY <1>9, AheadAssumption, MaxMessagesAssumption
    DEF IInv, LinkedInv, FreeDone, Goes, FreeBehind, Marking, Freeing,
        Done, TypeOK
  <2>6. FlagsExact'
    BY <1>9, AheadAssumption, MaxMessagesAssumption
    DEF IInv, LinkedInv, FreeDone, Goes, FlagsExact, Marking, Done,
        FreeBehind, Freeing, TypeOK
  <2>7. FreedExact'
    BY <1>9, AheadAssumption, MaxMessagesAssumption
    DEF IInv, LinkedInv, FreeDone, Goes, FreedExact, TypeOK
  <2>8. FreedUnlessRaced'
    BY <1>9, AheadAssumption, MaxMessagesAssumption
    DEF IInv, LinkedInv, FreeDone, Goes, FreedUnlessRaced, Marking,
        Done, HeadExact, TypeOK
  <2> QED BY <2>1, <2>2, <2>3, <2>4, <2>5, <2>6, <2>7, <2>8 DEF IInv, LinkedInv
<1>10. CASE LetOtherAdvance(h)
  <2>1. TypeOK'
    BY <1>10, AheadAssumption, MaxMessagesAssumption
    DEF IInv, LinkedInv, LetOtherAdvance, Goes, TypeOK
  <2>2. TailExact'
    BY <1>10, AheadAssumption, MaxMessagesAssumption
    DEF IInv, LinkedInv, LetOtherAdvance, Goes, TailExact, TypeOK
  <2>3. \A g \in Heads : HeadExact(g)'
    BY <1>10, AheadAssumption, MaxMessagesAssumption
    DEF IInv, LinkedInv, LetOtherAdvance, Goes, HeadExact, TypeOK
  <2>4. \A g \in Heads : TokensExact(g)'
    <3>1. TokensExact(h)'
      BY <1>10, AheadAssumption
      DEF LetOtherAdvance, Goes, IInv, LinkedInv, TypeOK, TokensExact, Notified, Marking
    <3>2. TokensExact(Other(h))'
      BY <1>10, AheadAssumption
      DEF LetOtherAdvance, Goes, IInv, LinkedInv, TypeOK, TokensExact, Notified, Marking
    <3> QED BY <3>1, <3>2
  <2>5. \A g \in Heads : FreeBehind(g)'
    BY <1>10, AheadAssumption, MaxMessagesAssumption
    DEF IInv, LinkedInv, LetOtherAdvance, Goes, FreeBehind, Marking,
        Freeing, Done, TypeOK
  <2>6. FlagsExact'
    BY <1>10, AheadAssumption, MaxMessagesAssumption
    DEF IInv, LinkedInv, LetOtherAdvance, Goes, FlagsExact, Marking,
        Done, TypeOK
  <2>7. FreedExact'
    BY <1>10, AheadAssumption, MaxMessagesAssumption
    DEF IInv, LinkedInv, LetOtherAdvance, Goes, FreedExact, TypeOK
  <2>8. FreedUnlessRaced'
    BY <1>10, AheadAssumption, MaxMessagesAssumption
    DEF IInv, LinkedInv, LetOtherAdvance, Goes, FreedUnlessRaced,
        Marking, Done, TypeOK
  <2> QED BY <2>1, <2>2, <2>3, <2>4, <2>5, <2>6, <2>7, <2>8 DEF IInv, LinkedInv
<1> QED BY <1>1, <1>2, <1>3, <1>4, <1>5, <1>6, <1>7, <1>8, <1>9, <1>10 DEF Reader

(* The flags and counters of LinkedQueue agree in every reachable state.     *)
THEOREM LinkedInductive == Spec => []IInv
<1>1. ASSUME IInv, [Next]_vars PROVE IInv'
  <2>1. CASE Terminated
    BY <1>1, <2>1 DEF Terminated, vars, IInv, TypeOK, LinkedInv, TailExact, HeadExact,
        TokensExact, FreeBehind, FlagsExact, FreedExact, FreedUnlessRaced, Notified,
        Marking, Freeing, Done
  <2>2. CASE UNCHANGED vars
    BY ZenonT(30), <1>1, <2>2 DEF vars, IInv, TypeOK, LinkedInv, TailExact, HeadExact,
        TokensExact, FreeBehind, FlagsExact, FreedExact, FreedUnlessRaced, Notified,
        Marking, Freeing, Done
  <2> QED BY <1>1, <2>1, <2>2, ProducerPreserves, ReaderPreserves DEF Next
<1> QED BY <1>1, InitHolds, PTL DEF Spec

(* No thread touches a node that was freed or is not linked yet, however the *)
(* producer and the two heads interleave.                                    *)
THEOREM NoUseAfterFreeTheorem == Spec => []NoUseAfterFree
<1> USE MaxMessagesAssumption
<1>1. ASSUME IInv PROVE NoUseAfterFree
  <2>1. freed \subseteq 0..free_head
    BY <1>1 DEF IInv, LinkedInv, TypeOK, FreedExact
  <2>2. ASSUME NEW h \in Heads PROVE Touched(h) \subseteq (0..linked) \ freed
    <3>1. heads[h] \in 0..linked
      BY <1>1 DEF IInv, LinkedInv, TypeOK, TokensExact, Notified
    <3>2. CASE pc[h] = "next"
      <4>1. Touched(h) = {heads[h]} /\ free_head <= heads[h]
        BY <1>1, <3>2 DEF IInv, LinkedInv, Touched, FreeBehind, Freeing, Done, Marking
      <4>2. heads[h] \notin freed
        BY <1>1, <3>2, <4>1
        DEF IInv, LinkedInv, TypeOK, FreedExact, FreeBehind, Freeing, Done, Marking
      <4> QED BY <1>1, <3>1, <4>1, <4>2 DEF IInv, TypeOK
    <3>3. CASE pc[h] = "value"
      <4>1. Touched(h) = {heads[h] + 1} /\ free_head <= heads[h]
        BY <1>1, <3>3
        DEF IInv, LinkedInv, Touched, HeadExact, FreeBehind, Freeing, Done, Marking
      <4>2. heads[h] + 1 <= linked
        BY <1>1, <3>3 DEF IInv, LinkedInv, TypeOK, TokensExact, Notified
      <4> QED BY <1>1, <2>1, <3>1, <4>1, <4>2 DEF IInv, TypeOK
    <3>4. CASE pc[h] \in {"passed", "set"}
      <4>1. Touched(h) = {heads[h]} /\ free_head <= heads[h] - 1
        BY <1>1, <3>4
        DEF IInv, LinkedInv, Touched, HeadExact, FreeBehind, Freeing, Done, Marking
      <4> QED BY <1>1, <2>1, <3>1, <4>1 DEF IInv, TypeOK
    <3>5. CASE pc[h] = "free"
      <4>1. Touched(h) \subseteq {free_head} /\ free_head <= heads[h]
        BY <1>1, <3>5 DEF IInv, LinkedInv, Touched, FreeBehind, Freeing
      <4>2. \A g \in Heads : pc[g] # "advance"
        BY <1>1, <3>5
        DEF IInv, LinkedInv, TypeOK, FreeBehind, Freeing, Marking, Done
      <4>3. free_head \notin freed
        BY <1>1, <4>2 DEF IInv, LinkedInv, TypeOK, FreedExact
      <4> QED BY <1>1, <3>1, <4>1, <4>3 DEF IInv, TypeOK
    <3>6. CASE pc[h] \notin {"next", "value", "passed", "set", "free"}
      BY <3>6 DEF Touched
    <3> QED BY <3>2, <3>3, <3>4, <3>5, <3>6
  <2>3. TouchedByProducer \cap freed = {}
    <3>1. SUFFICES ASSUME producer = "push" PROVE linked \notin freed
      BY <1>1 DEF IInv, LinkedInv, TailExact, TouchedByProducer
    <3>2. \A h \in Heads : heads[h] <= linked
      BY <1>1 DEF IInv, LinkedInv, TypeOK, TokensExact, Notified
    <3>3. CASE \E g \in Heads : pc[g] = "advance"
      <4>1. free_head < linked
        BY <1>1, <3>2, <3>3 DEF IInv, LinkedInv, TypeOK, FreeBehind
      <4> QED BY <1>1, <2>1, <4>1 DEF IInv, TypeOK
    <3>4. CASE ~\E g \in Heads : pc[g] = "advance"
      <4>1. free_head <= linked
        BY <1>1, <3>2 DEF IInv, LinkedInv, TypeOK, FreeBehind, Done, Freeing
      <4> QED BY <1>1, <3>4, <4>1 DEF IInv, LinkedInv, TypeOK, FreedExact
    <3> QED BY <3>3, <3>4
  <2> QED BY <2>2, <2>3 DEF NoUseAfterFree
<1> QED BY <1>1, LinkedInductive, PTL

(* The heads never free at the same time.                                    *)
THEOREM FreeExclusiveTheorem == Spec => []FreeExclusive
<1>1. IInv => FreeExclusive
  BY DEF IInv, LinkedInv, TypeOK, FreeBehind, FreeExclusive, Freeing, Marking, Done
<1> QED BY <1>1, LinkedInductive, PTL

(* Between pops, every node behind both heads is freed unless both heads     *)
(* marked the node that should have freed it.                                *)
THEOREM ReclaimedTheorem == Spec => []Reclaimed
<1>1. ASSUME IInv PROVE Reclaimed
  <2>1. SUFFICES ASSUME \A h \in Heads : pc[h] = "wait",
                        NEW n \in 1..MaxMessages \ raced,
                        \A h \in Heads : n <= heads[h]
                 PROVE  0 .. n - 1 \subseteq freed
    BY DEF Reclaimed
  <2>2. n <= free_head
    BY <1>1, <2>1 DEF IInv, LinkedInv, FreedUnlessRaced, Done, Marking
  <2>3. freed = 0 .. free_head - 1
    BY <1>1, <2>1 DEF IInv, LinkedInv, FreedExact
  <2> QED BY <1>1, <2>2, <2>3, MaxMessagesAssumption DEF IInv, TypeOK
<1> QED BY <1>1, LinkedInductive, PTL

(* A head leads the other by no more than its semaphore's first value.       *)
THEOREM HeadDistanceTheorem == Spec => []HeadDistance
<1>1. IInv => HeadDistance
  BY AheadAssumption DEF IInv, LinkedInv, TypeOK, TokensExact, HeadDistance, Marking
<1> QED BY <1>1, LinkedInductive, PTL

(* The list implements TwoHeadedStream: each head moves to the next message, *)
(* linked for both threads, within the lead of its semaphore.                *)
THEOREM ImplementsTwoHeadsTheorem == Spec => ImplementsTwoHeads
<1>1. Init => Stream!Init
  BY DEF Init, Stream!Init, Stream!Heads
<1>2. IInv /\ [Next]_vars => [Stream!Next]_(Stream!vars)
  <2> SUFFICES ASSUME IInv, [Next]_vars
               PROVE  [Stream!Next]_(Stream!vars)
    OBVIOUS
  <2> USE DEF Stream!vars, Stream!Heads
  <2>1. CASE Link
    BY <2>1 DEF Link, Stream!Next, Stream!Push
  <2>2. ASSUME NEW h \in Heads, MoveHead(h) PROVE Stream!Take(h)
    <3>1. /\ pc[h] = "value" /\ heads' = [heads EXCEPT ![h] = head[h]]
          /\ linked' = linked
      BY <2>2 DEF MoveHead, Goes
    <3>2. head[h] = heads[h] + 1
      BY <3>1 DEF IInv, LinkedInv, HeadExact
    <3>3. heads[h] < linked
      BY <3>1, MaxMessagesAssumption DEF IInv, LinkedInv, TypeOK, TokensExact, Notified
    <3>4. heads[h] < heads[1 - h] + Ahead[Other(h)]
      BY <3>1, AheadAssumption, MaxMessagesAssumption
      DEF IInv, LinkedInv, TypeOK, TokensExact, Marking
    <3> QED
      BY <3>1, <3>2, <3>3, <3>4 DEF Stream!Take
  <2>3. CASE UNCHANGED <<linked, heads>>
    BY <2>3
  <2>4. Link \/ (\E h \in Heads : MoveHead(h)) \/ UNCHANGED <<linked, heads>>
    BY DEF Next, Producer, Reader, MoveTail, Notify, TakeSemaphore, TakeAhead, ReadNext,
           LoadPassed, StorePassed, Delete, Advance, FreeDone, LetOtherAdvance,
           Terminated, vars
  <2> QED
    BY <2>1, <2>2, <2>3, <2>4 DEF Stream!Next
<1> QED
  BY <1>1, <1>2, LinkedInductive, PTL DEF Spec, ImplementsTwoHeads, Stream!Safety

(* A thread waits at the queue only when every message has gone by it: the   *)
(* other one has a token for it, or is about to post one (wait, pop).        *)
THEOREM NobodyLeftWaitingTheorem == Spec => []NobodyLeftWaiting
<1>1. ASSUME IInv, producer = "push", \A h \in Heads : Waits(h),
             \E h \in Heads : Ahead[h] > 0, NEW h \in Heads
      PROVE  pc[h] = "wait" /\ heads[h] = linked
  <2>1. /\ linked \in Nat /\ heads[0] \in Nat /\ heads[1] \in Nat
        /\ semaphores[0] \in Nat /\ semaphores[1] \in Nat
        /\ Ahead[0] \in Nat /\ Ahead[1] \in Nat /\ Ahead[0] + Ahead[1] > 0
    BY <1>1, AheadAssumption, MaxMessagesAssumption DEF IInv, TypeOK
  <2>2. ASSUME NEW g \in Heads
        PROVE  /\ Notified(g) = linked /\ ~Marking(g) /\ pc[g] # "post"
               /\ pc[g] = "wait" => heads[g] = linked
               /\ pc[g] = "ahead" => /\ heads[g] < linked
                                     /\ heads[g] = Ahead[1 - g] + heads[1 - g]
    <3>1. Notified(g) = linked
      BY <1>1 DEF Notified
    <3>2. Waits(g) /\ Waits(1 - g)
      BY <1>1
    <3>3. ~Marking(g) /\ pc[g] # "post" /\ ~Marking(1 - g) /\ pc[1 - g] # "post"
      BY <3>2 DEF Waits, Marking
    <3>4. TokensExact(g)
      BY <1>1 DEF IInv, LinkedInv
    <3>5. CASE pc[g] = "wait" /\ semaphores[g] = 0
      BY <2>1, <3>1, <3>3, <3>4, <3>5 DEF TokensExact
    <3>6. CASE pc[g] = "ahead" /\ ahead_sems[g] = 0
      BY <2>1, <3>1, <3>3, <3>4, <3>6 DEF TokensExact
    <3> QED
      BY <3>1, <3>2, <3>3, <3>5, <3>6 DEF Waits
  <2>3. pc[0] \in {"wait", "ahead"} /\ pc[1] \in {"wait", "ahead"}
    BY <1>1 DEF Waits
  <2>4. /\ pc[0] = "wait" => heads[0] = linked
        /\ pc[0] = "ahead" => heads[0] < linked /\ heads[0] = Ahead[1] + heads[1]
        /\ pc[1] = "wait" => heads[1] = linked
        /\ pc[1] = "ahead" => heads[1] < linked /\ heads[1] = Ahead[0] + heads[0]
    BY <2>2
  <2> QED
    BY <2>1, <2>3, <2>4
<1>2. IInv => NobodyLeftWaiting
  BY <1>1 DEF NobodyLeftWaiting
<1> QED
  BY <1>2, LinkedInductive, PTL

=============================================================================
