----------------------- MODULE ThreadIsolationProofs ------------------------
(***************************************************************************)
(* Proofs about ThreadIsolation, for any threads and thread groups: IsoInv *)
(* is inductive, an isolated thread is alone, and the protocol implements  *)
(* Exclusion.                                                              *)
(***************************************************************************)
EXTENDS ThreadIsolation, FiniteSetTheorems, TLAPS

Requesters == {t \in Threads : pc[t] \in Requesting}

(* rdv_requests is not zero while a thread requests a rendezvous. *)
LEMMA RequestSeen ==
  ASSUME RequestsOK, NEW t \in Threads, pc[t] \in Requesting
  PROVE  rdv_requests \in Nat \ {0}
<1>1. IsFiniteSet(Requesters) /\ t \in Requesters
  BY IsolationAssumption, FS_Subset DEF Requesters
<1>2. Cardinality(Requesters) \in Nat /\ Cardinality(Requesters) # 0
  BY <1>1, FS_CardinalityType, FS_EmptySet
<1> QED
  BY <1>2 DEF RequestsOK, Requesters

(* Every step keeps the types. *)
LEMMA TypePreserved ==
  ASSUME TypeOK, RequestsOK, NEW a \in Threads, Thread(a)
  PROVE  TypeOK'
<1> USE IsolationAssumption DEF TypeOK, Goto, Active, Parked, Polling, Requesting
<1>1. CASE thread_idle_now(a)
  BY <1>1 DEF thread_idle_now
<1>2. CASE thread_harmless_now(a)
  BY <1>2 DEF thread_harmless_now
<1>3. CASE thread_harmless_end(a)
  BY <1>3 DEF thread_harmless_end
<1>4. CASE CheckRendezvous(a)
  BY <1>4 DEF CheckRendezvous
<1>5. CASE thread_harmless_till_end(a)
  BY <1>5 DEF thread_harmless_till_end
<1>6. CASE EndOfRendezvous(a)
  BY <1>6 DEF EndOfRendezvous
<1>7. CASE thread_idle_end(a)
  BY <1>7 DEF thread_idle_end
<1>8. CASE ThreadExit(a)
  BY <1>8 DEF ThreadExit
<1>9. CASE thread_isolate(a)
  BY <1>9 DEF thread_isolate
<1>10. CASE thread_isolate_full(a)
  BY <1>10 DEF thread_isolate_full
<1>11. CASE FullHarmless(a)
  BY <1>11 DEF FullHarmless
<1>12. CASE Request(a)
  BY <1>12 DEF Request
<1>13. CASE ScanHarmless(a)
  BY <1>13 DEF ScanHarmless, NextGroup, Enabled
<1>14. CASE ScanIdle(a)
  BY <1>14 DEF ScanIdle, NextGroup, Enabled
<1>15. CASE Grab(a)
  BY <1>15 DEF Grab
<1>16. CASE DropIdle(a)
  BY <1>16 DEF DropIdle
<1>17. CASE DropHarmless(a)
  BY <1>17 DEF DropHarmless
<1>18. CASE thread_release(a)
  BY <1>18 DEF thread_release
<1>19. CASE EndRequest(a)
  BY <1>19, RequestSeen DEF EndRequest
<1>20. QED
  BY <1>1, <1>2, <1>3, <1>4, <1>5, <1>6, <1>7, <1>8, <1>9, <1>10, <1>11, <1>12, <1>13, <1>14, <1>15, <1>16, <1>17, <1>18, <1>19 DEF Thread, Poller, Isolating

(* The shared words keep saying where each thread is. *)
LEMMA WordsPreserved ==
  ASSUME TypeOK, WordsOK, NEW a \in Threads, Thread(a)
  PROVE  WordsOK'
<1> USE IsolationAssumption DEF TypeOK, WordsOK, Goto, Active, Parked, Polling, Requesting
<1>1. CASE thread_idle_now(a)
  BY <1>1 DEF thread_idle_now
<1>2. CASE thread_harmless_now(a)
  BY <1>2 DEF thread_harmless_now
<1>3. CASE thread_harmless_end(a)
  BY <1>3 DEF thread_harmless_end
<1>4. CASE CheckRendezvous(a)
  BY <1>4 DEF CheckRendezvous
<1>5. CASE thread_harmless_till_end(a)
  BY <1>5 DEF thread_harmless_till_end
<1>6. CASE EndOfRendezvous(a)
  BY <1>6 DEF EndOfRendezvous
<1>7. CASE thread_idle_end(a)
  BY <1>7 DEF thread_idle_end
<1>8. CASE ThreadExit(a)
  BY <1>8 DEF ThreadExit
<1>9. CASE thread_isolate(a)
  BY <1>9 DEF thread_isolate
<1>10. CASE thread_isolate_full(a)
  BY <1>10 DEF thread_isolate_full
<1>11. CASE FullHarmless(a)
  BY <1>11 DEF FullHarmless
<1>12. CASE Request(a)
  BY <1>12 DEF Request
<1>13. CASE ScanHarmless(a)
  BY <1>13 DEF ScanHarmless, NextGroup, Enabled
<1>14. CASE ScanIdle(a)
  BY <1>14 DEF ScanIdle, NextGroup, Enabled
<1>15. CASE Grab(a)
  BY <1>15 DEF Grab
<1>16. CASE DropIdle(a)
  BY <1>16 DEF DropIdle
<1>17. CASE DropHarmless(a)
  BY <1>17 DEF DropHarmless
<1>18. CASE thread_release(a)
  BY <1>18 DEF thread_release
<1>19. CASE EndRequest(a)
  BY <1>19 DEF EndRequest
<1>20. QED
  BY <1>1, <1>2, <1>3, <1>4, <1>5, <1>6, <1>7, <1>8, <1>9, <1>10, <1>11, <1>12, <1>13, <1>14, <1>15, <1>16, <1>17, <1>18, <1>19 DEF Thread, Poller, Isolating

(* rdv_requests keeps counting the threads between Request and EndRequest. *)
LEMMA RequestsPreserved ==
  ASSUME TypeOK, RequestsOK, OwnerOK, NEW a \in Threads, Thread(a)
  PROVE  RequestsOK'
<1> USE DEF TypeOK, OwnerOK, Goto, Active, Parked, Requesting
<1>f. IsFiniteSet(Requesters)
  BY IsolationAssumption, FS_Subset DEF Requesters
<1>1. CASE Request(a)
  <2>1. a \notin Requesters /\ Requesters' = Requesters \cup {a}
    BY <1>1 DEF Request, Requesters
  <2>2. Cardinality(Requesters') = Cardinality(Requesters) + 1
    BY <1>f, <2>1, FS_AddElement
  <2> QED
    BY <1>1, <2>2 DEF Request, RequestsOK, Requesters
<1>2. CASE EndRequest(a)
  <2>1. a \in Requesters /\ Requesters' = Requesters \ {a}
    BY <1>2 DEF EndRequest, Requesters
  <2>2. Cardinality(Requesters') = Cardinality(Requesters) - 1
    BY <1>f, <2>1, FS_RemoveElement
  <2> QED
    BY <1>2, <2>2 DEF EndRequest, RequestsOK, Requesters
<1>3. ASSUME rdv_requests' = rdv_requests, Requesters' = Requesters
      PROVE  RequestsOK'
  BY <1>3 DEF RequestsOK, Requesters
<1>4. CASE thread_idle_now(a)
  BY <1>3, <1>4 DEF thread_idle_now, Requesters
<1>5. CASE thread_harmless_now(a)
  BY <1>3, <1>5 DEF thread_harmless_now, Requesters
<1>6. CASE thread_harmless_end(a)
  BY <1>3, <1>6 DEF thread_harmless_end, Requesters
<1>7. CASE CheckRendezvous(a)
  BY <1>3, <1>7 DEF CheckRendezvous, Requesters
<1>8. CASE thread_harmless_till_end(a)
  BY <1>3, <1>8 DEF thread_harmless_till_end, Requesters
<1>9. CASE EndOfRendezvous(a)
  BY <1>3, <1>9 DEF EndOfRendezvous, Requesters
<1>10. CASE thread_idle_end(a)
  BY <1>3, <1>10 DEF thread_idle_end, Requesters
<1>11. CASE ThreadExit(a)
  BY <1>3, <1>11 DEF ThreadExit, Requesters
<1>12. CASE thread_isolate(a)
  BY <1>3, <1>12 DEF thread_isolate, Requesters
<1>13. CASE thread_isolate_full(a)
  BY <1>3, <1>13 DEF thread_isolate_full, Requesters
<1>14. CASE FullHarmless(a)
  BY <1>3, <1>14 DEF FullHarmless, Requesters
<1>15. CASE ScanHarmless(a)
  BY <1>3, <1>15 DEF ScanHarmless, NextGroup, Requesters
<1>16. CASE ScanIdle(a)
  BY <1>3, <1>16 DEF ScanIdle, NextGroup, Requesters
<1>17. CASE Grab(a)
  BY <1>3, <1>17 DEF Grab, Requesters
<1>18. CASE DropIdle(a)
  BY <1>3, <1>18 DEF DropIdle, Requesters
<1>19. CASE DropHarmless(a)
  BY <1>3, <1>19 DEF DropHarmless, Requesters
<1>20. CASE thread_release(a)
  BY <1>3, <1>20 DEF thread_release, Requesters
<1>21. QED
  BY <1>1, <1>2, <1>4, <1>5, <1>6, <1>7, <1>8, <1>9, <1>10, <1>11, <1>12, <1>13, <1>14, <1>15, <1>16, <1>17, <1>18, <1>19, <1>20 DEF Thread, Poller, Isolating

(* isolated_thread is held from the CAS that wins it to its release. *)
LEMMA OwnerPreserved ==
  ASSUME TypeOK, WordsOK, OwnerOK, NEW a \in Threads, Thread(a)
  PROVE  OwnerOK'
<1> USE IsolationAssumption DEF TypeOK, WordsOK, OwnerOK, Goto, Active, Parked, Polling, Requesting
<1>1. CASE thread_idle_now(a)
  BY <1>1 DEF thread_idle_now
<1>2. CASE thread_harmless_now(a)
  BY <1>2 DEF thread_harmless_now
<1>3. CASE thread_harmless_end(a)
  BY <1>3 DEF thread_harmless_end
<1>4. CASE CheckRendezvous(a)
  BY <1>4 DEF CheckRendezvous
<1>5. CASE thread_harmless_till_end(a)
  BY <1>5 DEF thread_harmless_till_end
<1>6. CASE EndOfRendezvous(a)
  BY <1>6 DEF EndOfRendezvous
<1>7. CASE thread_idle_end(a)
  BY <1>7 DEF thread_idle_end
<1>8. CASE ThreadExit(a)
  BY <1>8 DEF ThreadExit
<1>9. CASE thread_isolate(a)
  BY <1>9 DEF thread_isolate
<1>10. CASE thread_isolate_full(a)
  BY <1>10 DEF thread_isolate_full
<1>11. CASE FullHarmless(a)
  BY <1>11 DEF FullHarmless
<1>12. CASE Request(a)
  BY <1>12 DEF Request
<1>13. CASE ScanHarmless(a)
  BY <1>13 DEF ScanHarmless, NextGroup, Enabled
<1>14. CASE ScanIdle(a)
  BY <1>14 DEF ScanIdle, NextGroup, Enabled
<1>15. CASE Grab(a)
  BY <1>15 DEF Grab
<1>16. CASE DropIdle(a)
  BY <1>16 DEF DropIdle
<1>17. CASE DropHarmless(a)
  BY <1>17 DEF DropHarmless
<1>18. CASE thread_release(a)
  BY <1>18 DEF thread_release
<1>19. CASE EndRequest(a)
  BY <1>19 DEF EndRequest
<1>20. QED
  BY <1>1, <1>2, <1>3, <1>4, <1>5, <1>6, <1>7, <1>8, <1>9, <1>10, <1>11, <1>12, <1>13, <1>14, <1>15, <1>16, <1>17, <1>18, <1>19 DEF Thread, Poller, Isolating

(* What the owner of isolated_thread has seen does not change. *)
LEMMA SeenPreserved ==
  ASSUME TypeOK, WordsOK, RequestsOK, OwnerOK, SeenOK, NEW a \in Threads, Thread(a)
  PROVE  SeenOK'
<1> USE IsolationAssumption DEF TypeOK, WordsOK, OwnerOK, SeenOK, Seen, SeenHarmless, Stopped, StoppedIdle, Goto, Active, Parked, Polling, Requesting
<1>r. \A t \in Threads : isolated_thread = t => rdv_requests # 0
  BY RequestSeen
<1>1. CASE thread_idle_now(a)
  BY <1>1, <1>r DEF thread_idle_now
<1>2. CASE thread_harmless_now(a)
  BY <1>2, <1>r DEF thread_harmless_now
<1>3. CASE thread_harmless_end(a)
  BY <1>3, <1>r DEF thread_harmless_end
<1>4. CASE CheckRendezvous(a)
  BY <1>4, <1>r DEF CheckRendezvous
<1>5. CASE thread_harmless_till_end(a)
  BY <1>5, <1>r DEF thread_harmless_till_end
<1>6. CASE EndOfRendezvous(a)
  BY <1>6, <1>r DEF EndOfRendezvous
<1>7. CASE thread_idle_end(a)
  BY <1>7, <1>r DEF thread_idle_end
<1>8. CASE ThreadExit(a)
  BY <1>8, <1>r DEF ThreadExit
<1>9. CASE thread_isolate(a)
  BY <1>9, <1>r DEF thread_isolate
<1>10. CASE thread_isolate_full(a)
  BY <1>10, <1>r DEF thread_isolate_full
<1>11. CASE FullHarmless(a)
  BY <1>11, <1>r DEF FullHarmless
<1>12. CASE Request(a)
  BY <1>12, <1>r DEF Request
<1>13. CASE ScanHarmless(a)
  BY <1>13, <1>r DEF ScanHarmless, NextGroup, Enabled
<1>14. CASE ScanIdle(a)
  BY <1>14, <1>r DEF ScanIdle, NextGroup, Enabled
<1>15. CASE Grab(a)
  BY <1>15, <1>r DEF Grab
<1>16. CASE DropIdle(a)
  BY <1>16, <1>r DEF DropIdle
<1>17. CASE DropHarmless(a)
  BY <1>17, <1>r DEF DropHarmless
<1>18. CASE thread_release(a)
  BY <1>18, <1>r DEF thread_release
<1>19. CASE EndRequest(a)
  BY <1>19, <1>r DEF EndRequest
<1>20. QED
  BY <1>1, <1>2, <1>3, <1>4, <1>5, <1>6, <1>7, <1>8, <1>9, <1>10, <1>11, <1>12, <1>13, <1>14, <1>15, <1>16, <1>17, <1>18, <1>19 DEF Thread, Poller, Isolating

(* IsoInv is an invariant: the shared words, the request count and what the *)
(* owner of isolated_thread has seen agree in every reachable state.        *)
THEOREM IsolationInvariant == Spec => []IsoInv
<1>1. Init => IsoInv
  <2> SUFFICES ASSUME Init PROVE IsoInv
    OBVIOUS
  <2>1. TypeOK
    BY IsolationAssumption DEF Init, TypeOK, Active, Parked
  <2>2. WordsOK
    BY DEF Init, WordsOK, Polling
  <2>3. RequestsOK
    <3>1. Requesters = {}
      BY DEF Init, Requesters, Requesting
    <3> QED
      BY <3>1, FS_EmptySet DEF Init, RequestsOK, Requesters
  <2>4. OwnerOK /\ SeenOK
    BY IsolationAssumption DEF Init, OwnerOK, SeenOK
  <2> QED
    BY <2>1, <2>2, <2>3, <2>4 DEF IsoInv
<1>2. IsoInv /\ [Next]_vars => IsoInv'
  <2> SUFFICES ASSUME IsoInv, [Next]_vars PROVE IsoInv'
    OBVIOUS
  <2>1. ASSUME NEW a \in Threads, Thread(a) PROVE IsoInv'
    BY <2>1, TypePreserved, WordsPreserved, RequestsPreserved, OwnerPreserved,
       SeenPreserved DEF IsoInv
  <2>2. CASE UNCHANGED vars
    BY <2>2 DEF vars, IsoInv, TypeOK, WordsOK, RequestsOK, OwnerOK, SeenOK, Seen,
                SeenHarmless, Stopped, StoppedIdle
  <2> QED
    BY <2>1, <2>2 DEF Next
<1> QED
  BY <1>1, <1>2, PTL DEF Spec

(* A thread that returned from thread_isolate() is alone, whatever the number *)
(* of threads, of groups and of concurrent requests.                          *)
THEOREM IsolationIsExclusive == Spec => []IsolatedAlone
<1>1. IsoInv => IsolatedAlone
  BY DEF IsoInv, TypeOK, OwnerOK, SeenOK, Seen, SeenHarmless, Stopped, IsolatedAlone,
         Active, Parked
<1> QED
  BY <1>1, IsolationInvariant, PTL

(* A thread that returned from thread_isolate_full() knows that no other one *)
(* stopped in the middle of a handler.                                       *)
THEOREM FullIsolationIsIdle == Spec => []FullIsolationMeansIdle
<1>1. IsoInv => FullIsolationMeansIdle
  BY DEF IsoInv, TypeOK, OwnerOK, SeenOK, Seen, StoppedIdle, FullIsolationMeansIdle
<1> QED
  BY <1>1, IsolationInvariant, PTL

(* One step of a thread is one step of Exclusion, or none. *)
LEMMA StepImplements ==
  ASSUME IsoInv, IsoInv', NEW a \in Threads, Thread(a)
  PROVE  \/ Exclusive!Resume(a) \/ Exclusive!Pause(a)
         \/ Exclusive!Isolate(a) \/ Exclusive!Release(a)
         \/ UNCHANGED <<ActiveThreads, IsolatedHolder>>
<1> USE IsolationAssumption DEF IsoInv, TypeOK, OwnerOK, Goto, Active, Parked, Requesting,
        ActiveThreads, IsolatedHolder
<1>r. rdv_requests = 0 => \A t \in Threads : pc[t] \notin Requesting
  BY RequestSeen
<1>i. \A t \in Threads : pc[t] = "isolated" => IsolatedHolder = t
  OBVIOUS
<1>1. CASE thread_idle_now(a)
  BY <1>1 DEF thread_idle_now
<1>2. CASE thread_harmless_now(a)
  BY <1>2 DEF thread_harmless_now, Exclusive!Pause
<1>3. CASE thread_harmless_end(a)
  BY <1>3 DEF thread_harmless_end
<1>4. CASE CheckRendezvous(a)
  BY <1>4, <1>r DEF CheckRendezvous, Exclusive!Resume
<1>5. CASE thread_harmless_till_end(a)
  BY <1>5 DEF thread_harmless_till_end
<1>6. CASE EndOfRendezvous(a)
  BY <1>6 DEF EndOfRendezvous
<1>7. CASE thread_idle_end(a)
  BY <1>7 DEF thread_idle_end
<1>8. CASE ThreadExit(a)
  BY <1>8 DEF ThreadExit, Exclusive!Pause
<1>9. CASE thread_isolate(a)
  BY <1>9 DEF thread_isolate, Exclusive!Pause
<1>10. CASE thread_isolate_full(a)
  BY <1>10 DEF thread_isolate_full
<1>11. CASE FullHarmless(a)
  BY <1>11 DEF FullHarmless, Exclusive!Pause
<1>12. CASE Request(a)
  BY <1>12 DEF Request
<1>13. CASE ScanHarmless(a)
  BY <1>13 DEF ScanHarmless, NextGroup
<1>14. CASE ScanIdle(a)
  BY <1>14 DEF ScanIdle, NextGroup
<1>15. CASE Grab(a)
  BY <1>15 DEF Grab
<1>16. CASE DropIdle(a)
  BY <1>16 DEF DropIdle
<1>17. CASE DropHarmless(a)
  BY <1>17 DEF DropHarmless, Exclusive!Isolate, SeenOK, SeenHarmless, Seen, Stopped
<1>18. CASE thread_release(a)
  BY <1>18 DEF thread_release, Exclusive!Release
<1>19. CASE EndRequest(a)
  BY <1>19 DEF EndRequest
<1>20. QED
  BY <1>1, <1>2, <1>3, <1>4, <1>5, <1>6, <1>7, <1>8, <1>9, <1>10, <1>11, <1>12, <1>13, <1>14, <1>15, <1>16, <1>17, <1>18, <1>19 DEF Thread, Poller, Isolating

(* The protocol of masks, request count and isolated_thread implements plain *)
(* mutual exclusion between one isolated thread and all the others.          *)
THEOREM IsolationRefinesExclusion == Spec => ImplementsExclusion
<1>1. Init => Exclusive!Init
  BY DEF Init, Exclusive!Init, ActiveThreads, IsolatedHolder, Active
<1>2. IsoInv /\ IsoInv' /\ [Next]_vars => [Exclusive!Next]_<<ActiveThreads, IsolatedHolder>>
  <2> SUFFICES ASSUME IsoInv, IsoInv', [Next]_vars
               PROVE  [Exclusive!Next]_<<ActiveThreads, IsolatedHolder>>
    OBVIOUS
  <2>1. CASE UNCHANGED vars
    BY <2>1 DEF vars, ActiveThreads, IsolatedHolder
  <2>2. CASE Next
    BY Zenon, <2>2, StepImplements DEF Next, Exclusive!Next
  <2> QED
    BY <2>1, <2>2
<1> QED
  BY <1>1, <1>2, IsolationInvariant, PTL DEF Spec, ImplementsExclusion, Exclusive!Spec
=============================================================================
