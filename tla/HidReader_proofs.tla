-------------------------- MODULE HidReader_proofs --------------------------
(***************************************************************************)
(* For any number of handles, drops and reopens: as long as releases do    *)
(* not overlap (~Overlap), the reader never holds two handles and never    *)
(* opens while one unwinds.  The argument: a running reader does one thing *)
(* at a time, so whatever may start an open finds nothing else under way.  *)
(* The service over it takes the reader's own steps and no other, so what  *)
(* is proved of the reader holds of it; and it leaves no report unsent,    *)
(* however its releases overlap.                                           *)
(***************************************************************************)
EXTENDS HidService, FiniteSetTheorems, TLAPS

(* The reader's handle is a live one, and the only live one.                *)
OneHandle ==
    /\ NoOrphan
    /\ device # NoDevice => handle[device] \in {"open", "lost"}

(* Listening, opening, waiting to retry and closing exclude one another.    *)
OneThing ==
    /\ device # NoDevice => ~opening /\ ~timer
    /\ opening => ~timer
    /\ Closing # {} => device = NoDevice /\ ~opening /\ ~timer
    /\ \A c, d \in Closing : c = d

(* A death not heard of yet is of a handle still held, or being closed; the *)
(* put-off release of a running reader finds the handle it was put off for. *)
LossesInOrder ==
    /\ \A d \in silent : handle[d] \in {"lost", "closing"}
    /\ immediates > 0 /\ reader # "stopped" =>
           device # NoDevice /\ handle[device] = "lost" /\ device \notin silent

(* A reader that does not run holds nothing, and one that never ran has     *)
(* nothing under way.                                                       *)
IdleReaders ==
    /\ reader # "running" => ~timer /\ device = NoDevice
    /\ reader \in {"new", "unavailable"} =>
           ~opening /\ Closing = {} /\ immediates = 0

Shape == OneHandle /\ OneThing /\ LossesInOrder /\ IdleReaders

Inv == TypeOK /\ Shape

LEMMA InitInv == Init => Inv
<1> SUFFICES ASSUME Init PROVE Inv
  OBVIOUS
<1> USE DEF Init
<1>1. drops \in 0 .. MaxDrops /\ reopens \in 0 .. MaxReopens
  BY BoundsAssumption DEF BoundsAssumption
<1>2. immediates \in 0 .. (IF Overlap THEN Cardinality(Devices) ELSE 1)
  <2>1. Cardinality(Devices) \in Nat
    BY DevicesAssumption, FS_CardinalityType DEF DevicesAssumption
  <2> QED
    BY <2>1
<1>3. /\ handle \in [Devices -> {"none", "open", "lost", "closing"}]
      /\ then \in [Devices -> {"none", "retry", "reopen"}]
      /\ device \in Devices \cup {NoDevice}
  OBVIOUS
<1>4. /\ reader \in {"new", "running", "unavailable", "stopped"}
      /\ opening \in BOOLEAN /\ timer \in BOOLEAN /\ present \in BOOLEAN
      /\ silent \subseteq Devices
  OBVIOUS
<1>5. Closing = {}
  BY DEF Closing
<1>6. Shape
  BY <1>5 DEF Shape, OneHandle, NoOrphan, OneThing, LossesInOrder, IdleReaders
<1> QED
  BY <1>1, <1>2, <1>3, <1>4, <1>6 DEF Inv, TypeOK

LEMMA StepInv ==
    ASSUME ~Overlap, Inv, Next
    PROVE  Inv'
<1> DEFINE HandleTypes ==
             /\ handle \in [Devices -> {"none", "open", "lost", "closing"}]
             /\ then \in [Devices -> {"none", "retry", "reopen"}]
             /\ device \in Devices \cup {NoDevice}
             /\ silent \in SUBSET Devices
             /\ immediates \in {0, 1}
           SmallTypes ==
             /\ reader \in {"new", "running", "unavailable", "stopped"}
             /\ opening \in BOOLEAN /\ timer \in BOOLEAN /\ present \in BOOLEAN
             /\ drops \in 0 .. MaxDrops /\ reopens \in 0 .. MaxReopens
<1>0. HandleTypes /\ SmallTypes /\ Shape /\ NoDevice \notin Devices
  BY DevicesAssumption DEF DevicesAssumption, Inv, TypeOK
<1>t. ASSUME HandleTypes', SmallTypes' PROVE TypeOK'
  BY <1>t DEF TypeOK
<1> USE DEF readerVars, handleVars, envVars, Shape, OneHandle, NoOrphan,
            OneThing, Closing, LossesInOrder, IdleReaders
<1>1. CASE Start
  <2>1. HandleTypes' /\ SmallTypes'
    BY <1>0, <1>1 DEF Start
  <2>2. Shape'
    BY <1>0, <1>1 DEF Start
  <2> QED
    BY <1>t, <2>1, <2>2 DEF Inv
<1>2. CASE OpenFails
  <2>1. HandleTypes' /\ SmallTypes'
    BY <1>0, <1>2 DEF OpenFails, Retry
  <2>2. Shape'
    BY <1>0, <1>2 DEF OpenFails, Retry
  <2> QED
    BY <1>t, <2>1, <2>2 DEF Inv
<1>3. CASE RetryFires
  <2>1. HandleTypes' /\ SmallTypes'
    BY <1>0, <1>3 DEF RetryFires
  <2>2. Shape'
    BY <1>0, <1>3 DEF RetryFires
  <2> QED
    BY <1>t, <2>1, <2>2 DEF Inv
<1>4. CASE Reopen
  <2>1. HandleTypes' /\ SmallTypes'
    <3>1. SmallTypes'
      <4>1. reopens' \in 0 .. MaxReopens
        BY <1>0, <1>4, BoundsAssumption DEF Reopen, PortOpens, BoundsAssumption
      <4> QED
        BY <1>0, <1>4, <4>1 DEF Reopen, CloseDevice
    <3>2. HandleTypes'
      BY <1>0, <1>4 DEF Reopen, CloseDevice
    <3> QED
      BY <3>1, <3>2
  <2>2. immediates = 0 /\ Closing = {}
    BY <1>4 DEF Reopen, PortOpens, Calm
  <2>3. Shape'
    BY <1>0, <1>4, <2>2 DEF Reopen, CloseDevice
  <2> QED
    BY <1>t, <2>1, <2>3 DEF Inv
<1>5. CASE LostReleases
  <2>1. HandleTypes' /\ SmallTypes'
    BY <1>0, <1>5 DEF LostReleases, Retry, CloseDevice
  <2>2. Shape'
    BY <1>0, <1>5 DEF LostReleases, Retry, CloseDevice
  <2> QED
    BY <1>t, <2>1, <2>2 DEF Inv
<1>6. CASE Stop
  <2>1. HandleTypes' /\ SmallTypes'
    <3>1. SmallTypes'
      BY <1>0, <1>6 DEF Stop
    <3>2. HandleTypes'
      BY <1>0, <1>6 DEF Stop, CloseDevice
    <3> QED
      BY <3>1, <3>2
  <2>2. Shape'
    BY <1>0, <1>6 DEF Stop, CloseDevice
  <2> QED
    BY <1>t, <2>1, <2>2 DEF Inv
<1>7. CASE Drop
  <2>1. HandleTypes' /\ SmallTypes'
    <3>1. SmallTypes'
      <4>1. drops' \in 0 .. MaxDrops
        BY <1>0, <1>7, BoundsAssumption DEF Drop, BoundsAssumption
      <4> QED
        BY <1>0, <1>7, <4>1 DEF Drop
    <3>2. HandleTypes'
      BY <1>0, <1>7 DEF Drop
    <3> QED
      BY <3>1, <3>2
  <2>2. Shape'
    BY <1>0, <1>7 DEF Drop
  <2> QED
    BY <1>t, <2>1, <2>2 DEF Inv
<1>8. CASE Plug
  <2>1. HandleTypes' /\ SmallTypes'
    BY <1>0, <1>8 DEF Plug
  <2>2. Shape'
    BY <1>0, <1>8 DEF Plug
  <2> QED
    BY <1>t, <2>1, <2>2 DEF Inv
<1>9. ASSUME NEW d \in Devices, Opened(d) PROVE Inv'
  <2>1. HandleTypes' /\ SmallTypes'
    BY <1>0, <1>9 DEF Opened
  <2>2. Shape'
    BY <1>0, <1>9 DEF Opened
  <2> QED
    BY <1>t, <2>1, <2>2 DEF Inv
<1>10. ASSUME NEW d \in Devices, Lost(d) PROVE Inv'
  <2>1. d = device /\ handle[d] = "lost" /\ immediates = 0
    BY <1>0, <1>10 DEF Lost
  <2>2. HandleTypes' /\ SmallTypes'
    BY <1>0, <1>10, <2>1 DEF Lost
  <2>3. Shape'
    BY <1>0, <1>10, <2>1 DEF Lost
  <2> QED
    BY <1>t, <2>2, <2>3 DEF Inv
<1>11. ASSUME NEW d \in Devices, Closed(d) PROVE Inv'
  <2>1. HandleTypes' /\ SmallTypes'
    BY <1>0, <1>11 DEF Closed, Retry
  <2>2. Closing = {d} /\ device = NoDevice
    BY <1>0, <1>11 DEF Closed
  <2>3. Shape'
    BY <1>0, <1>11, <2>2 DEF Closed, Retry
  <2> QED
    BY <1>t, <2>1, <2>3 DEF Inv
<1> QED
  BY <1>1, <1>2, <1>3, <1>4, <1>5, <1>6, <1>7, <1>8, <1>9, <1>10, <1>11
  DEF Next

LEMMA Invariance == ASSUME ~Overlap PROVE Spec => []Inv
<1>1. Inv /\ [Next]_vars => Inv'
  <2>1. CASE Next
    BY <2>1, StepInv
  <2>2. CASE UNCHANGED vars
    BY <2>2 DEF vars, readerVars, handleVars, envVars, Inv, TypeOK, Shape,
       OneHandle, NoOrphan, OneThing, Closing, LossesInOrder, IdleReaders
  <2> QED
    BY <2>1, <2>2
<1> QED
  BY InitInv, <1>1, PTL DEF Spec

(* The variables keep their types: at most one release is ever put off.     *)
THEOREM Typing == ASSUME ~Overlap PROVE Spec => []TypeOK
<1>1. Inv => TypeOK
  BY DEF Inv
<1> QED
  BY <1>1, Invariance, PTL

(* Without overlapping releases no handle is ever orphaned, and no open     *)
(* begins while a handle is being closed.                                   *)
THEOREM OneHandleAtATime ==
    ASSUME ~Overlap PROVE Spec => [](NoOrphan /\ OpensNeverOverlap)
<1>1. Inv => NoOrphan /\ OpensNeverOverlap
  BY DEF Inv, Shape, OneHandle, OneThing, OpensNeverOverlap
<1> QED
  BY <1>1, Invariance, PTL

-----------------------------------------------------------------------------
(* Every step of the service is one of the reader's, or leaves it alone: it *)
(* is HidReader that HidService drives.                                     *)
LEMMA ServiceStep == [ServiceNext]_allVars => [Next]_vars
<1> SUFFICES ASSUME [ServiceNext]_allVars PROVE [Next]_vars
  OBVIOUS
<1>1. CASE ReaderSteps
  BY <1>1 DEF ReaderSteps, Next
<1>2. CASE StopService
  BY <1>2 DEF StopService, Next
<1>3. CASE WindowEnds \/ PushTimerFires \/ Flush
  BY <1>3 DEF WindowEnds, PushTimerFires, Flush
<1>4. CASE \E d \in Devices : Reports(d)
  BY <1>4 DEF Reports
<1>5. CASE UNCHANGED allVars
  BY <1>5 DEF allVars
<1> QED
  BY <1>1, <1>2, <1>3, <1>4, <1>5 DEF ServiceNext

(* HidService implements HidReader, its fairness included: a behaviour of   *)
(* the service is one of the reader.                                        *)
THEOREM ServiceDrivesReader == ServiceSpec => FairSpec
<1>1. ServiceInit => Init
  BY DEF ServiceInit
<1> QED
  BY <1>1, ServiceStep, PTL DEF ServiceSpec, Spec, FairSpec

(* The service never holds two handles either.                              *)
THEOREM ServiceOneHandle ==
    ASSUME ~Overlap PROVE ServiceSpec => []NoOrphan
<1>1. FairSpec => Spec
  BY DEF FairSpec
<1>2. NoOrphan /\ OpensNeverOverlap => NoOrphan
  OBVIOUS
<1> QED
  BY <1>1, <1>2, ServiceDrivesReader, OneHandleAtATime, PTL

(* A reader that was never started has nothing that could report, and the   *)
(* renderer holds what it has: start() finds the two in step.               *)
NothingBeforeStart ==
    reader = "new" =>
        /\ ~opening /\ ~timer /\ immediates = 0 /\ silent = {}
        /\ \A d \in Devices : handle[d] = "none"
        /\ shown = report

ServiceInv == NothingBeforeStart /\ NoneLeftUnsent

LEMMA ServiceStepInv ==
    ASSUME ServiceInv, [ServiceNext]_allVars
    PROVE  ServiceInv'
<1> USE DEF ServiceInv, NothingBeforeStart, NoneLeftUnsent, Serves
<1>1. CASE ReaderSteps
  <2> UNCHANGED <<report, shown, pushTimer>>
    BY <1>1 DEF ReaderSteps, serviceVars
  <2>1. CASE Start
    BY <2>1 DEF Start
  <2>2. CASE OpenFails \/ RetryFires \/ LostReleases
    BY <2>2 DEF OpenFails, RetryFires, LostReleases, readerVars
  <2>3. CASE Reopen
    BY <2>3 DEF Reopen
  <2>4. CASE Drop \/ Plug
    BY <2>4 DEF Drop, Plug, readerVars, handleVars
  <2>5. ASSUME NEW d \in Devices, Opened(d) \/ Lost(d) \/ Closed(d)
        PROVE  ServiceInv'
    BY <2>5 DEF Opened, Lost, Closed, readerVars
  <2> QED
    BY <1>1, <2>1, <2>2, <2>3, <2>4, <2>5 DEF ReaderSteps
<1>2. CASE StopService
  BY <1>2 DEF StopService, Stop
<1>3. CASE WindowEnds \/ PushTimerFires \/ Flush
  BY <1>3 DEF WindowEnds, PushTimerFires, Flush, vars, readerVars, handleVars
<1>4. ASSUME NEW d \in Devices, Reports(d) PROVE ServiceInv'
  <2>1. reader # "new" /\ UNCHANGED reader
    BY <1>4 DEF Reports, vars, readerVars
  <2> QED
    BY <1>4, <2>1 DEF Reports, PushHid
<1>5. CASE UNCHANGED allVars
  BY <1>5 DEF allVars, vars, readerVars, handleVars, serviceVars
<1> QED
  BY <1>1, <1>2, <1>3, <1>4, <1>5 DEF ServiceNext

(* While the service runs, a report the renderer was not shown has its push *)
(* under way, whatever the reader goes through meanwhile: releases that     *)
(* overlap, a reader that never opened, a window that ends before its push. *)
THEOREM EveryReportIsSent == ServiceSpec => []NoneLeftUnsent
<1>1. ServiceInit => ServiceInv
  BY DEF ServiceInit, Init, ServiceInv, NothingBeforeStart, NoneLeftUnsent,
         Serves
<1>2. ServiceInv => NoneLeftUnsent
  BY DEF ServiceInv
<1> QED
  BY <1>1, <1>2, ServiceStepInv, PTL DEF ServiceSpec
=============================================================================
