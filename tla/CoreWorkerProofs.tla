-------------------------- MODULE CoreWorkerProofs --------------------------
(***************************************************************************)
(* The types of CoreWorker, for every bound on calls, runs and resizes.     *)
(* TypeOK is not inductive: that a call's number or a run's number is never  *)
(* 0 where it indexes a function rests on what a channel can contain.       *)
(***************************************************************************)
EXTENDS CoreWorker, TLAPS

-----------------------------------------------------------------------------
(* The inductive invariant for the types. *)

\* Nothing happens on the worker before the first run, and nothing is known of
\* a call before it is made.
Started ==
  /\ phase = "new" <=> run = 0
  /\ run = 0 => wpc = "idle" /\ jobs = <<>>
  /\ \A c \in CallIds : handler[c] = "none" <=> c > calls

\* An answer that can be sent has been computed for c.
Sent(c) ==
  /\ handler[c] \in {"copied", "sized", "answered"}
  /\ answer[c] \in {"value", "error", "exit"}

\* What a channel holds, and what is read from it, are answers that were sent.
Contents ==
  /\ \A c \in CallIds : handler[c] = "running" => chan[c] \in Runs
  /\ writing # 0 => chan[writing] \in Runs /\ data[chan[writing]] # 0
  /\ \A r \in Runs : data[r] # 0 => Sent(data[r])
  /\ \A r \in Runs : flag[r] = 1 => data[r] # 0
  /\ wpc = "sized" => data[run] # 0
  /\ wpc = "taken" => readData # 0
  /\ readData # 0 => Sent(readData)

TypeInv == TypeOK /\ Started /\ Contents

-----------------------------------------------------------------------------
(* Types. *)

\* The constants, without the Boolean one.
LEMMA Bounds == MaxCalls \in Nat /\ MaxRuns \in Nat /\ MaxResizes \in Nat
BY BoundsAreNat DEF BoundsAreNat

\* Every step keeps the types.
LEMMA TypeStep == TypeInv /\ [Next]_vars => TypeOK'
<1> SUFFICES ASSUME TypeInv PROVE [Next]_vars => TypeOK'
  OBVIOUS
<1> USE Bounds DEF TypeInv, TypeOK
<1>1. ASSUME RunCore PROVE TypeOK'
  <2>1. HostTypes'
    BY <1>1 DEF HostTypes, RunCore
  <2>2. WorkerTypes'
    BY <1>1 DEF WorkerTypes, RunCore
  <2> QED
    BY <1>1, <2>1, <2>2 DEF RunCore, CallTypes, callVars, SlotTypes, slotVars, MemTypes, memVars
<1>2. ASSUME Instantiated PROVE TypeOK'
  <2>1. HostTypes'
    BY <1>2 DEF HostTypes, Instantiated
  <2>2. WorkerTypes'
    BY <1>2 DEF WorkerTypes, Instantiated
  <2> QED
    BY <1>2, <2>1, <2>2 DEF Instantiated, CallTypes, callVars, SlotTypes, slotVars, MemTypes,
       memVars
<1>3. ASSUME Settled PROVE TypeOK'
  <2>1. HostTypes'
    BY <1>3 DEF HostTypes, Settled
  <2>2. WorkerTypes'
    BY <1>3 DEF WorkerTypes, Settled
  <2> QED
    BY <1>3, <2>1, <2>2 DEF Settled, CallTypes, callVars, SlotTypes, slotVars, MemTypes, memVars
<1>4. ASSUME SetupFailed PROVE TypeOK'
  <2>1. HostTypes'
    BY <1>4 DEF HostTypes, SetupFailed
  <2>2. WorkerTypes'
    BY <1>4 DEF WorkerTypes, SetupFailed
  <2> QED
    BY <1>4, <2>1, <2>2 DEF SetupFailed, CallTypes, callVars, SlotTypes, slotVars, MemTypes,
       memVars
<1>5. ASSUME StartEnded PROVE TypeOK'
  <2>1. HostTypes'
    BY <1>5 DEF HostTypes, StartEnded
  <2>2. WorkerTypes'
    BY <1>5 DEF WorkerTypes, StartEnded
  <2> QED
    BY <1>5, <2>1, <2>2 DEF StartEnded, CallTypes, callVars, SlotTypes, slotVars, MemTypes,
       memVars
<1>6. ASSUME Resize PROVE TypeOK'
  <2>1. HostTypes'
    BY <1>6 DEF HostTypes, Resize
  <2>2. WorkerTypes'
    BY <1>6 DEF WorkerTypes, Resize
  <2> QED
    BY <1>6, <2>1, <2>2 DEF Resize, CallTypes, callVars, SlotTypes, slotVars, MemTypes, memVars
<1>7. ASSUME NEW o \in {"ok", "error"}, Instantiate(o) PROVE TypeOK'
  <2>1. WorkerTypes'
    BY <1>7 DEF WorkerTypes, Instantiate
  <2> QED
    BY <1>7, <2>1 DEF Instantiate, HostTypes, hostVars, CallTypes, callVars, SlotTypes,
       slotVars, MemTypes, memVars
<1>8. ASSUME StartJob PROVE TypeOK'
  <2>1. WorkerTypes'
    BY <1>8 DEF WorkerTypes, StartJob
  <2> QED
    BY <1>8, <2>1 DEF StartJob, HostTypes, hostVars, CallTypes, callVars, SlotTypes, slotVars,
       MemTypes, memVars
<1>9. ASSUME NEW o \in {"ok", "error"}, GuestReturns(o) PROVE TypeOK'
  <2>1. WorkerTypes'
    BY <1>9 DEF WorkerTypes, GuestReturns, EndJob
  <2> QED
    BY SMTT(20), <1>9, <2>1 DEF GuestReturns, EndJob, HostTypes, hostVars, CallTypes, callVars,
       SlotTypes, slotVars, MemTypes, memVars
<1>10. ASSUME CallImport PROVE TypeOK'
  <2>1. WorkerTypes'
    BY <1>10 DEF WorkerTypes, CallTypes, CallImport, CallIds, Started, Runs
  <2>2. CallTypes'
    BY <1>10 DEF CallTypes, HostTypes, CallImport, CallIds, Started, Runs
  <2>3. MemTypes'
    BY SMTT(20), <1>10 DEF MemTypes, HostTypes, CallTypes, CallImport, CallIds, Runs, Writes, Started
  <2> QED
    BY <1>10, <2>1, <2>2, <2>3 DEF CallImport, HostTypes, hostVars, SlotTypes, slotVars
<1>11. ASSUME TakeLength PROVE TypeOK'
  <2>1. WorkerTypes'
    BY <1>11 DEF WorkerTypes, TakeLength, Started, Runs
  <2>2. SlotTypes'
    BY <1>11 DEF SlotTypes, HostTypes, WorkerTypes, TakeLength, CallIds, Runs, Started
  <2> QED
    BY <1>11, <2>1, <2>2 DEF TakeLength, HostTypes, hostVars, CallTypes, callVars, MemTypes,
       memVars
<1>12. ASSUME TakeData PROVE TypeOK'
  <2>1. WorkerTypes'
    BY <1>12 DEF WorkerTypes, TakeData, Started, Runs
  <2>2. SlotTypes'
    BY <1>12 DEF SlotTypes, HostTypes, WorkerTypes, TakeData, CallIds, Runs, Started
  <2> QED
    BY <1>12, <2>1, <2>2 DEF TakeData, HostTypes, hostVars, CallTypes, callVars, MemTypes,
       memVars
<1>13. ASSUME ResumeGuest PROVE TypeOK'
  <2>1. WorkerTypes'
    BY <1>13 DEF WorkerTypes, CallTypes, SlotTypes, ResumeGuest, EndJob, CallIds, Started,
       Runs, Contents, Sent
  <2>2. SlotTypes'
    BY SMTT(20), <1>13 DEF SlotTypes, CallTypes, ResumeGuest, EndJob, CallIds, Runs, Started, Contents,
       Sent
  <2>3. MemTypes'
    BY <1>13 DEF MemTypes, HostTypes, ResumeGuest, EndJob, CallIds, Runs, Writes, Started
  <2> QED
    BY <1>13, <2>1, <2>2, <2>3 DEF ResumeGuest, EndJob, HostTypes, hostVars, CallTypes, callVars
<1>14. ASSUME NEW c \in CallIds, Dispatch(c) PROVE TypeOK'
  <2>1. CallTypes'
    BY <1>14 DEF CallTypes, HostTypes, Dispatch, BeginImport, CallIds
  <2>2. MemTypes'
    BY <1>14 DEF MemTypes, CallTypes, Dispatch, BeginImport, CallIds, Runs, Writes
  <2> QED
    BY SMTT(20), <1>14, <2>1, <2>2 DEF Dispatch, BeginImport, HostTypes, hostVars, WorkerTypes,
       workerVars, SlotTypes, slotVars
<1>15. ASSUME NEW c \in CallIds, FindChannel(c) PROVE TypeOK'
  <2>1. CallTypes'
    BY SMTT(20), <1>15 DEF CallTypes, HostTypes, FindChannel, BeginImport, CallIds
  <2>2. MemTypes'
    BY <1>15 DEF MemTypes, CallTypes, FindChannel, BeginImport, CallIds, Runs, Writes
  <2> QED
    BY SMTT(20), <1>15, <2>1, <2>2 DEF FindChannel, BeginImport, HostTypes, hostVars, WorkerTypes,
       workerVars, SlotTypes, slotVars
<1>16. ASSUME NEW c \in CallIds, NEW k \in Kinds, FinishImport(c, k) PROVE TypeOK'
  <2>1. CallTypes'
    BY SMTT(20), <1>16 DEF CallTypes, FinishImport, CallIds
  <2>2. SlotTypes'
    BY <1>16 DEF SlotTypes, FinishImport, CallIds
  <2>3. MemTypes'
    <3>1. <<c, "host">> \in Writes
      BY DEF Writes
    <3>2. shared' \in [Runs -> SUBSET Writes]
      BY <1>16, <3>1 DEF MemTypes, FinishImport
    <3>3. guestMem' \in [Runs -> SUBSET Writes]
      BY <1>16, <3>1 DEF MemTypes, FinishImport
    <3> QED
      BY <1>16, <3>2, <3>3 DEF MemTypes, FinishImport
  <2> QED
    BY <1>16, <2>1, <2>2, <2>3 DEF FinishImport, HostTypes, hostVars, WorkerTypes, workerVars
<1>17. ASSUME StoreLength PROVE TypeOK'
  <2>1. CallTypes'
    BY <1>17 DEF CallTypes, StoreLength, CallIds
  <2>2. SlotTypes'
    BY <1>17 DEF SlotTypes, CallTypes, StoreLength, CallIds, Runs
  <2> QED
    BY <1>17, <2>1, <2>2 DEF StoreLength, HostTypes, hostVars, WorkerTypes, workerVars,
       MemTypes, memVars
<1>18. ASSUME StoreFlag PROVE TypeOK'
  <2>1. CallTypes'
    BY <1>18 DEF CallTypes, StoreFlag, CallIds
  <2>2. SlotTypes'
    BY <1>18 DEF SlotTypes, StoreFlag, CallIds, Runs
  <2> QED
    BY <1>18, <2>1, <2>2 DEF StoreFlag, HostTypes, hostVars, WorkerTypes, workerVars,
       MemTypes, memVars
<1>19. ASSUME UNCHANGED vars PROVE TypeOK'
  BY <1>19 DEF vars, HostTypes, hostVars, WorkerTypes, workerVars, CallTypes, callVars,
     SlotTypes, slotVars, MemTypes, memVars
<1> QED
  BY <1>1, <1>2, <1>3, <1>4, <1>5, <1>6, <1>7, <1>8, <1>9, <1>10, <1>11, <1>12, <1>13, <1>14,
     <1>15, <1>16, <1>17, <1>18, <1>19 DEF Next, Worker, Host

\* Runs are numbered from 1.
LEMMA StartedStep == TypeInv /\ [Next]_vars => Started'
<1> SUFFICES ASSUME TypeInv PROVE [Next]_vars => Started'
  OBVIOUS
<1> USE Bounds DEF TypeInv, TypeOK, HostTypes, WorkerTypes, CallTypes, CallIds
<1>1. ASSUME RunCore PROVE Started'
  BY <1>1 DEF Started, RunCore, callVars, slotVars, memVars
<1>2. ASSUME Instantiated PROVE Started'
  BY <1>2 DEF Started, Instantiated, callVars, slotVars, memVars
<1>3. ASSUME Settled PROVE Started'
  BY <1>3 DEF Started, Settled, callVars, slotVars, memVars
<1>4. ASSUME SetupFailed PROVE Started'
  BY <1>4 DEF Started, SetupFailed, callVars, slotVars, memVars
<1>5. ASSUME StartEnded PROVE Started'
  BY <1>5 DEF Started, StartEnded, callVars, slotVars, memVars
<1>6. ASSUME Resize PROVE Started'
  BY <1>6 DEF Started, Resize, callVars, slotVars, memVars
<1>7. ASSUME NEW o \in {"ok", "error"}, Instantiate(o) PROVE Started'
  BY <1>7 DEF Started, Instantiate, hostVars, callVars, slotVars, memVars
<1>8. ASSUME StartJob PROVE Started'
  BY <1>8 DEF Started, StartJob, hostVars, callVars, slotVars, memVars
<1>9. ASSUME NEW o \in {"ok", "error"}, GuestReturns(o) PROVE Started'
  BY <1>9 DEF Started, GuestReturns, EndJob, hostVars, callVars, slotVars, memVars
<1>10. ASSUME CallImport PROVE Started'
  BY <1>10 DEF Started, CallImport, hostVars, slotVars
<1>11. ASSUME TakeLength PROVE Started'
  BY <1>11 DEF Started, TakeLength, hostVars, callVars, memVars
<1>12. ASSUME TakeData PROVE Started'
  BY <1>12 DEF Started, TakeData, hostVars, callVars, memVars
<1>13. ASSUME ResumeGuest PROVE Started'
  BY <1>13 DEF Started, ResumeGuest, EndJob, hostVars, callVars
<1>14. ASSUME NEW c \in CallIds, Dispatch(c) PROVE Started'
  BY <1>14 DEF Started, Dispatch, BeginImport, hostVars, workerVars, slotVars
<1>15. ASSUME NEW c \in CallIds, FindChannel(c) PROVE Started'
  BY <1>15 DEF Started, FindChannel, BeginImport, hostVars, workerVars, slotVars
<1>16. ASSUME NEW c \in CallIds, NEW k \in Kinds, FinishImport(c, k) PROVE Started'
  BY <1>16 DEF Started, FinishImport, hostVars, workerVars
<1>17. ASSUME StoreLength PROVE Started'
  BY <1>17 DEF Started, StoreLength, hostVars, workerVars, memVars
<1>18. ASSUME StoreFlag PROVE Started'
  BY <1>18 DEF Started, StoreFlag, hostVars, workerVars, memVars
<1>19. ASSUME UNCHANGED vars PROVE Started'
  BY <1>19 DEF vars, hostVars, workerVars, callVars, slotVars, memVars, Started
<1> QED
  BY <1>1, <1>2, <1>3, <1>4, <1>5, <1>6, <1>7, <1>8, <1>9, <1>10, <1>11, <1>12, <1>13, <1>14,
     <1>15, <1>16, <1>17, <1>18, <1>19 DEF Next, Worker, Host

\* Only answers that were sent are found in a channel.
LEMMA ContentsStep == TypeInv /\ [Next]_vars => Contents'
<1> SUFFICES ASSUME TypeInv PROVE [Next]_vars => Contents'
  OBVIOUS
<1> USE Bounds DEF TypeInv, TypeOK, HostTypes, CallTypes, SlotTypes, CallIds, Runs, HostFree, Started
<1>d. /\ \A r \in Runs : data[r] # 0 => data[r] \in CallIds
      /\ readData # 0 => readData \in CallIds
  OBVIOUS
<1>1. ASSUME RunCore PROVE Contents'
  BY <1>1 DEF Contents, Sent, RunCore, callVars, slotVars, memVars
<1>2. ASSUME Instantiated PROVE Contents'
  BY <1>2 DEF Contents, Sent, Instantiated, callVars, slotVars, memVars
<1>3. ASSUME Settled PROVE Contents'
  BY <1>3 DEF Contents, Sent, Settled, callVars, slotVars, memVars
<1>4. ASSUME SetupFailed PROVE Contents'
  BY <1>4 DEF Contents, Sent, SetupFailed, callVars, slotVars, memVars
<1>5. ASSUME StartEnded PROVE Contents'
  BY <1>5 DEF Contents, Sent, StartEnded, callVars, slotVars, memVars
<1>6. ASSUME Resize PROVE Contents'
  BY <1>6 DEF Contents, Sent, Resize, callVars, slotVars, memVars
<1>7. ASSUME NEW o \in {"ok", "error"}, Instantiate(o) PROVE Contents'
  BY <1>7 DEF Contents, Sent, Instantiate, hostVars, callVars, slotVars, memVars
<1>8. ASSUME StartJob PROVE Contents'
  BY <1>8 DEF Contents, Sent, StartJob, hostVars, callVars, slotVars, memVars
<1>9. ASSUME NEW o \in {"ok", "error"}, GuestReturns(o) PROVE Contents'
  BY <1>9 DEF Contents, Sent, GuestReturns, EndJob, hostVars, callVars, slotVars, memVars
<1>10. ASSUME CallImport PROVE Contents'
  <2>1. ASSUME NEW d \in CallIds, Sent(d) PROVE Sent(d)'
    <3>1. calls + 1 \in CallIds /\ handler[calls + 1] = "none"
      BY <1>10 DEF CallImport
    <3>2. handler[d] # "none"
      BY <2>1 DEF Sent
    <3> QED
      BY <1>10, <2>1, <3>1, <3>2 DEF CallImport, Sent
  <2>2. \A d \in CallIds : handler'[d] = "running" => handler[d] = "running"
    BY <1>10 DEF CallImport
  <2> QED
    BY <1>10, <1>d, <2>1, <2>2 DEF Contents, CallImport, hostVars, slotVars
<1>11. ASSUME TakeLength PROVE Contents'
  BY <1>11 DEF Contents, Sent, TakeLength, hostVars, callVars, memVars
<1>12. ASSUME TakeData PROVE Contents'
  BY SMTT(20), <1>12 DEF Contents, Sent, TakeData, hostVars, callVars, memVars
<1>13. ASSUME ResumeGuest PROVE Contents'
  BY <1>13 DEF Contents, Sent, ResumeGuest, EndJob, hostVars, callVars
<1>14. ASSUME NEW c \in CallIds, Dispatch(c) PROVE Contents'
  <2>1. ASSUME NEW d \in CallIds, Sent(d) PROVE Sent(d)'
    BY <1>14, <2>1 DEF Dispatch, BeginImport, Sent
  <2>2. \A d \in CallIds : handler'[d] = "running" => chan'[d] \in Runs
    <3>1. \A d \in CallIds : d # c => handler'[d] = handler[d] /\ chan'[d] = chan[d]
      BY <1>14 DEF Dispatch, BeginImport
    <3>2. handler'[c] = "running" => chan'[c] \in Runs
      <4>1. CASE channel = 0
        BY <1>14, <4>1 DEF Dispatch
      <4>2. CASE channel # 0
        <5>1. channel \in Runs
          BY <4>2
        <5>2. chan' = [chan EXCEPT ![c] = channel]
          BY <1>14, <4>2 DEF Dispatch, BeginImport
        <5> QED
          BY <5>1, <5>2
      <4> QED
        BY <4>1, <4>2
    <3> QED
      BY <3>1, <3>2 DEF Contents
  <2>3. writing' = 0
    BY <1>14 DEF Dispatch
  <2> QED
    BY <1>14, <1>d, <2>1, <2>2, <2>3 DEF Contents, Dispatch, hostVars, workerVars, slotVars
<1>15. ASSUME NEW c \in CallIds, FindChannel(c) PROVE Contents'
  <2>1. ASSUME NEW d \in CallIds, Sent(d) PROVE Sent(d)'
    BY <1>15, <2>1 DEF FindChannel, BeginImport, Sent
  <2>2. \A d \in CallIds : handler'[d] = "running" => chan'[d] \in Runs
    BY <1>15 DEF Contents, FindChannel, BeginImport
  <2>3. writing' = 0
    BY <1>15 DEF FindChannel
  <2> QED
    BY <1>15, <1>d, <2>1, <2>2, <2>3 DEF Contents, FindChannel, hostVars, workerVars, slotVars
<1>16. ASSUME NEW c \in CallIds, NEW k \in Kinds, FinishImport(c, k) PROVE Contents'
  <2>1. ASSUME NEW d \in CallIds, Sent(d) PROVE Sent(d)'
    BY <1>16, <2>1 DEF FinishImport, Sent
  <2>2. CASE k = "unsendable"
    <3>1. \A d \in CallIds : handler'[d] = "running" => handler[d] = "running"
      BY <1>16, <2>2 DEF FinishImport
    <3> QED
      BY <1>16, <1>d, <2>1, <2>2, <3>1 DEF Contents, FinishImport, hostVars, workerVars
  <2>3. CASE k # "unsendable"
    <3>1. Sent(c)'
      BY <1>16, <2>3 DEF FinishImport, Sent, Kinds
    <3>2. \A r \in Runs : data'[r] = IF r = chan[c] THEN c ELSE data[r]
      BY <1>16, <2>3 DEF FinishImport
    <3>3. chan[c] \in Runs /\ c # 0
      BY <1>16 DEF Contents, FinishImport
    <3>4. \A d \in CallIds : handler'[d] = "running" => handler[d] = "running"
      BY <1>16, <2>3 DEF FinishImport
    <3>5. /\ writing' = c /\ chan' = chan /\ flag' = flag
          /\ readData' = readData /\ wpc' = wpc /\ run' = run
      BY <1>16, <2>3 DEF FinishImport, hostVars, workerVars
    <3>6. wpc = "sized" => run \in Runs
      OBVIOUS
    <3> QED
      BY <1>d, <2>1, <3>1, <3>2, <3>3, <3>4, <3>5, <3>6 DEF Contents
  <2> QED
    BY <2>2, <2>3
<1>17. ASSUME StoreLength PROVE Contents'
  <2>1. ASSUME NEW d \in CallIds, Sent(d) PROVE Sent(d)'
    BY <1>17, <2>1 DEF StoreLength, Sent
  <2>2. \A d \in CallIds : handler'[d] = "running" => handler[d] = "running"
    BY <1>17 DEF StoreLength
  <2> QED
    BY <1>17, <1>d, <2>1, <2>2 DEF Contents, StoreLength, hostVars, workerVars, memVars
<1>18. ASSUME StoreFlag PROVE Contents'
  <2>1. ASSUME NEW d \in CallIds, Sent(d) PROVE Sent(d)'
    BY <1>18, <2>1 DEF StoreFlag, Sent
  <2>2. \A d \in CallIds : handler'[d] = "running" => handler[d] = "running"
    BY <1>18 DEF StoreFlag
  <2> QED
    BY <1>18, <1>d, <2>1, <2>2 DEF Contents, StoreFlag, hostVars, workerVars, memVars
<1>19. ASSUME UNCHANGED vars PROVE Contents'
  BY <1>19 DEF vars, hostVars, workerVars, callVars, slotVars, memVars, Contents, Sent
<1> QED
  BY <1>1, <1>2, <1>3, <1>4, <1>5, <1>6, <1>7, <1>8, <1>9, <1>10, <1>11, <1>12, <1>13, <1>14,
     <1>15, <1>16, <1>17, <1>18, <1>19 DEF Next, Worker, Host

\* The invariant for the types holds initially.
LEMMA TypeInvInit == Init => TypeInv
<1> SUFFICES ASSUME Init PROVE TypeInv
  OBVIOUS
<1> USE Bounds DEF Init
<1>1. HostTypes
  BY DEF HostTypes
<1>2. WorkerTypes
  <2>1. wpc = "idle" /\ job = "none" /\ reply = "none" /\ cur = 0
    OBVIOUS
  <2>2. alive \in BOOLEAN
    BY Zenon
  <2>3. jobs \in Seq({"settle", "start", "resize"})
    OBVIOUS
  <2> QED
    BY <2>1, <2>2, <2>3 DEF WorkerTypes
<1>3. CallTypes /\ SlotTypes
  BY DEF CallTypes, SlotTypes
<1>4. MemTypes
  BY DEF MemTypes
<1>5. Started /\ Contents
  BY DEF Started, Contents, CallIds, Runs
<1> QED
  BY <1>1, <1>2, <1>3, <1>4, <1>5 DEF TypeInv, TypeOK

\* In every behaviour all variables keep the types TypeOK states.
THEOREM TypeCorrect == Spec => []TypeOK
<1>1. Init => TypeInv
  BY TypeInvInit
<1>2. TypeInv /\ [Next]_vars => TypeInv'
  BY TypeStep, StartedStep, ContentsStep DEF TypeInv
<1>3. TypeInv => TypeOK
  BY DEF TypeInv
<1> QED
  BY <1>1, <1>2, <1>3, PTL DEF Spec

-----------------------------------------------------------------------------
(* Nobody is left waiting for a channel.  This holds with leftovers too. *)

\* A program whose worker is alive has been given calls, and runs, only since
\* there is a channel.
HasChannel ==
  /\ phase \in {"settling", "running"} => channel # 0
  /\ alive /\ (jobs # <<>> \/ wpc \notin {"instantiate", "idle"}) => channel # 0

StrandInv == TypeInv /\ HasChannel /\ NoGuestStranded

\* The channel is set before the first call and cleared only as the worker ends.
LEMMA HasChannelStep == StrandInv /\ [Next]_vars => HasChannel'
<1> SUFFICES ASSUME StrandInv, [Next]_vars PROVE HasChannel'
  OBVIOUS
<1> USE DEF StrandInv, HasChannel
<1>1. CASE Host
  <2>1. CASE RunCore
    BY <2>1 DEF RunCore
  <2>2. CASE Instantiated
    <3>1. run # 0
      BY <2>2 DEF Instantiated, TypeInv, Started
    <3> QED BY <2>2, <3>1 DEF Instantiated
  <2>3. CASE Settled \/ SetupFailed \/ StartEnded \/ Resize
    BY <2>3 DEF Settled, SetupFailed, StartEnded, Resize
  <2>4. CASE StoreLength \/ StoreFlag
    BY <2>4 DEF StoreLength, StoreFlag, hostVars, workerVars
  <2>5. ASSUME NEW c \in CallIds, Dispatch(c) \/ FindChannel(c)
        PROVE  HasChannel'
    BY <2>5 DEF Dispatch, FindChannel, hostVars, workerVars
  <2>6. ASSUME NEW c \in CallIds, NEW k \in Kinds, FinishImport(c, k)
        PROVE  HasChannel'
    BY <2>6 DEF FinishImport, hostVars, workerVars
  <2> QED BY <1>1, <2>1, <2>2, <2>3, <2>4, <2>5, <2>6 DEF Host
<1>2. CASE Worker
  <2>1. ASSUME NEW o \in {"ok", "error"}, Instantiate(o) \/ GuestReturns(o)
        PROVE  HasChannel'
    BY <2>1 DEF Instantiate, GuestReturns, EndJob, hostVars
  <2>2. CASE StartJob
    BY <2>2 DEF StartJob, hostVars
  <2>3. CASE CallImport \/ TakeLength \/ TakeData
    BY <2>3 DEF CallImport, TakeLength, TakeData, hostVars
  <2>4. CASE ResumeGuest
    BY <2>4 DEF ResumeGuest, EndJob, hostVars
  <2> QED BY <1>2, <2>1, <2>2, <2>3, <2>4 DEF Worker
<1>3. CASE UNCHANGED vars
  BY <1>3 DEF vars, hostVars, workerVars
<1> QED BY <1>1, <1>2, <1>3 DEF Next

\* A call whose handler finds no channel was made by a program that is over.
LEMMA StrandStep == StrandInv /\ [Next]_vars => NoGuestStranded'
<1> SUFFICES ASSUME StrandInv, [Next]_vars PROVE NoGuestStranded'
  OBVIOUS
<1> USE DEF StrandInv, NoGuestStranded
<1>0. handler \in [CallIds -> {"none", "posted", "noChannel", "running", "copied", "sized",
                               "answered", "unsent"}]
  BY DEF TypeInv, TypeOK, CallTypes
<1>1. CASE Host
  <2>1. CASE RunCore \/ Instantiated \/ Settled \/ SetupFailed \/ StartEnded \/ Resize
    BY <2>1 DEF RunCore, Instantiated, Settled, SetupFailed, StartEnded, Resize, callVars
  <2>2. CASE StoreLength \/ StoreFlag
    BY <2>2, <1>0 DEF StoreLength, StoreFlag, workerVars
  <2>3. ASSUME NEW c \in CallIds, Dispatch(c)
        PROVE  NoGuestStranded'
    <3>1. CASE channel # 0
      BY <2>3, <3>1, <1>0 DEF Dispatch, BeginImport, workerVars
    <3>2. CASE channel = 0
      <4>1. ~(alive /\ wpc = "wait")
        BY <3>2 DEF HasChannel
      <4> QED BY <2>3, <4>1 DEF Dispatch, workerVars
    <3> QED BY <3>1, <3>2
  <2>4. ASSUME NEW c \in CallIds, FindChannel(c)
        PROVE  NoGuestStranded'
    BY <2>4, <1>0 DEF FindChannel, BeginImport, workerVars
  <2>5. ASSUME NEW c \in CallIds, NEW k \in Kinds, FinishImport(c, k)
        PROVE  NoGuestStranded'
    BY <2>5, <1>0 DEF FinishImport, workerVars
  <2> QED BY <1>1, <2>1, <2>2, <2>3, <2>4, <2>5 DEF Host
<1>2. CASE Worker
  <2>1. ASSUME NEW o \in {"ok", "error"}, Instantiate(o) \/ GuestReturns(o)
        PROVE  NoGuestStranded'
    BY <2>1 DEF Instantiate, GuestReturns, EndJob
  <2>2. CASE StartJob \/ TakeLength \/ TakeData
    BY <2>2 DEF StartJob, TakeLength, TakeData
  <2>3. CASE CallImport
    BY <2>3, <1>0 DEF CallImport
  <2>4. CASE ResumeGuest
    BY <2>4 DEF ResumeGuest, EndJob
  <2> QED BY <1>2, <2>1, <2>2, <2>3, <2>4 DEF Worker
<1>3. CASE UNCHANGED vars
  BY <1>3 DEF vars, workerVars, callVars
<1> QED BY <1>1, <1>2, <1>3 DEF Next

\* The invariant holds in every behaviour.
LEMMA StrandInvariance == Spec => []StrandInv
<1>1. Init => StrandInv
  <2>1. Init => HasChannel /\ NoGuestStranded
    BY DEF Init, HasChannel, NoGuestStranded
  <2> QED BY <2>1, TypeInvInit DEF StrandInv
<1>2. StrandInv /\ [Next]_vars => StrandInv'
  BY TypeStep, StartedStep, ContentsStep, HasChannelStep, StrandStep DEF StrandInv, TypeInv
<1> QED BY <1>1, <1>2, PTL DEF Spec

\* A handler that polls for a channel keeps no live guest waiting: it was posted
\* by a program whose worker has been terminated, however many runs a WASI
\* object has had.
THEOREM NobodyIsStranded == Spec => []NoGuestStranded
<1>1. StrandInv => NoGuestStranded
  BY DEF StrandInv
<1> QED BY <1>1, StrandInvariance, PTL

-----------------------------------------------------------------------------
(* Liveness with leftovers.  The prover does not evaluate ENABLED, so the     *)
(* theorems assume Ready: that an action of Fairness can be taken wherever    *)
(* the conditions on the current state that it states hold.                  *)

Ready ==
  /\ writing # 0 /\ handler[writing] = "copied" => ENABLED <<StoreLength>>_vars
  /\ writing # 0 /\ handler[writing] = "sized" => ENABLED <<StoreFlag>>_vars
  /\ alive /\ wpc = "wait" /\ flag[run] = 1 => ENABLED <<TakeLength>>_vars
  /\ alive /\ wpc = "sized" => ENABLED <<TakeData>>_vars
  /\ alive /\ wpc = "taken" => ENABLED <<ResumeGuest>>_vars
  /\ \A c \in CallIds :
       HostFree /\ handler[c] = "posted" => ENABLED <<Dispatch(c)>>_vars

\* The event loop takes up every message in its turn, between the answers to
\* other calls that it writes.
FairToMessage(c) == SF_vars(Dispatch(c))

FairToMessages == \A c \in CallIds : FairToMessage(c)

\* A run that has made a call, and whose worker is alive, has its channel.
CallersHaveChannel ==
  \A c \in CallIds : origin[c] <= run /\ (alive /\ origin[c] = run => channel # 0)

\* The message that is being written is an answer on its way to the slot.
WritesAnswer == writing # 0 => handler[writing] \in {"copied", "sized"}

TurnInv == StrandInv /\ CallersHaveChannel /\ WritesAnswer

\* The channel of a run outlives its worker, and a new run has made no calls.
LEMMA CallersStep == TurnInv /\ [Next]_vars => CallersHaveChannel'
<1> SUFFICES ASSUME TurnInv, [Next]_vars PROVE CallersHaveChannel'
  OBVIOUS
<1> USE Bounds DEF TurnInv, StrandInv, CallersHaveChannel
<1>t. TypeOK /\ Started
  BY DEF TypeInv
<1>1. CASE RunCore
  BY <1>1, <1>t DEF RunCore, callVars, TypeOK, CallTypes, HostTypes
<1>2. CASE Instantiated
  BY <1>2, <1>t DEF Instantiated, callVars, Started
<1>3. CASE Settled \/ SetupFailed \/ StartEnded \/ Resize
  BY <1>3 DEF Settled, SetupFailed, StartEnded, Resize, callVars
<1>4. CASE StoreLength \/ StoreFlag
  BY <1>4 DEF StoreLength, StoreFlag, hostVars, workerVars
<1>5. ASSUME NEW c \in CallIds,
             Dispatch(c) \/ FindChannel(c) \/ \E k \in Kinds : FinishImport(c, k)
      PROVE  CallersHaveChannel'
  BY <1>5 DEF Dispatch, FindChannel, FinishImport, hostVars, workerVars
<1>6. ASSUME NEW o \in {"ok", "error"}, Instantiate(o) \/ GuestReturns(o)
      PROVE  CallersHaveChannel'
  BY <1>6 DEF Instantiate, GuestReturns, EndJob, hostVars, callVars
<1>7. CASE StartJob \/ TakeLength \/ TakeData \/ ResumeGuest
  BY <1>7 DEF StartJob, TakeLength, TakeData, ResumeGuest, EndJob, hostVars, callVars
<1>8. CASE CallImport
  <2>1. channel # 0 /\ run \in Nat
    BY <1>8, <1>t DEF CallImport, HasChannel, TypeOK, HostTypes
  <2>2. \A c \in CallIds : origin'[c] = origin[c] \/ origin'[c] = run
    BY <1>8, <1>t DEF CallImport, TypeOK, CallTypes
  <2> QED
    BY <1>8, <2>1, <2>2 DEF CallImport, hostVars
<1>9. CASE UNCHANGED vars
  BY <1>9 DEF vars, hostVars, workerVars, callVars
<1> QED
  BY <1>1, <1>2, <1>3, <1>4, <1>5, <1>6, <1>7, <1>8, <1>9 DEF Next, Host, Worker

\* The worker does nothing to calls that have been made.
LEMMA WorkerKeepsHandlers ==
  ASSUME CallTypes, Started, Worker, NEW c \in CallIds, handler[c] # "none"
  PROVE  handler'[c] = handler[c] /\ writing' = writing
<1>1. CASE CallImport
  <2>1. c # calls + 1
    BY Bounds DEF Started, CallTypes, CallIds
  <2> QED
    BY <1>1, <2>1 DEF CallImport, CallTypes
<1>2. CASE ~CallImport
  BY <1>2 DEF Worker, Instantiate, GuestReturns, StartJob, TakeLength, TakeData, ResumeGuest,
     callVars
<1> QED
  BY <1>1, <1>2

\* writeMessage is not interrupted on the main thread: a handler that writes
\* an answer goes from its bytes to its length to its flag.
LEMMA WritingStep ==
  ASSUME TurnInv, [Next]_vars, writing # 0
  PROVE  \/ writing' = writing /\ handler'[writing] = handler[writing]
         \/ StoreLength /\ writing' = writing /\ handler'[writing] = "sized"
         \/ StoreFlag /\ writing' = 0
<1> USE DEF TurnInv, WritesAnswer
<1>t. CallTypes /\ Started /\ writing \in CallIds
  BY DEF StrandInv, TypeInv, TypeOK, CallTypes, CallIds
<1>1. CASE Worker
  BY <1>t, <1>1, WorkerKeepsHandlers
<1>2. CASE Host
  <2>1. StoreLength \/ StoreFlag
    BY <1>2 DEF Host, RunCore, Instantiated, Settled, SetupFailed, StartEnded, Resize, Dispatch,
       FindChannel, FinishImport, HostFree
  <2> QED
    BY <1>t, <2>1 DEF StoreLength, StoreFlag, CallTypes
<1>3. CASE UNCHANGED vars
  BY <1>3 DEF vars, callVars
<1> QED
  BY <1>1, <1>2, <1>3 DEF Next

\* A message is written only once its bytes are there.
LEMMA WritesAnswerStep == TurnInv /\ [Next]_vars => WritesAnswer'
<1> SUFFICES ASSUME TurnInv, [Next]_vars PROVE WritesAnswer'
  OBVIOUS
<1>t. CallTypes
  BY DEF TurnInv, StrandInv, TypeInv, TypeOK
<1>1. CASE writing # 0
  BY <1>1, WritingStep DEF TurnInv, WritesAnswer
<1>2. CASE writing = 0 /\ writing' # 0
  <2>1. PICK c \in CallIds, k \in Kinds : FinishImport(c, k)
    BY <1>2 DEF Next, Worker, Host, Instantiate, GuestReturns, StartJob, CallImport, TakeLength,
       TakeData, ResumeGuest, RunCore, Instantiated, Settled, SetupFailed, StartEnded, Resize,
       Dispatch, FindChannel, StoreLength, StoreFlag, callVars, vars
  <2> QED
    BY <1>2, <1>t, <2>1 DEF FinishImport, WritesAnswer, CallTypes
<1> QED
  BY <1>1, <1>2 DEF WritesAnswer

\* The invariant holds in every behaviour.
LEMMA TurnInvariance == Spec => []TurnInv
<1>1. Init => CallersHaveChannel /\ WritesAnswer
  BY Bounds DEF Init, CallersHaveChannel, WritesAnswer
<1>2. CallersHaveChannel /\ WritesAnswer /\ StrandInv => TurnInv
  BY DEF TurnInv
<1>3. TurnInv => StrandInv
  BY DEF TurnInv
<1> QED
  BY <1>1, <1>2, <1>3, StrandInvariance, CallersStep, WritesAnswerStep, PTL DEF Spec

\* A posted call stays posted until it is taken up, and it is taken up by a
\* handler that finds the channel, if its guest still waits.
LEMMA PostedCall ==
  ASSUME NEW c \in CallIds, TurnInv, [Next]_vars, handler[c] = "posted"
  PROVE  \/ handler'[c] = "posted" /\ ~Dispatch(c)
         \/ Dispatch(c) /\ (chan'[c] # 0 \/ (~alive)' \/ origin'[c] # run')
<1>t. CallTypes /\ Started
  BY DEF TurnInv, StrandInv, TypeInv, TypeOK
<1>1. CASE Dispatch(c)
  <2>1. channel # 0 => chan'[c] = channel
    BY <1>t, <1>1 DEF Dispatch, BeginImport, CallTypes
  <2>2. channel = 0 => ~alive \/ origin[c] # run
    BY DEF TurnInv, CallersHaveChannel
  <2> QED
    BY <1>1, <2>1, <2>2 DEF Dispatch, hostVars, workerVars
<1> SUFFICES ASSUME ~Dispatch(c) PROVE handler'[c] = "posted"
  BY <1>1
<1>2. CASE Worker
  BY <1>t, <1>2, WorkerKeepsHandlers
<1>3. CASE RunCore \/ Instantiated \/ Settled \/ SetupFailed \/ StartEnded \/ Resize
  BY <1>3 DEF RunCore, Instantiated, Settled, SetupFailed, StartEnded, Resize, callVars
<1>4. CASE StoreLength \/ StoreFlag
  BY <1>t, <1>4 DEF StoreLength, StoreFlag, CallTypes
<1>5. ASSUME NEW d \in CallIds,
             Dispatch(d) \/ FindChannel(d) \/ \E k \in Kinds : FinishImport(d, k)
      PROVE  handler'[c] = "posted"
  BY <1>t, <1>5 DEF Dispatch, FindChannel, BeginImport, FinishImport, CallTypes
<1>6. CASE UNCHANGED vars
  BY <1>6 DEF vars, callVars
<1> QED
  BY <1>2, <1>3, <1>4, <1>5, <1>6 DEF Next, Host

\* The main thread never stays in writeMessage.
LEMMA HostGetsFree == FairSpec /\ []Ready => []<>HostFree
<1> DEFINE Copied == writing # 0 /\ handler[writing] = "copied"
           Sized == writing # 0 /\ handler[writing] = "sized"
<1>1. TurnInv => HostFree \/ Copied \/ Sized
  BY DEF TurnInv, WritesAnswer, HostFree
<1>2. TurnInv /\ [Next]_vars /\ Copied => Copied' \/ Sized'
  BY WritingStep DEF StoreFlag
<1>3. TurnInv /\ <<StoreLength>>_vars /\ Copied => Sized'
  BY WritingStep DEF StoreLength, StoreFlag, Next, Host, TurnInv, StrandInv, TypeInv, TypeOK,
     CallTypes, CallIds
<1>4. TurnInv /\ [Next]_vars /\ Sized => Sized' \/ HostFree'
  BY WritingStep DEF StoreLength, HostFree
<1>5. TurnInv /\ <<StoreFlag>>_vars /\ Sized => HostFree'
  BY DEF StoreFlag, HostFree
<1>6. Ready /\ Copied => ENABLED <<StoreLength>>_vars
  BY DEF Ready
<1>7. Ready /\ Sized => ENABLED <<StoreFlag>>_vars
  BY DEF Ready
<1> HIDE DEF Copied, Sized
<1> QED
  BY <1>1, <1>2, <1>3, <1>4, <1>5, <1>6, <1>7, TurnInvariance, PTL DEF FairSpec, Spec, Fairness

\* A call reaches its import however many handlers of earlier runs are still at
\* work, as long as messages have their turn.  That they have where Dispatch is
\* only weakly fair, as there are finitely many calls, is left to the runs.
THEOREM CallsAreTakenUp == FairSpec /\ FairToMessages /\ []Ready => CallReachesImport
<1>1. ASSUME NEW c \in CallIds
      PROVE  FairSpec /\ FairToMessages /\ []Ready
               => ((handler[c] = "posted") ~> (chan[c] # 0 \/ ~alive \/ origin[c] # run))
  <2> DEFINE Posted == handler[c] = "posted"
             Reached == chan[c] # 0 \/ ~alive \/ origin[c] # run
  <2>1. TurnInv /\ [Next]_vars /\ Posted => Posted' \/ Reached'
    BY PostedCall
  <2>2. TurnInv /\ <<Dispatch(c)>>_vars /\ Posted => Reached'
    BY PostedCall DEF Next, Host
  <2>3. Ready /\ HostFree /\ Posted => ENABLED <<Dispatch(c)>>_vars
    BY DEF Ready
  <2>4. FairToMessages => FairToMessage(c)
    BY DEF FairToMessages
  <2> HIDE DEF Posted, Reached
  <2>5. FairSpec /\ FairToMessages /\ []Ready => (Posted ~> Reached)
    BY <2>1, <2>2, <2>3, <2>4, HostGetsFree, TurnInvariance, PTL
       DEF FairSpec, Spec, FairToMessage
  <2> QED
    BY <2>5 DEF Posted, Reached
<1> QED
  BY <1>1 DEF CallReachesImport
=============================================================================
